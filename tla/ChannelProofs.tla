--------------------------- MODULE ChannelProofs ---------------------------
(***************************************************************************)
(* Proofs about Channel, for every number of goroutines and requests and   *)
(* every choice of the constants: its locks, that answers are genuine and  *)
(* that it implements RequestService; then, on those invariants, the type  *)
(* of the state, that a channel without fault tolerance never lets a       *)
(* goroutine wait for itself, and that requests are exchanged one at a     *)
(* time as long as nothing fails.                                          *)
(***************************************************************************)
EXTENDS Channel, TLAPS

-----------------------------------------------------------------------------
(* Locks *)

\* At first no goroutine is past a lock.
LEMMA LockInit == Init => LockInv
BY ProcsAssumption DEF Init, LockInv, PCTypeOK, LockDiscipline, AppPCs,
   ReaderPCs, ConnectPCs, SendLockPCs, HandlerPCs, InSendLock,
      InExceptionLock, Procs

\* channelHandleException returns: to the loop of the reader, or to the
\* channelRequestReply that called it.
LEMMA LockEndHandler ==
    ASSUME LockInv, NEW p \in Procs, p \in Readers \/ nested[p],
           NEW from \in HandlerPCs \ {"rrLock", "tryConnect"}, NEW res,
           EndHandler(p, from, res), UNCHANGED sendLock
    PROVE  LockInv'
<1> USE ProcsAssumption
    DEF LockInv, PCTypeOK, LockDiscipline, AppPCs, ReaderPCs, ConnectPCs,
        SendLockPCs, HandlerPCs, InSendLock, InExceptionLock, Procs, Goto
<1>1. CASE p \in Readers
  BY <1>1 DEF EndHandler
<1>2. CASE p \notin Readers
  <2>1. /\ pc[p] = from /\ nested[p] /\ p \in Apps
        /\ \E l \in {"rrRejected", "rrSend"} : pc' = [pc EXCEPT ![p] = l]
        /\ exceptionLock' = None
        /\ nested' = [nested EXCEPT ![p] = FALSE]
    BY <1>2 DEF EndHandler
  <2> QED BY <2>1
<1> QED BY <1>1, <1>2

\* Every step of every goroutine, whichever locks it takes or releases, and
\* every step of the environment preserves LockInv.
LEMMA LockNext == LockInv /\ [Next]_vars => LockInv'
<1> SUFFICES ASSUME LockInv, [Next]_vars PROVE LockInv'
  OBVIOUS
<1> USE ProcsAssumption
    DEF LockInv, PCTypeOK, LockDiscipline, AppPCs, ReaderPCs, ConnectPCs,
        SendLockPCs, HandlerPCs, InSendLock, InExceptionLock, Procs, Goto,
           GotoAndSpawn,
        linkVars, lockVars, connVars
<1>1. ASSUME NEW a \in Apps, AppStep(a) PROVE LockInv'
  <2>1. CASE CheckConnected(a)
    BY <2>1 DEF CheckConnected
  <2>2. CASE SendOk(a)
    BY <2>2 DEF SendOk
  <2>3. CASE SendFailed(a)
    BY <2>3 DEF SendFailed
  <2>4. CASE WaitForLink(a)
    <3>1. /\ pc[a] = "excWait"
          /\ \E l \in {"idle", "check"} : pc' = [pc EXCEPT ![a] = l]
          /\ exceptionLock' = None
          /\ UNCHANGED <<sendLock, nested>>
      BY <2>4 DEF WaitForLink
    <3> QED BY <3>1
  <2>5. CASE Await(a)
    BY <2>5 DEF Await
  <2>6. CASE TakeReply(a)
    BY <2>6 DEF TakeReply
  <2>7. CASE ChannelConnect(a)
    <3>1. /\ pc[a] = "connect"
          /\ \E l \in {"start", "tryConnect", "idle"} :
                pc' = [pc EXCEPT ![a] = l]
          /\ UNCHANGED <<lockVars, nested>>
      BY <2>7 DEF ChannelConnect, ClosedStates
    <3> QED BY <3>1
  <2>8. CASE ChannelStart(a)
    BY <2>8 DEF ChannelStart
  <2>9. CASE ClearRunning(a)
    BY <2>9 DEF ClearRunning
  <2>10. CASE StopSent(a)
    BY <2>10 DEF StopSent
  <2>11. CASE StopSendFailed(a)
    BY <2>11 DEF StopSendFailed
  <2>12. CASE StopClose(a)
    BY <2>12 DEF StopClose
  <2> QED BY <1>1, <2>1, <2>2, <2>3, <2>4, <2>5, <2>6, <2>7, <2>8, <2>9,
     <2>10, <2>11, <2>12 DEF AppStep
<1>2. ASSUME NEW a \in Apps, AppLocks(a) PROVE LockInv'
  <2>1. CASE LockAndRegister(a)
    BY <2>1 DEF LockAndRegister
  <2>2. CASE LockException(a)
    BY <2>2 DEF LockException
  <2>3. CASE ChannelDisConnect(a)
    BY <2>3 DEF ChannelDisConnect
  <2>4. CASE StopSkipped(a)
    BY <2>4 DEF StopSkipped
  <2>5. CASE StopReader(a)
    BY <2>5 DEF StopReader
  <2> QED BY <1>2, <2>1, <2>2, <2>3, <2>4, <2>5 DEF AppLocks
<1>3. ASSUME NEW a \in Apps, AppCalls(a) PROVE LockInv'
  <2>1. CASE SendRequest(a)
    BY <2>1 DEF SendRequest
  <2>2. CASE SendMessage(a)
    BY <2>2 DEF SendMessage
  <2>3. CASE Connect(a)
    BY <2>3 DEF Connect
  <2>4. CASE Disconnect(a)
    BY <2>4 DEF Disconnect
  <2>5. CASE ForceStop(a)
    BY <2>5 DEF ForceStop
  <2> QED BY <1>3, <2>1, <2>2, <2>3, <2>4, <2>5 DEF AppCalls
<1>4. ASSUME NEW p \in Procs, ConnectStep(p) PROVE LockInv'
  <2>1. CASE Reconnect(p)
    <3>1. CASE HasFT
      BY <2>1, <3>1 DEF Reconnect
    <3>2. CASE ~HasFT
      <4>1. p \in Readers \/ nested[p]
        BY <2>1, <3>2 DEF Reconnect, EndHandler
      <4> QED BY <2>1, <3>2, <4>1, LockEndHandler DEF Reconnect
    <3> QED BY <3>1, <3>2
  <2>2. CASE CreateSocket(p)
    BY <2>2 DEF CreateSocket
  <2>3. CASE CreateSocketFailed(p)
    BY <2>3 DEF CreateSocketFailed, NextAttempt
  <2>4. CASE RequestReplySend(p)
    BY <2>4 DEF RequestReplySend
  <2>5. CASE RequestReplySendFailed(p)
    BY <2>5 DEF RequestReplySendFailed
  <2>6. CASE RequestReplyRead(p)
    BY <2>6 DEF RequestReplyRead
  <2>7. CASE HandshakeRefused(p)
    BY <2>7 DEF HandshakeRefused
  <2>8. CASE RequestReplyReadFailed(p)
    BY <2>8 DEF RequestReplyReadFailed
  <2>9. CASE RequestReplyNoMessage(p)
    BY <2>9 DEF RequestReplyNoMessage
  <2>10. CASE OnConnectFailed(p)
    BY <2>10 DEF OnConnectFailed, NextAttempt
  <2>11. CASE TryConnectOk(p)
    <3>1. CASE ~InHandler(p)
      BY <2>11, <3>1 DEF TryConnectOk, InHandler
    <3>2. CASE InHandler(p)
      BY <2>11, <3>2, LockEndHandler DEF TryConnectOk, InHandler
    <3> QED BY <3>1, <3>2
  <2>12. CASE TryConnectFailed(p)
    <3>1. CASE ~InHandler(p)
      BY <2>12, <3>1 DEF TryConnectFailed, InHandler
    <3>2. CASE InHandler(p)
      BY <2>12, <3>2, LockEndHandler DEF TryConnectFailed, InHandler
    <3> QED BY <3>1, <3>2
  <2> QED BY <1>4, <2>1, <2>2, <2>3, <2>4, <2>5, <2>6, <2>7, <2>8, <2>9,
     <2>10, <2>11, <2>12 DEF ConnectStep
<1>5. ASSUME NEW p \in Procs, ConnectLocks(p) PROVE LockInv'
  <2>1. CASE RequestReplyLock(p)
    BY <2>1 DEF RequestReplyLock
  <2>2. CASE RequestReplyHandle(p)
    BY <2>2 DEF RequestReplyHandle
  <2> QED BY <1>5, <2>1, <2>2 DEF ConnectLocks
<1>6. ASSUME NEW g \in Readers, ReaderStep(g) PROVE LockInv'
  <2>1. CASE ReaderStart(g)
    BY <2>1 DEF ReaderStart
  <2>2. CASE ReaderMark(g)
    BY <2>2 DEF ReaderMark
  <2>3. CASE ReaderTop(g)
    BY <2>3 DEF ReaderTop
  <2>4. CASE ReaderRead(g)
    BY <2>4 DEF ReaderRead
  <2>5. CASE ReaderGets(g)
    BY <2>5 DEF ReaderGets
  <2>6. CASE ReaderReadFailed(g)
    BY <2>6 DEF ReaderReadFailed
  <2>7. CASE ProcessMessage(g)
    BY <2>7 DEF ProcessMessage
  <2>8. CASE ReaderError(g)
    BY <2>8 DEF ReaderError
  <2>9. CASE NotifyOne(g)
    BY <2>9 DEF NotifyOne, readVars
  <2>10. CASE NotifyDone(g)
    BY <2>10 DEF NotifyDone
  <2>11. CASE ReaderExit(g)
    BY <2>11 DEF ReaderExit
  <2> QED BY <1>6, <2>1, <2>2, <2>3, <2>4, <2>5, <2>6, <2>7, <2>8, <2>9,
     <2>10, <2>11 DEF ReaderStep
<1>7. ASSUME NEW g \in Readers, ReaderLocks(g) PROVE LockInv'
  <2>1. CASE ReaderHandle(g)
    BY <2>1 DEF ReaderHandle
  <2>2. CASE ReaderTerminated(g)
    BY <2>2 DEF ReaderTerminated
  <2> QED BY <1>7, <2>1, <2>2 DEF ReaderLocks
<1>8. CASE Environment
  BY <1>8 DEF Environment, Answer, ServerSends, PeerGone
<1>9. CASE UNCHANGED vars
  BY <1>9 DEF vars
<1> QED BY <1>1, <1>2, <1>3, <1>4, <1>5, <1>6, <1>7, <1>8, <1>9 DEF Next

\* Every goroutine that unlocks sendLock or exceptionLock holds it, and at
\* most one is past either lock: channelStop, channelRequestReply,
\* channelSendRequest and channelHandleException together.
THEOREM LocksHeld == Spec => []LockDiscipline
<1>1. LockInv => LockDiscipline
  BY DEF LockInv
<1> QED BY LockInit, LockNext, <1>1, PTL DEF Spec

-----------------------------------------------------------------------------
(* Calls and their outcomes *)

\* At first no request has been sent.
LEMMA CallInit == Init => CallInv
BY BoundsAssumption DEF Init, CallInv, Inside, ReqId, Procs, SendPCs

\* No step lets a request have two goroutines, or an outcome while its
\* goroutine is still inside SendRequest.
LEMMA CallNext == PCTypeOK /\ CallInv /\ [Next]_vars => CallInv'
<1> SUFFICES ASSUME PCTypeOK, CallInv, [Next]_vars PROVE CallInv'
  OBVIOUS
<1> USE ProcsAssumption, BoundsAssumption
    DEF CallInv, PCTypeOK, Inside, SendPCs, AppPCs, ReaderPCs, ConnectPCs,
        Procs, ReqId, Goto, GotoAndSpawn, Return, respVars, callVars,
        countVars
<1>1. ASSUME NEW a \in Apps, AppStep(a) PROVE CallInv'
  <2>1. CASE CheckConnected(a)
    BY <2>1 DEF CheckConnected
  <2>2. CASE SendOk(a)
    BY <2>2 DEF SendOk
  <2>3. CASE SendFailed(a)
    BY <2>3 DEF SendFailed
  <2>4. CASE WaitForLink(a)
    BY <2>4, SMTT(30) DEF WaitForLink
  <2>5. CASE Await(a)
    BY <2>5 DEF Await
  <2>6. CASE TakeReply(a)
    BY <2>6 DEF TakeReply
  <2>7. CASE ChannelConnect(a)
    BY <2>7 DEF ChannelConnect
  <2>8. CASE ChannelStart(a)
    BY <2>8 DEF ChannelStart
  <2>9. CASE ClearRunning(a)
    BY <2>9 DEF ClearRunning
  <2>10. CASE StopSent(a)
    BY <2>10 DEF StopSent
  <2>11. CASE StopSendFailed(a)
    BY <2>11 DEF StopSendFailed
  <2>12. CASE StopClose(a)
    BY <2>12 DEF StopClose
  <2> QED BY <1>1, <2>1, <2>2, <2>3, <2>4, <2>5, <2>6, <2>7, <2>8, <2>9, <2>10, <2>11, <2>12 DEF AppStep
<1>2. ASSUME NEW a \in Apps, AppLocks(a) PROVE CallInv'
  <2>1. CASE LockAndRegister(a)
    BY <2>1 DEF LockAndRegister
  <2>2. CASE LockException(a)
    BY <2>2 DEF LockException
  <2>3. CASE ChannelDisConnect(a)
    BY <2>3 DEF ChannelDisConnect
  <2>4. CASE StopSkipped(a)
    BY <2>4 DEF StopSkipped
  <2>5. CASE StopReader(a)
    BY <2>5 DEF StopReader
  <2> QED BY <1>2, <2>1, <2>2, <2>3, <2>4, <2>5 DEF AppLocks
<1>3. ASSUME NEW a \in Apps, AppCalls(a) PROVE CallInv'
  <2>1. CASE SendRequest(a)
    BY <2>1, SMTT(30) DEF SendRequest
  <2>2. CASE SendMessage(a)
    BY <2>2 DEF SendMessage
  <2>3. CASE Connect(a)
    BY <2>3 DEF Connect
  <2>4. CASE Disconnect(a)
    BY <2>4 DEF Disconnect
  <2>5. CASE ForceStop(a)
    BY <2>5 DEF ForceStop
  <2> QED BY <1>3, <2>1, <2>2, <2>3, <2>4, <2>5 DEF AppCalls
<1>4. ASSUME NEW p \in Procs, ConnectStep(p) PROVE CallInv'
  <2>1. CASE Reconnect(p)
    BY <2>1 DEF Reconnect, EndHandler
  <2>2. CASE CreateSocket(p)
    BY <2>2 DEF CreateSocket
  <2>3. CASE CreateSocketFailed(p)
    BY <2>3 DEF CreateSocketFailed, NextAttempt, Event
  <2>4. CASE RequestReplySend(p)
    BY <2>4 DEF RequestReplySend
  <2>5. CASE RequestReplySendFailed(p)
    BY <2>5 DEF RequestReplySendFailed
  <2>6. CASE RequestReplyRead(p)
    BY <2>6 DEF RequestReplyRead
  <2>7. CASE HandshakeRefused(p)
    BY <2>7 DEF HandshakeRefused, Event
  <2>8. CASE RequestReplyReadFailed(p)
    BY <2>8 DEF RequestReplyReadFailed, ReadFails, Event
  <2>9. CASE RequestReplyNoMessage(p)
    BY <2>9 DEF RequestReplyNoMessage
  <2>10. CASE OnConnectFailed(p)
    BY <2>10 DEF OnConnectFailed, NextAttempt
  <2>11. CASE TryConnectOk(p)
    BY <2>11 DEF TryConnectOk, EndHandler
  <2>12. CASE TryConnectFailed(p)
    BY <2>12 DEF TryConnectFailed, EndHandler
  <2> QED BY <1>4, <2>1, <2>2, <2>3, <2>4, <2>5, <2>6, <2>7, <2>8, <2>9, <2>10, <2>11, <2>12 DEF ConnectStep
<1>5. ASSUME NEW p \in Procs, ConnectLocks(p) PROVE CallInv'
  <2>1. CASE RequestReplyLock(p)
    BY <2>1 DEF RequestReplyLock
  <2>2. CASE RequestReplyHandle(p)
    BY <2>2 DEF RequestReplyHandle
  <2> QED BY <1>5, <2>1, <2>2 DEF ConnectLocks
<1>6. ASSUME NEW g \in Readers, ReaderStep(g) PROVE CallInv'
  <2>1. CASE ReaderStart(g)
    BY <2>1 DEF ReaderStart
  <2>2. CASE ReaderMark(g)
    BY <2>2 DEF ReaderMark
  <2>3. CASE ReaderTop(g)
    BY <2>3 DEF ReaderTop
  <2>4. CASE ReaderRead(g)
    BY <2>4 DEF ReaderRead
  <2>5. CASE ReaderGets(g)
    BY <2>5 DEF ReaderGets
  <2>6. CASE ReaderReadFailed(g)
    BY <2>6 DEF ReaderReadFailed, ReadFails, Event
  <2>7. CASE ProcessMessage(g)
    BY <2>7 DEF ProcessMessage
  <2>8. CASE ReaderError(g)
    BY <2>8 DEF ReaderError
  <2>9. CASE NotifyOne(g)
    BY <2>9 DEF NotifyOne
  <2>10. CASE NotifyDone(g)
    BY <2>10 DEF NotifyDone
  <2>11. CASE ReaderExit(g)
    BY <2>11 DEF ReaderExit
  <2> QED BY <1>6, <2>1, <2>2, <2>3, <2>4, <2>5, <2>6, <2>7, <2>8, <2>9, <2>10, <2>11 DEF ReaderStep
<1>7. ASSUME NEW g \in Readers, ReaderLocks(g) PROVE CallInv'
  <2>1. CASE ReaderHandle(g)
    BY <2>1 DEF ReaderHandle
  <2>2. CASE ReaderTerminated(g)
    BY <2>2 DEF ReaderTerminated
  <2> QED BY <1>7, <2>1, <2>2 DEF ReaderLocks
<1>8. CASE Environment
  BY <1>8 DEF Environment, Answer, ServerSends, PeerGone, Event
<1>9. CASE UNCHANGED vars
  BY <1>9 DEF vars
<1> QED BY <1>1, <1>2, <1>3, <1>4, <1>5, <1>6, <1>7, <1>8, <1>9 DEF Next


-----------------------------------------------------------------------------
(* Answers *)

\* What tells the messages apart, and that a response names its request.
LEMMA MessageFacts ==
    /\ \A r \in ReqId : Response(r) \in Messages /\ Response(r).val = r
    /\ {Handshake, Ping, Terminate, ServerException} \subseteq Messages
    /\ \A m \in Messages : m.val \in Nat
    /\ \A m \in Messages : m.kind = "response" =>
          m = Response(m.val) /\ m.val \in ReqId
    /\ \A m \in Messages : m.kind # "response" =>
          m \in {Handshake, Ping, Terminate, ServerException}
    /\ \A m \in {Handshake, Ping, Terminate, ServerException} :
          m.kind # "response"
    /\ Handshake.val \notin ReqId
<1> USE BoundsAssumption DEF Messages, Response, Handshake, Ping, Terminate,
        ServerException, ReqId, TGErrorGeneralException
<1>1. \A r \in ReqId : Response(r) \in Messages /\ Response(r).val = r
  OBVIOUS
<1>2. {Handshake, Ping, Terminate, ServerException} \subseteq Messages
  OBVIOUS
<1>3. \A m \in Messages : m.val \in Nat
  OBVIOUS
<1>4. \A m \in Messages : m.kind = "response" =>
         m = Response(m.val) /\ m.val \in ReqId
  <2> SUFFICES ASSUME NEW m \in Messages, m.kind = "response"
               PROVE  m = Response(m.val) /\ m.val \in ReqId
    OBVIOUS
  <2>1. PICK r \in ReqId : m = Response(r)
    OBVIOUS
  <2> QED BY <2>1
<1>5. \A m \in Messages : m.kind # "response" =>
         m \in {Handshake, Ping, Terminate, ServerException}
  OBVIOUS
<1>6. \A m \in {Handshake, Ping, Terminate, ServerException} :
         m.kind # "response"
  OBVIOUS
<1>7. Handshake.val \notin ReqId
  OBVIOUS
<1> QED BY <1>1, <1>2, <1>3, <1>4, <1>5, <1>6, <1>7

\* What tells the replies apart.
LEMMA ReplyFacts ==
    /\ Waiting \in Replies /\ Waiting.kind # "response"
    /\ \A r \in ReqId : Response(r) \in Replies /\ Response(r).kind = "response"
    /\ \A c \in ErrorCodes : Exception(c) \in Replies
                             /\ Exception(c).kind # "response"
BY DEF Replies, Waiting, Response, Exception

\* channelHandleException returns the code of a TGError.
LEMMA ResultType ==
    \A c \in {RethrowException, RetryOperation, Disconnected} :
        ChannelException(c) \in ErrorCodes
BY DEF ChannelException, RethrowException, RetryOperation, Disconnected,
   ErrorCodes

\* The wire after the reader has taken a message or the server has sent one.
LEMMA WireFacts ==
    ASSUME wire \in Seq(Messages)
    PROVE  /\ wire # <<>> =>
                /\ Head(wire) \in Messages /\ Tail(wire) \in Seq(Messages)
                /\ Head(wire) = wire[1] /\ 1 \in 1 .. Len(wire)
                /\ Len(Tail(wire)) = Len(wire) - 1
                /\ \A i \in 1 .. Len(Tail(wire)) : Tail(wire)[i] = wire[i + 1]
           /\ \A m \in Messages :
                /\ Append(wire, m) \in Seq(Messages)
                /\ Len(Append(wire, m)) = Len(wire) + 1
                /\ Append(wire, m)[Len(wire) + 1] = m
                /\ \A i \in 1 .. Len(wire) : Append(wire, m)[i] = wire[i]
  OBVIOUS

\* Reading a message from the wire keeps WireAnswers.
LEMMA WireRead ==
    ASSUME NEW p, WireAnswers, ReadMessage(p)
    PROVE  /\ WireAnswers' /\ received' = received /\ inflight' = inflight
           /\ Head(wire) \in Messages
           /\ Head(wire).kind = "response" => Head(wire).val \in received
<1> USE DEF ReadMessage, WireAnswers
<1>1. /\ Head(wire) \in Messages /\ Tail(wire) \in Seq(Messages)
      /\ Head(wire) = wire[1] /\ 1 \in 1 .. Len(wire)
      /\ Len(Tail(wire)) = Len(wire) - 1
      /\ \A i \in 1 .. Len(Tail(wire)) : Tail(wire)[i] = wire[i + 1]
  BY WireFacts
<1>2. \A i \in 1 .. Len(Tail(wire)) : i + 1 \in 1 .. Len(wire)
  BY <1>1
<1> QED BY <1>1, <1>2

\* Appending a message to the wire keeps WireAnswers.
LEMMA WireAppend ==
    ASSUME NEW m \in Messages, WireAnswers, wire' = Append(wire, m),
           received' = received, m.kind = "response" => m.val \in received
    PROVE  WireAnswers'
<1> USE DEF WireAnswers
<1>1. \A i \in 1 .. Len(wire') : i \in 1 .. Len(wire) \/ i = Len(wire) + 1
  BY WireFacts
<1> QED BY <1>1, WireFacts


\* A read that fails keeps WireAnswers.
LEMMA WireReadFails ==
    ASSUME NEW p, WireAnswers, ReadFails(p)
    PROVE  WireAnswers' /\ received' = received /\ inflight' = inflight
<1> USE DEF ReadFails, netVars, WireAnswers
<1>1. CASE UNCHANGED netVars
  BY <1>1
<1>2. CASE wire' = <<>> /\ UNCHANGED <<received, inflight>>
  BY <1>2
<1> QED BY <1>1, <1>2

\* At first nothing is on its way.
LEMMA AnswerInit == Init => AnswerInv
<1> SUFFICES ASSUME Init PROVE AnswerInv
  OBVIOUS
<1>1. WireAnswers
  BY DEF Init, WireAnswers
<1> QED BY <1>1, ReplyFacts DEF Init, AnswerInv, ErrorCodes, Procs

\* No step invents an answer: what a BlockingChannelResponse receives as a
\* response was read by the server.
LEMMA AnswerNext ==
    PCTypeOK /\ CallInv /\ AnswerInv /\ [Next]_vars => AnswerInv'
<1> SUFFICES ASSUME PCTypeOK, CallInv, AnswerInv, [Next]_vars PROVE AnswerInv'
  OBVIOUS
<1> USE ProcsAssumption
    DEF AnswerInv, PCTypeOK, AppPCs, ReaderPCs, ConnectPCs, Procs, Goto,
        GotoAndSpawn, respVars, netVars, connVars, readVars
<1>1. ASSUME NEW a \in Apps, AppStep(a) PROVE AnswerInv'
  <2>1. CASE CheckConnected(a)
    BY <2>1 DEF CheckConnected, WireAnswers
  <2>2. CASE SendOk(a)
    <3>1. /\ received \subseteq received' /\ inflight' \subseteq received'
          /\ received' \subseteq ReqId
          /\ \E l \in {"idle", "await"} : pc' = [pc EXCEPT ![a] = l]
      BY <2>2 DEF SendOk, CallInv
    <3>2. WireAnswers'
      BY <2>2, <3>1 DEF SendOk, WireAnswers
    <3> QED BY <2>2, <3>1, <3>2 DEF SendOk
  <2>3. CASE SendFailed(a)
    BY <2>3 DEF SendFailed, WireAnswers
  <2>4. CASE WaitForLink(a)
    <3>1. /\ result' \in [Procs -> ErrorCodes]
          /\ \E l \in {"idle", "check"} : pc' = [pc EXCEPT ![a] = l]
      BY <2>4, ResultType DEF WaitForLink
    <3> QED BY <2>4, <3>1 DEF WaitForLink, WireAnswers
  <2>5. CASE Await(a)
    BY <2>5 DEF Await, WireAnswers
  <2>6. CASE TakeReply(a)
    BY <2>6 DEF TakeReply, WireAnswers
  <2>7. CASE ChannelConnect(a)
    BY <2>7 DEF ChannelConnect, WireAnswers
  <2>8. CASE ChannelStart(a)
    BY <2>8 DEF ChannelStart, WireAnswers
  <2>9. CASE ClearRunning(a)
    BY <2>9 DEF ClearRunning, WireAnswers
  <2>10. CASE StopSent(a)
    BY <2>10 DEF StopSent, WireAnswers
  <2>11. CASE StopSendFailed(a)
    BY <2>11 DEF StopSendFailed, WireAnswers, CloseSocket
  <2>12. CASE StopClose(a)
    BY <2>12 DEF StopClose, WireAnswers, CloseSocket
  <2> QED BY <1>1, <2>1, <2>2, <2>3, <2>4, <2>5, <2>6, <2>7, <2>8, <2>9, <2>10, <2>11, <2>12 DEF AppStep
<1>2. ASSUME NEW a \in Apps, AppLocks(a) PROVE AnswerInv'
  <2>1. CASE LockAndRegister(a)
    <3>1. req[a] \in {0} \cup ReqId
      BY DEF CallInv
    <3> QED BY <2>1, <3>1 DEF LockAndRegister, WireAnswers
  <2>2. CASE LockException(a)
    BY <2>2 DEF LockException, WireAnswers
  <2>3. CASE ChannelDisConnect(a)
    BY <2>3 DEF ChannelDisConnect, WireAnswers
  <2>4. CASE StopSkipped(a)
    BY <2>4 DEF StopSkipped, WireAnswers
  <2>5. CASE StopReader(a)
    BY <2>5 DEF StopReader, WireAnswers
  <2> QED BY <1>2, <2>1, <2>2, <2>3, <2>4, <2>5 DEF AppLocks
<1>3. ASSUME NEW a \in Apps, AppCalls(a) PROVE AnswerInv'
  <2>1. CASE SendRequest(a)
    BY <2>1 DEF SendRequest, WireAnswers
  <2>2. CASE SendMessage(a)
    BY <2>2 DEF SendMessage, WireAnswers
  <2>3. CASE Connect(a)
    BY <2>3 DEF Connect, WireAnswers
  <2>4. CASE Disconnect(a)
    BY <2>4 DEF Disconnect, WireAnswers
  <2>5. CASE ForceStop(a)
    BY <2>5 DEF ForceStop, WireAnswers
  <2> QED BY <1>3, <2>1, <2>2, <2>3, <2>4, <2>5 DEF AppCalls
<1>4. ASSUME NEW p \in Procs, ConnectStep(p) PROVE AnswerInv'
  <2>1. CASE Reconnect(p)
    <3>1. result' \in [Procs -> ErrorCodes]
      BY <2>1, ResultType DEF Reconnect, EndHandler
    <3> QED BY <2>1, <3>1 DEF Reconnect, EndHandler, WireAnswers, CloseSocket
  <2>2. CASE CreateSocket(p)
    BY <2>2 DEF CreateSocket, WireAnswers
  <2>3. CASE CreateSocketFailed(p)
    BY <2>3 DEF CreateSocketFailed, WireAnswers, NextAttempt, CloseSocket
  <2>4. CASE RequestReplySend(p)
    <3>1. WireAnswers'
      <4>1. CASE broken
        BY <2>4, <4>1 DEF RequestReplySend, WireAnswers
      <4>2. CASE ~broken
        BY <2>4, <4>2, WireAppend, MessageFacts DEF RequestReplySend
      <4> QED BY <4>1, <4>2
    <3> QED BY <2>4, <3>1 DEF RequestReplySend
  <2>5. CASE RequestReplySendFailed(p)
    BY <2>5 DEF RequestReplySendFailed, WireAnswers
  <2>6. CASE RequestReplyRead(p)
    <3>1. WireAnswers' /\ received' = received /\ inflight' = inflight
      BY <2>6, WireRead DEF RequestReplyRead
    <3> QED BY <2>6, <3>1 DEF RequestReplyRead
  <2>7. CASE HandshakeRefused(p)
    <3>1. WireAnswers' /\ received' = received /\ inflight' = inflight
      BY <2>7, WireRead DEF HandshakeRefused
    <3> QED BY <2>7, <3>1 DEF HandshakeRefused
  <2>8. CASE RequestReplyReadFailed(p)
    <3>1. WireAnswers' /\ received' = received /\ inflight' = inflight
      BY <2>8, WireReadFails DEF RequestReplyReadFailed
    <3> QED BY <2>8, <3>1 DEF RequestReplyReadFailed
  <2>9. CASE RequestReplyNoMessage(p)
    BY <2>9 DEF RequestReplyNoMessage, WireAnswers
  <2>10. CASE OnConnectFailed(p)
    BY <2>10 DEF OnConnectFailed, WireAnswers, NextAttempt, CloseSocket
  <2>11. CASE TryConnectOk(p)
    <3>1. result' \in [Procs -> ErrorCodes]
      BY <2>11, ResultType DEF TryConnectOk, EndHandler
    <3> QED BY <2>11, <3>1 DEF TryConnectOk, EndHandler, WireAnswers
  <2>12. CASE TryConnectFailed(p)
    <3>1. result' \in [Procs -> ErrorCodes]
      BY <2>12, ResultType DEF TryConnectFailed, EndHandler
    <3> QED BY <2>12, <3>1 DEF TryConnectFailed, EndHandler, WireAnswers
  <2> QED BY <1>4, <2>1, <2>2, <2>3, <2>4, <2>5, <2>6, <2>7, <2>8, <2>9, <2>10, <2>11, <2>12 DEF ConnectStep
<1>5. ASSUME NEW p \in Procs, ConnectLocks(p) PROVE AnswerInv'
  <2>1. CASE RequestReplyLock(p)
    BY <2>1 DEF RequestReplyLock, WireAnswers
  <2>2. CASE RequestReplyHandle(p)
    BY <2>2 DEF RequestReplyHandle, WireAnswers
  <2> QED BY <1>5, <2>1, <2>2 DEF ConnectLocks
<1>6. ASSUME NEW g \in Readers, ReaderStep(g) PROVE AnswerInv'
  <2>1. CASE ReaderStart(g)
    BY <2>1 DEF ReaderStart, WireAnswers
  <2>2. CASE ReaderMark(g)
    BY <2>2 DEF ReaderMark, WireAnswers
  <2>3. CASE ReaderTop(g)
    BY <2>3 DEF ReaderTop, WireAnswers
  <2>4. CASE ReaderRead(g)
    BY <2>4 DEF ReaderRead, WireAnswers
  <2>5. CASE ReaderGets(g)
    <3>1. /\ WireAnswers' /\ received' = received /\ inflight' = inflight
          /\ Head(wire) \in Messages
          /\ Head(wire).kind = "response" => Head(wire).val \in received
      BY <2>5, WireRead DEF ReaderGets
    <3>2. /\ Head(wire).val \in Nat
          /\ Head(wire) = Handshake \/ Head(wire).kind = "response"
             \/ Head(wire) \in {Ping, Terminate, ServerException}
      BY <3>1, MessageFacts
    <3>3. \E l \in {"top", "terminate", "readError", "process"} :
             /\ pc' = [pc EXCEPT ![g] = l]
             /\ l = "process" => Head(wire) \notin
                                    {Ping, Terminate, ServerException}
      <4>1. Ping # Terminate /\ Ping # ServerException
            /\ Terminate # ServerException
        <5>1. Ping.kind = "ping" /\ Terminate.kind = "terminate"
              /\ ServerException.kind = "exception"
          BY DEF Ping, Terminate, ServerException
        <5> QED BY <5>1
      <4>2. CASE Head(wire) = Ping
        BY <2>5, <4>1, <4>2 DEF ReaderGets
      <4>3. CASE Head(wire) = Terminate
        BY <2>5, <4>1, <4>3 DEF ReaderGets
      <4>4. CASE Head(wire) = ServerException
        BY <2>5, <4>1, <4>4 DEF ReaderGets
      <4>5. CASE Head(wire) \notin {Ping, Terminate, ServerException}
        BY <2>5, <4>5 DEF ReaderGets
      <4> QED BY <4>2, <4>3, <4>4, <4>5
    <3>4. msg' = [msg EXCEPT ![g] = Head(wire).val]
      BY <2>5 DEF ReaderGets
    <3> QED BY <2>5, <3>1, <3>2, <3>3, <3>4, MessageFacts DEF ReaderGets
  <2>6. CASE ReaderReadFailed(g)
    <3>1. WireAnswers' /\ received' = received /\ inflight' = inflight
      BY <2>6, WireReadFails DEF ReaderReadFailed
    <3> QED BY <2>6, <3>1 DEF ReaderReadFailed
  <2>7. CASE ProcessMessage(g)
    <3>1. WireAnswers'
      BY <2>7 DEF ProcessMessage, WireAnswers
    <3>2. CASE msg[g] \in responses
      BY <2>7, <3>1, <3>2, ReplyFacts DEF ProcessMessage
    <3>3. CASE msg[g] \notin responses
      BY <2>7, <3>1, <3>3 DEF ProcessMessage
    <3> QED BY <3>2, <3>3
  <2>8. CASE ReaderError(g)
    BY <2>8 DEF ReaderError, WireAnswers
  <2>9. CASE NotifyOne(g)
    <3>1. WireAnswers'
      BY <2>9 DEF NotifyOne, WireAnswers
    <3>2. PICK r \in todo[g] \cap responses :
             reply' = [reply EXCEPT ![r] = Exception(result[g])]
      BY <2>9 DEF NotifyOne
    <3> QED BY <2>9, <3>1, <3>2, ReplyFacts DEF NotifyOne
  <2>10. CASE NotifyDone(g)
    BY <2>10 DEF NotifyDone, WireAnswers
  <2>11. CASE ReaderExit(g)
    BY <2>11 DEF ReaderExit, WireAnswers
  <2> QED BY <1>6, <2>1, <2>2, <2>3, <2>4, <2>5, <2>6, <2>7, <2>8, <2>9, <2>10, <2>11 DEF ReaderStep
<1>7. ASSUME NEW g \in Readers, ReaderLocks(g) PROVE AnswerInv'
  <2>1. CASE ReaderHandle(g)
    BY <2>1 DEF ReaderHandle, WireAnswers
  <2>2. CASE ReaderTerminated(g)
    BY <2>2 DEF ReaderTerminated, WireAnswers, CloseSocket
  <2> QED BY <1>7, <2>1, <2>2 DEF ReaderLocks
<1>8. CASE Environment
  <2>1. ASSUME NEW r \in ReqId, Answer(r) PROVE AnswerInv'
    <3>1. Response(r).val = r /\ Response(r) \in Messages /\ r \in received
      BY <2>1, MessageFacts DEF Answer
    <3>2. WireAnswers'
      BY <2>1, <3>1, WireAppend DEF Answer
    <3> QED BY <2>1, <3>2 DEF Answer
  <2>2. ASSUME NEW e, NEW m \in {Ping, Terminate, ServerException},
               ServerSends(e, m)
        PROVE  AnswerInv'
    <3>1. m \in Messages /\ m.kind # "response"
      BY MessageFacts
    <3>2. WireAnswers'
      BY <2>2, <3>1, WireAppend DEF ServerSends
    <3> QED BY <2>2, <3>2 DEF ServerSends
  <2>3. CASE PeerGone
    BY <2>3 DEF PeerGone, WireAnswers
  <2> QED BY <1>8, <2>1, <2>2, <2>3 DEF Environment
<1>9. CASE UNCHANGED vars
  BY <1>9 DEF vars, WireAnswers
<1> QED BY <1>1, <1>2, <1>3, <1>4, <1>5, <1>6, <1>7, <1>8, <1>9 DEF Next


-----------------------------------------------------------------------------
(* What a caller gets *)

\* What a step of Next can change that a caller of SendRequest notices.
Quiet == UNCHANGED <<responses, reply, outcome, received, nextReq>>
CallStep(a) ==
    \/ SendRequest(a) \/ CheckConnected(a) \/ LockAndRegister(a) \/ SendOk(a)
    \/ WaitForLink(a) \/ TakeReply(a)
DeliverStep(g) == ProcessMessage(g) \/ NotifyOne(g)

\* The handshake, the environment and most steps of the reader leave the
\* requests alone.
LEMMA QuietSteps ==
    [Next]_vars => \/ Quiet
                   \/ \E a \in Apps : CallStep(a)
                   \/ \E g \in Readers : DeliverStep(g)
<1> USE DEF Quiet, respVars, netVars, countVars, CloseSocket
<1>1. ASSUME NEW a \in Apps, AppStep(a) PROVE Quiet \/ CallStep(a)
  BY <1>1 DEF AppStep, CallStep, SendFailed, Await, ChannelConnect,
     ChannelStart, ClearRunning, StopSent, StopSendFailed, StopClose
<1>2. ASSUME NEW a \in Apps, AppLocks(a) PROVE Quiet \/ CallStep(a)
  BY <1>2 DEF AppLocks, CallStep, LockException, ChannelDisConnect,
     StopSkipped, StopReader
<1>3. ASSUME NEW a \in Apps, AppCalls(a) PROVE Quiet \/ CallStep(a)
  BY <1>3 DEF AppCalls, CallStep, SendMessage, Connect, Disconnect, ForceStop
<1>4. ASSUME NEW p \in Procs, ConnectStep(p) PROVE Quiet
  BY <1>4 DEF ConnectStep, Reconnect, CreateSocket, CreateSocketFailed,
     RequestReplySend, RequestReplySendFailed, RequestReplyRead, ReadMessage,
     HandshakeRefused, RequestReplyReadFailed, ReadFails,
     RequestReplyNoMessage, OnConnectFailed, TryConnectOk, TryConnectFailed
<1>5. ASSUME NEW p \in Procs, ConnectLocks(p) PROVE Quiet
  BY <1>5 DEF ConnectLocks, RequestReplyLock, RequestReplyHandle
<1>6. ASSUME NEW g \in Readers, ReaderStep(g) PROVE Quiet \/ DeliverStep(g)
  BY <1>6 DEF ReaderStep, DeliverStep, ReaderStart, ReaderMark, ReaderTop,
     ReaderRead, ReaderGets, ReadMessage, ReaderReadFailed, ReadFails,
     ReaderError, NotifyDone, ReaderExit
<1>7. ASSUME NEW g \in Readers, ReaderLocks(g) PROVE Quiet
  BY <1>7 DEF ReaderLocks, ReaderHandle, ReaderTerminated
<1>8. CASE Environment
  BY <1>8 DEF Environment, Answer, ServerSends, PeerGone
<1>9. CASE UNCHANGED vars
  BY <1>9 DEF vars
<1> QED BY <1>1, <1>2, <1>3, <1>4, <1>5, <1>6, <1>7, <1>8, <1>9 DEF Next

\* A request that ended well keeps its answer, whatever arrives later.
LEMMA IntegrityNext ==
    CallInv /\ AnswerInv /\ ReplyIntegrity /\ [Next]_vars => ReplyIntegrity'
<1> SUFFICES ASSUME CallInv, AnswerInv, ReplyIntegrity, [Next]_vars
             PROVE  ReplyIntegrity'
  OBVIOUS
<1> USE DEF ReplyIntegrity, CallInv, AnswerInv, Inside, SendPCs
<1>1. CASE Quiet
  BY <1>1 DEF Quiet
<1>2. ASSUME NEW a \in Apps, CallStep(a) PROVE ReplyIntegrity'
  <2>1. CASE SendRequest(a)
    BY <2>1 DEF SendRequest, respVars, netVars
  <2>2. CASE CheckConnected(a)
    BY <2>2 DEF CheckConnected, Return, netVars
  <2>3. CASE LockAndRegister(a)
    BY <2>3 DEF LockAndRegister, Goto, netVars
  <2>4. CASE SendOk(a)
    BY <2>4 DEF SendOk, respVars
  <2>5. CASE WaitForLink(a)
    BY <2>5 DEF WaitForLink, Return, netVars
  <2>6. CASE TakeReply(a)
    BY <2>6 DEF TakeReply, Return, Goto, netVars
  <2> QED BY <1>2, <2>1, <2>2, <2>3, <2>4, <2>5, <2>6 DEF CallStep
<1>3. ASSUME NEW g \in Readers, DeliverStep(g) PROVE ReplyIntegrity'
  <2>1. CASE ProcessMessage(g)
    BY <2>1 DEF ProcessMessage, netVars
  <2>2. CASE NotifyOne(g)
    BY <2>2 DEF NotifyOne, netVars
  <2> QED BY <1>3, <2>1, <2>2 DEF DeliverStep
<1> QED BY <1>1, <1>2, <1>3, QuietSteps

\* Whatever the network and the server do, a SendRequest that returns a
\* message returns the server's answer to its own request.
THEOREM AnswersAreGenuine == Spec => []ReplyIntegrity
<1>1. Init => ReplyInv
  <2>1. Init => ReplyIntegrity
    BY DEF Init, ReplyIntegrity
  <2> QED BY <2>1, LockInit, CallInit, AnswerInit DEF ReplyInv
<1>2. ReplyInv /\ [Next]_vars => ReplyInv'
  BY LockNext, CallNext, AnswerNext, IntegrityNext DEF ReplyInv, LockInv
<1>3. ReplyInv => ReplyIntegrity
  BY DEF ReplyInv
<1> QED BY <1>1, <1>2, <1>3, PTL DEF Spec


-----------------------------------------------------------------------------
(* The channel implements RequestService *)

\* Neither the outcomes nor nextReq nor received changes: a stutter.
LEMMA ServiceStutter ==
    UNCHANGED <<outcome, nextReq, received>> => UNCHANGED Service!vars
BY DEF Service!vars, Status

\* SendRequest fixes the outcome of its own request, which was open.
LEMMA ServiceFinish ==
    ASSUME CallInv, NEW a \in Apps, Inside(a), NEW res \in {"ok", "error"},
           Return(a, res), UNCHANGED <<nextReq, received>>,
           res = "ok" => req[a] \in received
    PROVE  Service!Next
<1>1. /\ req[a] \in ReqId /\ outcome[req[a]] = "none" /\ req[a] < nextReq
      /\ outcome' = [outcome EXCEPT ![req[a]] = res]
  BY DEF CallInv, Inside, Return
<1>2. [r \in ReqId |-> Status(r)]' =
         [[r \in ReqId |-> Status(r)] EXCEPT ![req[a]] = res]
  BY <1>1 DEF CallInv, Status
<1>3. Service!Finish(req[a], res)
  BY <1>1, <1>2 DEF Service!Finish, Status
<1> QED BY <1>1, <1>3 DEF Service!Next

\* Every step of the channel is a step of RequestService or a stutter.
LEMMA ServiceNext ==
    ReplyInv /\ [Next]_vars => [Service!Next]_(Service!vars)
<1> SUFFICES ASSUME CallInv, AnswerInv, [Next]_vars
             PROVE  Service!Next \/ UNCHANGED Service!vars
  BY DEF ReplyInv
<1>1. CASE Quiet
  BY <1>1, ServiceStutter DEF Quiet
<1>2. ASSUME NEW a \in Apps, CallStep(a)
      PROVE  Service!Next \/ UNCHANGED Service!vars
  <2>0. req[a] \in {0} \cup ReqId
    BY DEF CallInv
  <2>1. CASE SendRequest(a)
    <3>1. /\ nextReq \in ReqId /\ outcome[nextReq] = "none"
          /\ nextReq' = nextReq + 1 /\ UNCHANGED <<outcome, received>>
      BY <2>1, BoundsAssumption
      DEF SendRequest, respVars, netVars, CallInv, ReqId
    <3>2. [r \in ReqId |-> Status(r)]' =
             [[r \in ReqId |-> Status(r)] EXCEPT ![nextReq] = "open"]
      <4>1. ASSUME NEW r \in ReqId
            PROVE  Status(r)' = IF r = nextReq THEN "open" ELSE Status(r)
        <5>1. r < nextReq' <=> r < nextReq \/ r = nextReq
          BY <3>1, BoundsAssumption DEF CallInv, ReqId
        <5> QED BY <3>1, <5>1, BoundsAssumption DEF CallInv, Status, ReqId
      <4> QED BY <3>1, <4>1
    <3>3. Service!Submit(nextReq)
      BY <3>1, <3>2, BoundsAssumption
      DEF Service!Submit, Status, CallInv, ReqId
    <3> QED BY <3>1, <3>3 DEF Service!Next
  <2>2. CASE CheckConnected(a)
    <3>1. CASE UNCHANGED outcome
      BY <2>2, <3>1, ServiceStutter DEF CheckConnected, netVars, countVars
    <3>2. CASE Inside(a) /\ Return(a, "error")
      BY <2>2, <3>2, ServiceFinish DEF CheckConnected, netVars, countVars
    <3> QED BY <2>2, <2>0, <3>1, <3>2
            DEF CheckConnected, Goto, Return, Inside, SendPCs
  <2>3. CASE LockAndRegister(a)
    BY <2>3, ServiceStutter DEF LockAndRegister, netVars, countVars
  <2>4. CASE SendOk(a)
    <3>1. /\ UNCHANGED <<outcome, nextReq>>
          /\ received' \in {received, received \cup {req[a]}}
          /\ received' # received => req[a] # 0 /\ req[a] \notin received
          /\ pc[a] = "send"
      BY <2>4 DEF SendOk, respVars, countVars, Goto
    <3>2. CASE received' = received
      BY <3>1, <3>2, ServiceStutter
    <3>3. CASE received' # received
      <4>1. /\ Status(req[a]) = "open" /\ req[a] \in ReqId
            /\ received' = received \cup {req[a]} /\ req[a] \notin received
        BY <2>0, <3>1, <3>3 DEF CallInv, Inside, SendPCs, Status
      <4>2. [r \in ReqId |-> Status(r)]' = [r \in ReqId |-> Status(r)]
        BY <3>1 DEF Status
      <4>3. Service!Receive(req[a])
        BY <4>1, <4>2 DEF Service!Receive
      <4> QED BY <4>1, <4>3 DEF Service!Next
    <3> QED BY <3>2, <3>3
  <2>5. CASE WaitForLink(a)
    <3>1. CASE UNCHANGED outcome
      BY <2>5, <3>1, ServiceStutter DEF WaitForLink, netVars, countVars
    <3>2. CASE Inside(a) /\ Return(a, "error")
      BY <2>5, <3>2, ServiceFinish DEF WaitForLink, netVars, countVars
    <3> QED BY <2>5, <2>0, <3>1, <3>2
            DEF WaitForLink, Return, Inside, SendPCs
  <2>6. CASE TakeReply(a)
    <3>1. Inside(a)
      BY <2>6, <2>0 DEF TakeReply, CallInv, Inside, SendPCs
    <3>2. CASE UNCHANGED outcome
      BY <2>6, <3>2, ServiceStutter DEF TakeReply, netVars, countVars
    <3>3. CASE Return(a, "error")
      BY <2>6, <3>1, <3>3, ServiceFinish DEF TakeReply, netVars, countVars
    <3>4. CASE Return(a, "ok") /\ reply[req[a]].kind = "response"
      <4>1. req[a] \in received
        BY <3>1, <3>4, <2>0 DEF AnswerInv, Inside
      <4> QED BY <2>6, <3>1, <3>4, <4>1, ServiceFinish
              DEF TakeReply, netVars, countVars
    <3> QED BY <2>6, <3>2, <3>3, <3>4 DEF TakeReply
  <2> QED BY <1>2, <2>1, <2>2, <2>3, <2>4, <2>5, <2>6 DEF CallStep
<1>3. ASSUME NEW g \in Readers, DeliverStep(g)
      PROVE  UNCHANGED Service!vars
  BY <1>3, ServiceStutter
  DEF DeliverStep, ProcessMessage, NotifyOne, netVars, countVars
<1> QED BY <1>1, <1>2, <1>3, QuietSteps

\* The channel keeps the promise of RequestService, whatever the network and
\* the server do: each request is read by the server at most while its caller
\* waits, and its call ends once, and well only if the server has read it.
THEOREM ChannelImplementsService == Spec => ServiceSpec
<1>1. Init => Service!Init
  BY BoundsAssumption DEF Init, Service!Init, Status, ReqId
<1>2. Init => ReplyInv
  <2>1. Init => ReplyIntegrity
    BY DEF Init, ReplyIntegrity
  <2> QED BY <2>1, LockInit, CallInit, AnswerInit DEF ReplyInv
<1>3. ReplyInv /\ [Next]_vars => ReplyInv'
  BY LockNext, CallNext, AnswerNext, IntegrityNext DEF ReplyInv, LockInv
<1> QED BY <1>1, <1>2, <1>3, ServiceNext, PTL DEF Spec, ServiceSpec, Service!Spec

-----------------------------------------------------------------------------
(* Types *)

\* What the invariants above leave open.
RestType ==
    /\ link \in LinkStates /\ num \in Nat /\ isRunning \in BOOLEAN
    /\ sendLock \in Procs \cup {None} /\ exceptionLock \in Procs \cup {None}
    /\ socket \in 0 .. MaxSock /\ sockets \in 0 .. MaxSock
    /\ broken \in BOOLEAN
    /\ force \in [Apps -> BOOLEAN]
    /\ attempt \in [Procs -> 0 .. RetryCount - 1]
    /\ exchange \in [Procs -> 1 .. 3]
    /\ readSock \in [Procs -> 0 .. MaxSock]
    /\ todo \in [Readers -> SUBSET ReqId]
    /\ nextReq \in 1 .. MaxReq + 1 /\ connects \in 0 .. MaxConnects
    /\ stops \in 0 .. MaxStops /\ events \in 0 .. MaxEvents

\* The bounds leave room for the initial values.
LEMMA Bounds ==
    /\ 0 \in 0 .. MaxSock /\ 0 \in 0 .. RetryCount - 1 /\ 1 \in 1 .. MaxReq + 1
    /\ 0 \in 0 .. MaxConnects /\ 0 \in 0 .. MaxStops /\ 0 \in 0 .. MaxEvents
BY BoundsAssumption

\* The initial values have their types.
LEMMA RestInit == Init => RestType
<1> SUFFICES ASSUME Init PROVE RestType
  OBVIOUS
<1>1. /\ 0 \in 0 .. MaxSock /\ 0 \in 0 .. RetryCount - 1 /\ 1 \in 1 .. MaxReq + 1
      /\ 0 \in 0 .. MaxConnects /\ 0 \in 0 .. MaxStops /\ 0 \in 0 .. MaxEvents
      /\ 1 \in 1 .. 3
  BY Bounds
<1>2. /\ sendLock = None /\ exceptionLock = None /\ link = "NotConnected"
      /\ num = 0 /\ isRunning = FALSE /\ broken = FALSE
      /\ socket = 0 /\ sockets = 0 /\ nextReq = 1 /\ connects = 0 /\ stops = 0
      /\ events = 0
  BY DEF Init
<1>3. /\ force = [a \in Apps |-> FALSE] /\ attempt = [p \in Procs |-> 0]
      /\ exchange = [p \in Procs |-> 1] /\ readSock = [p \in Procs |-> 0]
      /\ todo = [g \in Readers |-> {}]
  BY DEF Init
<1>4. /\ force \in [Apps -> BOOLEAN] /\ attempt \in [Procs -> 0 .. RetryCount - 1]
      /\ exchange \in [Procs -> 1 .. 3] /\ readSock \in [Procs -> 0 .. MaxSock]
      /\ todo \in [Readers -> SUBSET ReqId]
  BY <1>1, <1>3
<1> QED BY <1>1, <1>2, <1>4 DEF RestType, LinkStates

\* Attempts are counted below RetryCount.
LEMMA NextAttemptType ==
    ASSUME RestType, NEW p \in Procs, NEW from, NextAttempt(p, from)
    PROVE  attempt' \in [Procs -> 0 .. RetryCount - 1]
BY BoundsAssumption DEF RestType, NextAttempt

\* Events are counted up to MaxEvents.
LEMMA EventType ==
    ASSUME RestType, NEW e, Event(e)
    PROVE  events' \in 0 .. MaxEvents
BY BoundsAssumption DEF RestType, Event

\* The handshake has three exchanges.
LEMMA ExchangeType ==
    ASSUME RestType, NEW p \in Procs, RequestReplyRead(p)
    PROVE  exchange' \in [Procs -> 1 .. 3]
<1>1. PICK n : n = exchange[p]
  OBVIOUS
<1>2. n \in 1 .. 3 /\ exchange \in [Procs -> 1 .. 3]
  BY <1>1 DEF RestType
<1>3. \/ exchange' = [exchange EXCEPT ![p] = IF n < 3 THEN n + 1 ELSE 1]
      \/ exchange' = exchange
  BY <1>1 DEF RequestReplyRead
<1>4. (IF n < 3 THEN n + 1 ELSE 1) \in 1 .. 3
  BY <1>2
<1> QED BY <1>2, <1>3, <1>4

\* Every step keeps the types.
LEMMA RestNext == RestType /\ AnswerInv /\ [Next]_vars => RestType'
<1> SUFFICES ASSUME RestType, AnswerInv, [Next]_vars PROVE RestType'
  OBVIOUS
<1> responses \subseteq ReqId
  BY DEF AnswerInv
<1> USE ProcsAssumption, BoundsAssumption, Bounds
    DEF RestType, Procs, linkVars, lockVars, netVars, connVars, readVars,
        callVars, countVars, LinkStates
<1>1. ASSUME NEW a \in Apps, AppStep(a) PROVE RestType'
  <2>1. CASE CheckConnected(a)
    BY <2>1 DEF CheckConnected
  <2>2. CASE SendOk(a)
    BY <2>2 DEF SendOk
  <2>3. CASE SendFailed(a)
    BY <2>3 DEF SendFailed
  <2>4. CASE WaitForLink(a)
    BY <2>4 DEF WaitForLink
  <2>5. CASE Await(a)
    BY <2>5 DEF Await
  <2>6. CASE TakeReply(a)
    BY <2>6 DEF TakeReply
  <2>7. CASE ChannelConnect(a)
    BY <2>7 DEF ChannelConnect, ClosedStates
  <2>8. CASE ChannelStart(a)
    BY <2>8 DEF ChannelStart
  <2>9. CASE ClearRunning(a)
    BY <2>9 DEF ClearRunning
  <2>10. CASE StopSent(a)
    BY <2>10 DEF StopSent
  <2>11. CASE StopSendFailed(a)
    BY <2>11 DEF StopSendFailed, CloseSocket
  <2>12. CASE StopClose(a)
    BY <2>12 DEF StopClose, CloseSocket
  <2> QED BY <1>1, <2>1, <2>2, <2>3, <2>4, <2>5, <2>6, <2>7, <2>8, <2>9,
      <2>10, <2>11, <2>12 DEF AppStep
<1>2. ASSUME NEW a \in Apps, AppLocks(a) PROVE RestType'
  <2>1. CASE LockAndRegister(a)
    BY <2>1 DEF LockAndRegister
  <2>2. CASE LockException(a)
    BY <2>2 DEF LockException
  <2>3. CASE ChannelDisConnect(a)
    BY <2>3 DEF ChannelDisConnect
  <2>4. CASE StopSkipped(a)
    BY <2>4 DEF StopSkipped
  <2>5. CASE StopReader(a)
    BY <2>5 DEF StopReader
  <2> QED BY <1>2, <2>1, <2>2, <2>3, <2>4, <2>5 DEF AppLocks
<1>3. ASSUME NEW a \in Apps, AppCalls(a) PROVE RestType'
  <2>1. CASE SendRequest(a)
    BY <2>1 DEF SendRequest
  <2>2. CASE SendMessage(a)
    BY <2>2 DEF SendMessage
  <2>3. CASE Connect(a)
    BY <2>3 DEF Connect
  <2>4. CASE Disconnect(a)
    BY <2>4 DEF Disconnect
  <2>5. CASE ForceStop(a)
    BY <2>5 DEF ForceStop
  <2> QED BY <1>3, <2>1, <2>2, <2>3, <2>4, <2>5 DEF AppCalls
<1>4. ASSUME NEW p \in Procs, ConnectStep(p) PROVE RestType'
  <2>1. CASE Reconnect(p)
    <3>1. attempt' \in [Procs -> 0 .. RetryCount - 1]
      BY <2>1 DEF Reconnect
    <3>2. todo' \in [Readers -> SUBSET ReqId]
      BY <2>1 DEF Reconnect, EndHandler
    <3> QED BY <2>1, <3>1, <3>2 DEF Reconnect, EndHandler, CloseSocket
  <2>2. CASE CreateSocket(p)
    <3>1. sockets' \in 0 .. MaxSock /\ socket' \in 0 .. MaxSock
      BY <2>2 DEF CreateSocket
    <3>2. exchange' = [exchange EXCEPT ![p] = 1]
      BY <2>2 DEF CreateSocket
    <3>3. exchange' \in [Procs -> 1 .. 3]
      BY <3>2
    <3> QED BY <2>2, <3>1, <3>3 DEF CreateSocket
  <2>3. CASE CreateSocketFailed(p)
    <3>1. attempt' \in [Procs -> 0 .. RetryCount - 1]
      BY <2>3, NextAttemptType DEF CreateSocketFailed
    <3> QED BY <2>3, <3>1, EventType DEF CreateSocketFailed, CloseSocket
  <2>4. CASE RequestReplySend(p)
    BY <2>4 DEF RequestReplySend
  <2>5. CASE RequestReplySendFailed(p)
    BY <2>5 DEF RequestReplySendFailed
  <2>6. CASE RequestReplyRead(p)
    <3>1. exchange' \in [Procs -> 1 .. 3]
      BY <2>6, ExchangeType DEF RequestReplyRead
    <3> QED BY <2>6, <3>1 DEF RequestReplyRead, ReadMessage
  <2>7. CASE HandshakeRefused(p)
    BY <2>7, EventType DEF HandshakeRefused, ReadMessage
  <2>8. CASE RequestReplyReadFailed(p)
    BY <2>8, EventType, SMTT(30) DEF RequestReplyReadFailed, ReadFails
  <2>9. CASE RequestReplyNoMessage(p)
    BY <2>9 DEF RequestReplyNoMessage
  <2>10. CASE OnConnectFailed(p)
    <3>1. attempt' \in [Procs -> 0 .. RetryCount - 1]
      BY <2>10, NextAttemptType DEF OnConnectFailed
    <3> QED BY <2>10, <3>1 DEF OnConnectFailed, CloseSocket
  <2>11. CASE TryConnectOk(p)
    BY <2>11 DEF TryConnectOk, EndHandler
  <2>12. CASE TryConnectFailed(p)
    BY <2>12 DEF TryConnectFailed, EndHandler
  <2> QED BY <1>4, <2>1, <2>2, <2>3, <2>4, <2>5, <2>6, <2>7, <2>8, <2>9,
      <2>10, <2>11, <2>12 DEF ConnectStep
<1>5. ASSUME NEW p \in Procs, ConnectLocks(p) PROVE RestType'
  <2>1. CASE RequestReplyLock(p)
    BY <2>1 DEF RequestReplyLock
  <2>2. CASE RequestReplyHandle(p)
    BY <2>2 DEF RequestReplyHandle
  <2> QED BY <1>5, <2>1, <2>2 DEF ConnectLocks
<1>6. ASSUME NEW g \in Readers, ReaderStep(g) PROVE RestType'
  <2>1. CASE ReaderStart(g)
    BY <2>1 DEF ReaderStart
  <2>2. CASE ReaderMark(g)
    BY <2>2 DEF ReaderMark
  <2>3. CASE ReaderTop(g)
    BY <2>3 DEF ReaderTop
  <2>4. CASE ReaderRead(g)
    BY <2>4 DEF ReaderRead
  <2>5. CASE ReaderGets(g)
    BY <2>5 DEF ReaderGets, ReadMessage
  <2>6. CASE ReaderReadFailed(g)
    BY <2>6, EventType DEF ReaderReadFailed, ReadFails
  <2>7. CASE ProcessMessage(g)
    BY <2>7 DEF ProcessMessage
  <2>8. CASE ReaderError(g)
    BY <2>8 DEF ReaderError
  <2>9. CASE NotifyOne(g)
    BY <2>9 DEF NotifyOne
  <2>10. CASE NotifyDone(g)
    BY <2>10 DEF NotifyDone
  <2>11. CASE ReaderExit(g)
    BY <2>11 DEF ReaderExit
  <2> QED BY <1>6, <2>1, <2>2, <2>3, <2>4, <2>5, <2>6, <2>7, <2>8, <2>9,
      <2>10, <2>11 DEF ReaderStep
<1>7. ASSUME NEW g \in Readers, ReaderLocks(g) PROVE RestType'
  <2>1. CASE ReaderHandle(g)
    BY <2>1 DEF ReaderHandle
  <2>2. CASE ReaderTerminated(g)
    BY <2>2 DEF ReaderTerminated, CloseSocket
  <2> QED BY <1>7, <2>1, <2>2 DEF ReaderLocks
<1>8. CASE Environment
  BY <1>8, EventType DEF Environment, Answer, ServerSends, PeerGone
<1>9. CASE UNCHANGED vars
  BY <1>9 DEF vars
<1> QED BY <1>1, <1>2, <1>3, <1>4, <1>5, <1>6, <1>7, <1>8, <1>9 DEF Next

\* Every variable has its type in every state: among them, no attempt of
\* channelTryRepeatConnect is beyond RetryCount, and a reader only ever has
\* answers to requests to deliver.
THEOREM StateIsTyped == Spec => []TypeOK
<1>1. LockInv /\ CallInv /\ AnswerInv /\ RestType => TypeOK
  BY DEF LockInv, CallInv, AnswerInv, WireAnswers, RestType, TypeOK
<1>2. Init => LockInv /\ CallInv /\ AnswerInv /\ RestType
  BY LockInit, CallInit, AnswerInit, RestInit
<1>3. LockInv /\ CallInv /\ AnswerInv /\ RestType /\ [Next]_vars
        => LockInv' /\ CallInv' /\ AnswerInv' /\ RestType'
  BY LockNext, CallNext, AnswerNext, RestNext DEF LockInv
<1> QED BY <1>1, <1>2, <1>3, PTL DEF Spec

-----------------------------------------------------------------------------
(* Locks without fault tolerance *)

\* Where the holder of a mutex is: on its way to the release, or gone with the
\* program.
HeldInside ==
    /\ \A p \in Procs : sendLock = p => InSendLock(p) \/ pc[p] = "panic"
    /\ \A p \in Procs : exceptionLock = p => InExceptionLock(p)
    /\ \A p \in Procs : nested[p] => pc[p] = "reconnect"
    /\ \A g \in Readers : pc[g] \in ConnectPCs => pc[g] = "reconnect"

\* Nobody is told to retry.
NothingRetried ==
    /\ \A g \in Readers : result[g] # TGErrorRetryIOException
    /\ \A r \in ReqId : reply[r] # Exception(TGErrorRetryIOException)

\* The code of a handler that does not reconnect, and what tells it from the
\* code of one that does.
LEMMA Codes ==
    /\ ChannelException(Disconnected) # TGErrorRetryIOException
    /\ TGErrorGeneralException # TGErrorRetryIOException
    /\ \A c \in ErrorCodes : c # TGErrorRetryIOException
          => Exception(c) # Exception(TGErrorRetryIOException)
    /\ \A r \in ReqId : Response(r) # Exception(TGErrorRetryIOException)
    /\ Waiting # Exception(TGErrorRetryIOException)
<1>1. \A c : Exception(c).val = c /\ Exception(c).kind = "exception"
  BY DEF Exception
<1>2. \A r : Response(r).kind = "response"
  BY DEF Response
<1>3. Waiting.kind = "waiting"
  BY DEF Waiting
<1> QED BY <1>1, <1>2, <1>3 DEF ChannelException, RethrowException,
       RetryOperation, Disconnected, TGErrorChannelDisconnected,
       TGErrorGeneralException, TGErrorRetryIOException

\* At first no lock is held.
LEMMA HeldInit == Init => HeldInside /\ NothingRetried
<1> SUFFICES ASSUME Init PROVE HeldInside /\ NothingRetried
  OBVIOUS
<1>1. HeldInside
  BY ProcsAssumption DEF Init, HeldInside, Procs, ConnectPCs
<1>2. NothingRetried
  BY Codes DEF Init, NothingRetried, Procs
<1> QED BY <1>1, <1>2

\* Every step leaves a lock only where it is released.
LEMMA HeldNext ==
    ASSUME ~HasFT, LockInv, CallInv, HeldInside, NothingRetried, [Next]_vars
    PROVE  HeldInside'
<1> USE ProcsAssumption
    DEF HeldInside, LockInv, PCTypeOK, LockDiscipline, AppPCs, ReaderPCs,
        ConnectPCs, SendLockPCs, HandlerPCs, InSendLock, InExceptionLock,
        Procs, Goto, GotoAndSpawn, linkVars, lockVars, connVars
<1>1. ASSUME NEW a \in Apps, AppStep(a) PROVE HeldInside'
  <2>1. CASE CheckConnected(a)
    BY <2>1 DEF CheckConnected
  <2>2. CASE SendOk(a)
    BY <2>2 DEF SendOk
  <2>3. CASE SendFailed(a)
    BY <2>3 DEF SendFailed
  <2>4. CASE WaitForLink(a)
    <3>1. /\ pc[a] = "excWait"
          /\ \E l \in {"idle", "check"} : pc' = [pc EXCEPT ![a] = l]
          /\ exceptionLock' = None
          /\ UNCHANGED <<sendLock, nested>>
      BY <2>4 DEF WaitForLink
    <3> QED BY <3>1
  <2>5. CASE Await(a)
    BY <2>5 DEF Await
  <2>6. CASE TakeReply(a)
    <3>1. /\ pc' = [pc EXCEPT ![a] = "idle"] /\ pc[a] = "delete"
          /\ sendLock' = None
      <4>1. req[a] \in ReqId
        BY <2>6 DEF TakeReply, CallInv
      <4> QED BY <2>6, <4>1 DEF TakeReply, NothingRetried
    <3> QED BY <2>6, <3>1 DEF TakeReply
  <2>7. CASE ChannelConnect(a)
    <3>1. /\ pc[a] = "connect"
          /\ \E l \in {"start", "tryConnect", "idle"} :
                pc' = [pc EXCEPT ![a] = l]
          /\ UNCHANGED <<lockVars, nested>>
      BY <2>7 DEF ChannelConnect, ClosedStates
    <3> QED BY <3>1
  <2>8. CASE ChannelStart(a)
    BY <2>8 DEF ChannelStart
  <2>9. CASE ClearRunning(a)
    BY <2>9 DEF ClearRunning
  <2>10. CASE StopSent(a)
    BY <2>10 DEF StopSent
  <2>11. CASE StopSendFailed(a)
    BY <2>11 DEF StopSendFailed, CloseSocket
  <2>12. CASE StopClose(a)
    BY <2>12 DEF StopClose, CloseSocket
  <2> QED BY <1>1, <2>1, <2>2, <2>3, <2>4, <2>5, <2>6, <2>7, <2>8, <2>9,
      <2>10, <2>11, <2>12 DEF AppStep
<1>2. ASSUME NEW a \in Apps, AppLocks(a) PROVE HeldInside'
  <2>1. CASE LockAndRegister(a)
    BY <2>1 DEF LockAndRegister
  <2>2. CASE LockException(a)
    BY <2>2 DEF LockException
  <2>3. CASE ChannelDisConnect(a)
    BY <2>3 DEF ChannelDisConnect
  <2>4. CASE StopSkipped(a)
    BY <2>4 DEF StopSkipped
  <2>5. CASE StopReader(a)
    BY <2>5 DEF StopReader
  <2> QED BY <1>2, <2>1, <2>2, <2>3, <2>4, <2>5 DEF AppLocks
<1>3. ASSUME NEW a \in Apps, AppCalls(a) PROVE HeldInside'
  <2>1. CASE SendRequest(a)
    BY <2>1 DEF SendRequest
  <2>2. CASE SendMessage(a)
    BY <2>2 DEF SendMessage
  <2>3. CASE Connect(a)
    BY <2>3 DEF Connect
  <2>4. CASE Disconnect(a)
    BY <2>4 DEF Disconnect
  <2>5. CASE ForceStop(a)
    BY <2>5 DEF ForceStop
  <2> QED BY <1>3, <2>1, <2>2, <2>3, <2>4, <2>5 DEF AppCalls
<1>4. ASSUME NEW p \in Procs, ConnectStep(p) PROVE HeldInside'
  <2>1. CASE Reconnect(p)
    <3>1. CASE p \in Readers
      BY <2>1, <3>1 DEF Reconnect, EndHandler
    <3>2. CASE p \notin Readers
      <4>1. /\ pc[p] = "reconnect" /\ nested[p] /\ p \in Apps
            /\ \E l \in {"rrRejected", "rrSend"} : pc' = [pc EXCEPT ![p] = l]
            /\ exceptionLock' = None /\ sendLock' = sendLock
            /\ nested' = [nested EXCEPT ![p] = FALSE]
        BY <2>1, <3>2 DEF Reconnect, EndHandler
      <4> QED BY <4>1
    <3> QED BY <3>1, <3>2
  <2>2. CASE CreateSocket(p)
    BY <2>2 DEF CreateSocket
  <2>3. CASE CreateSocketFailed(p)
    BY <2>3 DEF CreateSocketFailed, NextAttempt, Event, CloseSocket
  <2>4. CASE RequestReplySend(p)
    BY <2>4 DEF RequestReplySend
  <2>5. CASE RequestReplySendFailed(p)
    BY <2>5 DEF RequestReplySendFailed
  <2>6. CASE RequestReplyRead(p)
    BY <2>6 DEF RequestReplyRead, ReadMessage
  <2>7. CASE HandshakeRefused(p)
    BY <2>7 DEF HandshakeRefused, Event, ReadMessage
  <2>8. CASE RequestReplyReadFailed(p)
    BY <2>8 DEF RequestReplyReadFailed, ReadFails, Event
  <2>9. CASE RequestReplyNoMessage(p)
    BY <2>9 DEF RequestReplyNoMessage
  <2>10. CASE OnConnectFailed(p)
    BY <2>10 DEF OnConnectFailed, NextAttempt, CloseSocket
  <2>11. CASE TryConnectOk(p)
    <3>1. pc[p] = "connected"
      BY <2>11 DEF TryConnectOk, EndHandler
    <3>2. ~InHandler(p)
      BY <3>1 DEF InHandler
    <3> QED BY <2>11, <3>2 DEF TryConnectOk
  <2>12. CASE TryConnectFailed(p)
    <3>1. pc[p] = "failed"
      BY <2>12 DEF TryConnectFailed, EndHandler
    <3>2. ~InHandler(p)
      BY <3>1 DEF InHandler
    <3> QED BY <2>12, <3>2 DEF TryConnectFailed
  <2> QED BY <1>4, <2>1, <2>2, <2>3, <2>4, <2>5, <2>6, <2>7, <2>8, <2>9,
      <2>10, <2>11, <2>12 DEF ConnectStep
<1>5. ASSUME NEW p \in Procs, ConnectLocks(p) PROVE HeldInside'
  <2>1. CASE RequestReplyLock(p)
    BY <2>1 DEF RequestReplyLock
  <2>2. CASE RequestReplyHandle(p)
    BY <2>2 DEF RequestReplyHandle
  <2> QED BY <1>5, <2>1, <2>2 DEF ConnectLocks
<1>6. ASSUME NEW g \in Readers, ReaderStep(g) PROVE HeldInside'
  <2>1. CASE ReaderStart(g)
    BY <2>1 DEF ReaderStart
  <2>2. CASE ReaderMark(g)
    BY <2>2 DEF ReaderMark
  <2>3. CASE ReaderTop(g)
    BY <2>3 DEF ReaderTop
  <2>4. CASE ReaderRead(g)
    BY <2>4 DEF ReaderRead
  <2>5. CASE ReaderGets(g)
    BY <2>5 DEF ReaderGets, ReadMessage
  <2>6. CASE ReaderReadFailed(g)
    BY <2>6 DEF ReaderReadFailed, ReadFails, Event
  <2>7. CASE ProcessMessage(g)
    BY <2>7 DEF ProcessMessage
  <2>8. CASE ReaderError(g)
    BY <2>8 DEF ReaderError
  <2>9. CASE NotifyOne(g)
    BY <2>9 DEF NotifyOne, readVars
  <2>10. CASE NotifyDone(g)
    BY <2>10 DEF NotifyDone
  <2>11. CASE ReaderExit(g)
    BY <2>11 DEF ReaderExit
  <2> QED BY <1>6, <2>1, <2>2, <2>3, <2>4, <2>5, <2>6, <2>7, <2>8, <2>9,
      <2>10, <2>11 DEF ReaderStep
<1>7. ASSUME NEW g \in Readers, ReaderLocks(g) PROVE HeldInside'
  <2>1. CASE ReaderHandle(g)
    BY <2>1 DEF ReaderHandle
  <2>2. CASE ReaderTerminated(g)
    BY <2>2 DEF ReaderTerminated, CloseSocket
  <2> QED BY <1>7, <2>1, <2>2 DEF ReaderLocks
<1>8. CASE Environment
  BY <1>8 DEF Environment, Answer, ServerSends, PeerGone, Event
<1>9. CASE UNCHANGED vars
  BY <1>9 DEF vars
<1> QED BY <1>1, <1>2, <1>3, <1>4, <1>5, <1>6, <1>7, <1>8, <1>9 DEF Next

\* Every step that sets a reply or the result of a reader has nothing to retry.
LEMMA RetriedNext ==
    ASSUME ~HasFT, LockInv, AnswerInv, HeldInside, NothingRetried, [Next]_vars
    PROVE  NothingRetried'
<1>0. /\ reply \in [ReqId -> Replies] /\ result \in [Procs -> ErrorCodes]
      /\ Apps \cap Readers = {}
  BY ProcsAssumption DEF AnswerInv
<1>1. UNCHANGED <<reply, result>> => NothingRetried'
  BY DEF NothingRetried
<1>2. ASSUME NEW p \in Procs, NEW c, c # TGErrorRetryIOException \/ p \in Apps,
             reply' = reply, result' = [result EXCEPT ![p] = c]
      PROVE  NothingRetried'
  BY <1>0, <1>2 DEF NothingRetried, Procs
<1>3. ASSUME NEW g \in Readers, ProcessMessage(g)
      PROVE  NothingRetried'
  BY <1>0, <1>3, Codes DEF NothingRetried, ProcessMessage, connVars
<1>4. ASSUME NEW g \in Readers, NotifyOne(g)
      PROVE  NothingRetried'
  <2>1. PICK r : reply' = [reply EXCEPT ![r] = Exception(result[g])]
    BY <1>4 DEF NotifyOne
  <2>2. Exception(result[g]) # Exception(TGErrorRetryIOException)
    BY <1>0, Codes DEF NothingRetried, Procs
  <2> QED BY <1>0, <1>4, <2>1, <2>2 DEF NothingRetried, NotifyOne, connVars
<1>5. ASSUME NEW a \in Apps, WaitForLink(a)
      PROVE  NothingRetried'
  <2>1. \E c : result' = [result EXCEPT ![a] = c]
    BY <1>5 DEF WaitForLink
  <2> QED BY <1>2, <1>5, <2>1 DEF WaitForLink, Procs
<1>6. ASSUME NEW p \in Procs, Reconnect(p)
      PROVE  NothingRetried'
  BY <1>2, <1>6, Codes DEF Reconnect, EndHandler, respVars
<1>7. ASSUME NEW p \in Procs, TryConnectOk(p) \/ TryConnectFailed(p)
      PROVE  NothingRetried'
  <2>1. pc[p] \in {"connected", "failed"}
    BY <1>7 DEF TryConnectOk, TryConnectFailed, EndHandler, Goto
  <2>2. ~InHandler(p)
    BY <2>1 DEF InHandler, HeldInside, ConnectPCs
  <2> QED BY <1>1, <1>7, <2>2 DEF TryConnectOk, TryConnectFailed, respVars
<1>8. CASE /\ ~ \E p \in Procs : Reconnect(p) \/ TryConnectOk(p) \/ TryConnectFailed(p)
           /\ ~ \E a \in Apps : WaitForLink(a)
           /\ ~ \E g \in Readers : ProcessMessage(g) \/ NotifyOne(g)
  <2> SUFFICES UNCHANGED <<reply, result>>
    BY <1>1
  <2> USE <1>8 DEF respVars, connVars
  <2>1. ASSUME NEW a \in Apps, AppStep(a) PROVE UNCHANGED <<reply, result>>
    BY <2>1 DEF AppStep, CheckConnected, SendOk, SendFailed, Await, TakeReply,
       ChannelConnect, ChannelStart, ClearRunning, StopSent, StopSendFailed,
       StopClose
  <2>2. ASSUME NEW a \in Apps, AppLocks(a) PROVE UNCHANGED <<reply, result>>
    BY <2>2 DEF AppLocks, LockAndRegister, LockException, ChannelDisConnect,
       StopSkipped, StopReader
  <2>3. ASSUME NEW a \in Apps, AppCalls(a) PROVE UNCHANGED <<reply, result>>
    BY <2>3 DEF AppCalls, SendRequest, SendMessage, Connect, Disconnect, ForceStop
  <2>4. ASSUME NEW p \in Procs, ConnectStep(p) PROVE UNCHANGED <<reply, result>>
    BY <2>4 DEF ConnectStep, CreateSocket, CreateSocketFailed,
       RequestReplySend, RequestReplySendFailed, RequestReplyRead,
       HandshakeRefused, RequestReplyReadFailed, RequestReplyNoMessage,
       OnConnectFailed
  <2>5. ASSUME NEW p \in Procs, ConnectLocks(p) PROVE UNCHANGED <<reply, result>>
    BY <2>5 DEF ConnectLocks, RequestReplyLock, RequestReplyHandle
  <2>6. ASSUME NEW g \in Readers, ReaderStep(g) PROVE UNCHANGED <<reply, result>>
    BY <2>6 DEF ReaderStep, ReaderStart, ReaderMark, ReaderTop, ReaderRead,
       ReaderGets, ReaderReadFailed, ReaderError, NotifyDone, ReaderExit
  <2>7. ASSUME NEW g \in Readers, ReaderLocks(g) PROVE UNCHANGED <<reply, result>>
    BY <2>7 DEF ReaderLocks, ReaderHandle, ReaderTerminated
  <2>8. CASE Environment
    BY <2>8 DEF Environment, Answer, ServerSends, PeerGone
  <2>9. CASE UNCHANGED vars
    BY <2>9 DEF vars
  <2> QED BY <2>1, <2>2, <2>3, <2>4, <2>5, <2>6, <2>7, <2>8, <2>9 DEF Next
<1> QED BY <1>3, <1>4, <1>5, <1>6, <1>7, <1>8

\* Without fault tolerance no goroutine waits for a mutex that it holds,
\* whatever the applications call and the network and the server do: a handler
\* then never says that an operation may be retried, which is what sends a
\* requester back to ChannelLock with the lock in its hand, and it never
\* opens a connection under exceptionLock.
THEOREM NobodyWaitsForHimself == ~HasFT => (Spec => []NoSelfDeadlock)
<1> SUFFICES ASSUME ~HasFT PROVE Spec => []NoSelfDeadlock
  OBVIOUS
<1> DEFINE Inv == LockInv /\ CallInv /\ AnswerInv /\ HeldInside /\ NothingRetried
<1>1. Init => Inv
  BY LockInit, CallInit, AnswerInit, HeldInit
<1>2. Inv /\ [Next]_vars => Inv'
  BY LockNext, CallNext, AnswerNext, HeldNext, RetriedNext DEF LockInv
<1>3. Inv => NoSelfDeadlock
  <2> SUFFICES ASSUME Inv, NEW p \in Procs
               PROVE  /\ pc[p] \in {"lock", "rrLock", "disconnect", "stop"}
                            => sendLock # p
                      /\ pc[p] \in {"excLock", "rrFailed", "handleLock", "terminate"}
                            => exceptionLock # p
    BY DEF NoSelfDeadlock
  <2> QED BY DEF HeldInside, InSendLock, InExceptionLock, SendLockPCs,
                 HandlerPCs, ConnectPCs
<1> HIDE DEF Inv
<1> QED BY <1>1, <1>2, <1>3, PTL DEF Spec

-----------------------------------------------------------------------------
(* Exchanges while nothing fails *)

\* The network keeps the connection, the server answers and pings, and nobody
\* disconnects.  Requests that cannot be written there may be.
NothingFails ==
    /\ CredentialsFit /\ EnvEvents \subseteq {"ping"} /\ MaxSock > 0
    /\ Calls \subseteq {"SendRequest", "SendMessage", "Connect"}

\* A goroutine is between the decision of channelConnect to open a socket and
\* the end of the handshake.
Connecting(a) ==
    pc[a] \in {"tryConnect", "rrLock", "rrSend", "rrRead", "connected"}

\* No Connect opens a socket while another one is about to.
ConnectsAlone == \A a, b \in Apps : Connecting(a) /\ Connecting(b) => a = b

\* Where the goroutines are.
QuietPCs == {"idle", "check", "connect"}
HealthyPCs ==
    /\ \A p \in Procs : ~nested[p]
    /\ \A a \in Apps : Connecting(a) \/ pc[a] \in QuietPCs \cup
                          ({"start"} \cup SendPCs)
    /\ \A g \in Readers : pc[g] \in {"off", "spawned", "mark", "top", "read",
                                     "reading", "process"}

\* Before the handshake has ended nobody uses the channel.
Starting ==
    /\ link = "NotConnected"
    /\ \A g \in Readers : pc[g] = "off"
    /\ \A a \in Apps : pc[a] \in QuietPCs \/ Connecting(a)
    /\ responses = {} /\ inflight = {}
    /\ \/ /\ socket = 0 /\ sockets = 0 /\ wire = <<>>
          /\ \A a \in Apps : Connecting(a) => pc[a] = "tryConnect"
       \/ /\ socket # 0
          /\ \E a \in Apps :
                \/ pc[a] \in {"rrLock", "rrSend", "connected"} /\ wire = <<>>
                \/ pc[a] = "rrRead" /\ wire = <<Handshake>> /\ readSock[a] = socket

\* From then on the socket stays, and brings pings and responses.
Running ==
    /\ link = "Connected" /\ socket # 0
    /\ \A a \in Apps : ~Connecting(a)
    /\ \A i \in 1 .. Len(wire) : wire[i] = Ping \/ wire[i].kind = "response"
    /\ \A g \in Readers : pc[g] = "reading" => readSock[g] = socket
    /\ \A g \in Readers : pc[g] \in {"top", "read", "reading", "process"}
                             => isRunning

PhaseInv == broken = FALSE /\ HealthyPCs /\ (Starting \/ Running)

\* An answer is in one place, and the goroutine that it is for waits for it.
InReader(r) == \E g \in Readers : pc[g] = "process" /\ msg[g] = r
Awaited(r) ==
    /\ reply[r] = Waiting /\ r \in responses
    /\ \E a \in Apps : req[a] = r /\ pc[a] = "await"

\* A goroutine that has not sent its request, or has not been able to.
UnsentPCs == {"check", "lock", "send", "excLock", "excWait"}

\* A response is in the map as long as its call goes on.
ResponsesKept == \A r \in responses : \E a \in Apps : req[a] = r /\ pc[a] \in SendPCs

Exchanges ==
    /\ \A r \in ReqId : reply[r] \in {Waiting, Response(r)}
    /\ \A r \in ReqId : r >= nextReq => reply[r] = Waiting
    /\ \A a \in Apps : req[a] # 0 /\ pc[a] \in UnsentPCs => reply[req[a]] = Waiting
    /\ \A a \in Apps : req[a] # 0 /\ pc[a] = "send" => req[a] \in responses
    /\ \A r \in ReqId : r \in inflight \/ OnWire(r) \/ InReader(r) => Awaited(r)
    /\ \A r \in inflight : ~OnWire(r) /\ ~InReader(r)
    /\ \A r \in ReqId : OnWire(r) => ~InReader(r)
    /\ \A i, j \in 1 .. Len(wire) :
          wire[i] = wire[j] /\ wire[i].kind = "response" => i = j
    /\ \A g, h \in Readers : pc[g] = "process" /\ pc[h] = "process"
                                /\ msg[g] = msg[h] => g = h
    /\ \A g \in Readers : pc[g] = "process" => msg[g] \in ReqId
    /\ ResponsesKept

\* The steps that are left.
HealthyApp(a) ==
    \/ SendRequest(a) \/ SendMessage(a) \/ CheckConnected(a)
    \/ LockAndRegister(a) \/ SendOk(a) \/ Await(a) \/ TakeReply(a)
    \/ SendFailed(a) \/ LockException(a) \/ WaitForLink(a)
    \/ Connect(a) \/ ChannelConnect(a) \/ CreateSocket(a)
    \/ RequestReplyLock(a) \/ RequestReplySend(a) \/ RequestReplyRead(a)
    \/ TryConnectOk(a) \/ ChannelStart(a)
HealthyReader(g) ==
    \/ ReaderStart(g) \/ ReaderMark(g) \/ ReaderTop(g) \/ ReaderRead(g)
    \/ ReaderGets(g) \/ ProcessMessage(g)
HealthyServer ==
    (\E r \in ReqId : Answer(r)) \/ ServerSends("ping", Ping)

\* In a healthy state no other step is possible.
LEMMA HealthySteps ==
    ASSUME NothingFails, ConnectsAlone, PhaseInv, LockInv, [Next]_vars
    PROVE  \/ \E a \in Apps : HealthyApp(a)
           \/ \E g \in Readers : HealthyReader(g)
           \/ HealthyServer
           \/ UNCHANGED vars
<1> USE ProcsAssumption, BoundsAssumption
    DEF NothingFails, PhaseInv, HealthyPCs, Connecting, QuietPCs, Goto,
        GotoAndSpawn, Procs, Event
<1>1. ASSUME NEW a \in Apps, AppStep(a) PROVE HealthyApp(a)
  <2>1. ~ClearRunning(a) /\ ~StopSent(a) /\ ~StopSendFailed(a) /\ ~StopClose(a)
    BY DEF ClearRunning, StopSent, StopSendFailed, StopClose, SendPCs
  <2> QED BY <1>1, <2>1 DEF AppStep, HealthyApp
<1>2. ASSUME NEW a \in Apps, AppLocks(a) PROVE HealthyApp(a)
  BY <1>2 DEF AppLocks, HealthyApp, ChannelDisConnect, StopSkipped,
     StopReader, SendPCs
<1>3. ASSUME NEW a \in Apps, AppCalls(a) PROVE HealthyApp(a)
  BY <1>3 DEF AppCalls, HealthyApp, Disconnect, ForceStop
<1>4. ASSUME NEW p \in Procs, ConnectStep(p) PROVE p \in Apps /\ HealthyApp(p)
  <2>1. ~Reconnect(p) /\ ~TryConnectFailed(p) /\ ~OnConnectFailed(p)
    BY DEF Reconnect, TryConnectFailed, OnConnectFailed, EndHandler, NextAttempt,
       SendPCs
  <2>2. ~HandshakeRefused(p) /\ ~RequestReplyNoMessage(p)
        /\ ~RequestReplySendFailed(p)
    BY DEF HandshakeRefused, RequestReplyNoMessage, RequestReplySendFailed,
       CannotBeWritten, Starting, Running, SendPCs
  <2>3. ~CreateSocketFailed(p)
    <3>1. SUFFICES ASSUME CreateSocketFailed(p) PROVE FALSE
      OBVIOUS
    <3>2. pc[p] = "tryConnect" /\ sockets = MaxSock
      BY <3>1 DEF CreateSocketFailed, NextAttempt
    <3>3. p \in Apps /\ Starting
      BY <3>2 DEF Running
    <3>4. \E a \in Apps : Connecting(a) /\ pc[a] # "tryConnect"
      BY <3>2, <3>3 DEF Starting
    <3> QED BY <3>2, <3>3, <3>4 DEF ConnectsAlone
  <2>4. ~RequestReplyReadFailed(p)
    <3>1. SUFFICES ASSUME RequestReplyReadFailed(p) PROVE FALSE
      OBVIOUS
    <3>2. pc[p] = "rrRead" /\ readSock[p] # socket
      BY <3>1 DEF RequestReplyReadFailed, ReadFails
    <3>3. p \in Apps /\ Starting
      BY <3>2 DEF Running
    <3> QED BY <3>2, <3>3 DEF Starting, ConnectsAlone
  <2>5. p \in Apps
    BY <1>4, <2>1, <2>2, <2>3, <2>4 DEF ConnectStep, CreateSocket,
       RequestReplySend, RequestReplyRead, TryConnectOk, EndHandler
  <2> QED BY <1>4, <2>1, <2>2, <2>3, <2>4, <2>5 DEF ConnectStep, HealthyApp
<1>5. ASSUME NEW p \in Procs, ConnectLocks(p) PROVE p \in Apps /\ HealthyApp(p)
  BY <1>5 DEF ConnectLocks, HealthyApp, RequestReplyLock, RequestReplyHandle, SendPCs
<1>6. ASSUME NEW g \in Readers, ReaderStep(g) PROVE HealthyReader(g)
  <2>1. ~ReaderReadFailed(g)
    BY DEF ReaderReadFailed, ReadFails, Starting, Running
  <2>2. ~ReaderError(g) /\ ~NotifyOne(g) /\ ~NotifyDone(g) /\ ~ReaderExit(g)
    BY DEF ReaderError, NotifyOne, NotifyDone, ReaderExit
  <2> QED BY <1>6, <2>1, <2>2 DEF ReaderStep, HealthyReader
<1>7. ASSUME NEW g \in Readers, ReaderLocks(g) PROVE FALSE
  BY <1>7 DEF ReaderLocks, ReaderHandle, ReaderTerminated
<1>8. CASE Environment
  BY <1>8 DEF Environment, HealthyServer, ServerSends, PeerGone
<1> QED BY <1>1, <1>2, <1>3, <1>4, <1>5, <1>6, <1>7, <1>8 DEF Next

\* At first nobody is connected, and no answer is anywhere.
LEMMA HealthInit == Init => PhaseInv /\ Exchanges
<1> SUFFICES ASSUME Init PROVE PhaseInv /\ Exchanges
  OBVIOUS
<1> USE ProcsAssumption DEF Init, Procs
<1>1. Len(wire) = 0
  OBVIOUS
<1>2. PhaseInv
  BY DEF PhaseInv, HealthyPCs, QuietPCs, Starting, Connecting
<1>3. Exchanges
  BY <1>1 DEF Exchanges, InReader, OnWire, ResponsesKept
<1> QED BY <1>2, <1>3

\* The places of the wire when a message is added.
LEMMA WireGrows ==
    ASSUME wire \in Seq(Messages), NEW m \in Messages, wire' = Append(wire, m)
    PROVE  /\ Len(wire) \in Nat /\ Len(wire') = Len(wire) + 1
           /\ wire'[Len(wire) + 1] = m
           /\ \A i \in 1 .. Len(wire) : wire'[i] = wire[i]
           /\ 1 .. Len(wire') = 1 .. Len(wire) \cup {Len(wire) + 1}
  OBVIOUS

\* The places when one is taken.
LEMMA WireShrinks ==
    ASSUME wire \in Seq(Messages), wire # <<>>, wire' = Tail(wire)
    PROVE  /\ Len(wire) \in Nat /\ Head(wire) = wire[1] /\ 1 \in 1 .. Len(wire)
           /\ Len(wire') = Len(wire) - 1
           /\ \A i \in 1 .. Len(wire') :
                 wire'[i] = wire[i + 1] /\ i + 1 \in 1 .. Len(wire)
  OBVIOUS

\* The connection goes through its phases: nothing, the handshake of one
\* goroutine, and then the exchanges.
LEMMA PhaseNext ==
    ASSUME NothingFails, ConnectsAlone, ConnectsAlone', PhaseInv, Exchanges,
           LockInv, AnswerInv, RestType, [Next]_vars
    PROVE  PhaseInv'
<1> USE ProcsAssumption, BoundsAssumption
    DEF PhaseInv, HealthyPCs, Connecting, QuietPCs, SendPCs, Goto, GotoAndSpawn,
        Procs,
        linkVars, respVars, netVars, connVars, readVars
<1>1. pc \in [Procs -> AppPCs \cup ReaderPCs \cup ConnectPCs] /\ NoPanic
      /\ readSock \in [Procs -> 0 .. MaxSock] /\ wire \in Seq(Messages)
  BY DEF LockInv, PCTypeOK, NoPanic, RestType, AnswerInv, WireAnswers
<1>2. ASSUME NEW a \in Apps, HealthyApp(a) PROVE PhaseInv'
  <2> USE <1>1
  <2>1. CASE SendRequest(a) \/ SendMessage(a) \/ Connect(a)
    <3>1. /\ \E l \in {"check", "connect"} : pc' = [pc EXCEPT ![a] = l]
          /\ UNCHANGED <<link, isRunning, socket, sockets, broken, inflight,
                         wire, responses, nested, readSock>>
      BY <2>1 DEF SendRequest, SendMessage, Connect
    <3>2. pc[a] = "idle"
      BY <2>1 DEF SendRequest, SendMessage, Connect
    <3> QED BY <3>1, <3>2 DEF Starting, Running
  <2>2. CASE CheckConnected(a)
    BY <2>2 DEF CheckConnected, Starting, Running
  <2>3. CASE LockAndRegister(a)
    BY <2>3 DEF LockAndRegister, Starting, Running
  <2>4. CASE SendOk(a)
    BY <2>4 DEF SendOk, Starting, Running
  <2>5. CASE Await(a)
    BY <2>5 DEF Await, Starting, Running
  <2>6. CASE TakeReply(a)
    BY <2>6 DEF TakeReply, Starting, Running
  <2>7. CASE ChannelConnect(a)
    <3>1. /\ pc[a] = "connect"
          /\ \E l \in {"tryConnect", "start", "idle"} :
                pc' = [pc EXCEPT ![a] = l] /\ (l = "start" <=> link = "Connected")
                /\ (l = "tryConnect" => link # "Connected")
          /\ UNCHANGED <<link, isRunning, socket, sockets, broken, inflight,
                         wire, responses, nested, readSock>>
      <4>1. CASE link = "Connected"
        BY <2>7, <4>1 DEF ChannelConnect, ClosedStates
      <4>2. CASE link = "NotConnected"
        BY <2>7, <4>2 DEF ChannelConnect
      <4> QED BY <4>1, <4>2 DEF Starting, Running
    <3> QED BY <3>1 DEF Starting, Running, ConnectsAlone
  <2>8. CASE ChannelStart(a)
    BY <2>8, SMTT(30) DEF ChannelStart, Starting, Running
  <2>9. CASE CreateSocket(a)
    BY <2>9 DEF CreateSocket, Starting, Running, ConnectsAlone
  <2>10. CASE RequestReplyLock(a)
    BY <2>10 DEF RequestReplyLock, Starting, Running, ConnectsAlone
  <2>11. CASE RequestReplySend(a)
    <3>1. pc[a] = "rrSend"
      BY <2>11 DEF RequestReplySend
    <3>2. /\ Starting /\ wire = <<>> /\ \A b \in Apps : Connecting(b) => b = a
      BY <3>1 DEF Starting, Running, ConnectsAlone
    <3>3. /\ pc' = [pc EXCEPT ![a] = "rrRead"] /\ wire' = <<Handshake>>
          /\ readSock'[a] = socket /\ socket # 0
          /\ UNCHANGED <<link, socket, broken, inflight, responses, nested>>
      BY <2>11, <3>2 DEF RequestReplySend
    <3> QED BY <3>1, <3>2, <3>3 DEF Starting
  <2>12. CASE RequestReplyRead(a)
    <3>1. pc[a] = "rrRead"
      BY <2>12 DEF RequestReplyRead
    <3>2. /\ Starting /\ wire = <<Handshake>> /\ socket # 0
          /\ \A b \in Apps : Connecting(b) => b = a
      BY <3>1 DEF Starting, Running, ConnectsAlone
    <3>3. Head(wire) = Handshake /\ Handshake # ServerException /\ Tail(wire) = <<>>
      BY <3>2 DEF Handshake, ServerException
    <3>4. /\ \E l \in {"rrLock", "connected"} : pc' = [pc EXCEPT ![a] = l]
          /\ wire' = <<>>
          /\ UNCHANGED <<link, socket, broken, inflight, responses, nested>>
      BY <2>12, <3>3 DEF RequestReplyRead, ReadMessage
    <3> QED BY <3>1, <3>2, <3>4 DEF Starting
  <2>13. CASE TryConnectOk(a)
    BY <2>13 DEF TryConnectOk, InHandler, Starting, Running, ConnectsAlone
  <2>14. CASE SendFailed(a) \/ LockException(a) \/ WaitForLink(a)
    <3>1. /\ pc[a] \in {"send", "excLock", "excWait"}
          /\ \E l \in {"excLock", "excWait", "idle", "check"} :
                pc' = [pc EXCEPT ![a] = l]
          /\ UNCHANGED <<link, isRunning, socket, sockets, broken, inflight,
                         wire, responses, nested, readSock>>
      BY <2>14 DEF SendFailed, LockException, WaitForLink
    <3>2. Running
      BY <3>1 DEF Starting
    <3> QED BY <3>1, <3>2 DEF Running
  <2> QED BY <1>2, <2>1, <2>2, <2>3, <2>4, <2>5, <2>6, <2>7, <2>8, <2>9,
     <2>10, <2>11, <2>12, <2>13, <2>14 DEF HealthyApp
<1>3. ASSUME NEW g \in Readers, HealthyReader(g) PROVE PhaseInv'
  <2> USE <1>1
  <2>1. Running
    BY <1>3 DEF HealthyReader, ReaderStart, ReaderMark, ReaderTop, ReaderRead,
       ReaderGets, ProcessMessage, Starting
  <2>2. CASE ReaderStart(g)
    BY <2>1, <2>2 DEF ReaderStart, Running
  <2>3. CASE ReaderMark(g)
    BY <2>1, <2>3 DEF ReaderMark, Running
  <2>4. CASE ReaderTop(g)
    BY <2>1, <2>4 DEF ReaderTop, Running, ClosedStates
  <2>5. CASE ReaderRead(g)
    <3>1. pc[g] = "read" /\ pc'[g] = "reading" /\ readSock'[g] = socket
      BY <2>1, <2>5 DEF ReaderRead, Running
    <3> QED BY <2>1, <2>5, <3>1 DEF ReaderRead, Running
  <2>6. CASE ReaderGets(g)
    <3>1. /\ wire # <<>> /\ wire' = Tail(wire) /\ pc[g] = "reading"
          /\ UNCHANGED <<link, isRunning, socket, broken, nested, readSock>>
      BY <2>6 DEF ReaderGets, ReadMessage
    <3>2. /\ Head(wire) = wire[1] /\ 1 \in 1 .. Len(wire)
          /\ \A i \in 1 .. Len(wire') :
                wire'[i] = wire[i + 1] /\ i + 1 \in 1 .. Len(wire)
      BY <1>1, <3>1, WireShrinks
    <3>3. \A i \in 1 .. Len(wire') : wire'[i] = Ping \/ wire'[i].kind = "response"
      BY <2>1, <3>2 DEF Running
    <3>4. /\ Head(wire) = Ping \/ Head(wire) \notin {Ping, Terminate, ServerException}
          /\ Ping \notin {Terminate, ServerException}
      <4>1. /\ Ping.kind = "ping" /\ Terminate.kind = "terminate"
            /\ ServerException.kind = "exception"
        BY DEF Ping, Terminate, ServerException
      <4> QED BY <2>1, <3>2, <4>1 DEF Running
    <3>5. \E l \in {"top", "process"} : pc' = [pc EXCEPT ![g] = l]
      BY <2>6, <3>4 DEF ReaderGets
    <3> QED BY <2>1, <3>1, <3>3, <3>5 DEF Running
  <2>7. CASE ProcessMessage(g)
    <3>1. msg[g] \in responses
      BY <2>7 DEF ProcessMessage, Exchanges, InReader, Awaited
    <3> QED BY <2>1, <2>7, <3>1 DEF ProcessMessage, Running
  <2> QED BY <1>3, <2>2, <2>3, <2>4, <2>5, <2>6, <2>7 DEF HealthyReader
<1>4. CASE HealthyServer
  <2>1. Running
    BY <1>4 DEF HealthyServer, Answer, ServerSends, Starting
  <2>2. PICK m \in Messages : /\ wire' = Append(wire, m)
                              /\ m = Ping \/ m.kind = "response"
    BY <1>4, MessageFacts, ReplyFacts DEF HealthyServer, Answer, ServerSends
  <2>3. /\ Len(wire') = Len(wire) + 1 /\ wire'[Len(wire) + 1] = m
        /\ \A i \in 1 .. Len(wire) : wire'[i] = wire[i]
        /\ 1 .. Len(wire') = 1 .. Len(wire) \cup {Len(wire) + 1}
    BY <1>1, <2>2, WireGrows
  <2>4. \A i \in 1 .. Len(wire') : wire'[i] = Ping \/ wire'[i].kind = "response"
    BY <2>1, <2>2, <2>3 DEF Running
  <2>5. UNCHANGED <<link, socket, broken, nested, pc, readSock, isRunning>>
    BY <1>4 DEF HealthyServer, Answer, ServerSends
  <2> QED BY <2>1, <2>4, <2>5 DEF Running
<1>5. CASE UNCHANGED vars
  BY <1>5 DEF vars, Starting, Running
<1> QED BY <1>2, <1>3, <1>4, <1>5, HealthySteps

\* A step that moves nobody into or out of an exchange, and no response.
LEMMA ExchangesKept ==
    ASSUME Exchanges, AnswerInv,
           UNCHANGED <<reply, responses, nextReq, req, msg>>,
           inflight' \subseteq inflight,
           \/ wire' = wire
           \/ \A i \in 1 .. Len(wire') : wire'[i].kind # "response",
           \A a \in Apps : req[a] # 0 =>
              /\ pc'[a] \in UnsentPCs => pc[a] \in UnsentPCs
              /\ pc'[a] = "send" => pc[a] = "send"
              /\ pc[a] = "await" => pc'[a] = "await"
              /\ pc[a] \in SendPCs /\ req[a] \in responses => pc'[a] \in SendPCs,
           \A g \in Readers : pc'[g] = "process" => pc[g] = "process"
    PROVE  Exchanges'
<1>1. 0 \notin ReqId /\ responses \subseteq ReqId /\ inflight \subseteq ReqId
  BY BoundsAssumption DEF ReqId, AnswerInv
<1>2. \A r \in ReqId : OnWire(r)' => OnWire(r)
  BY MessageFacts, ReplyFacts DEF OnWire
<1>3. \A r \in ReqId : InReader(r)' => InReader(r)
  BY DEF InReader
<1>4. \A r \in ReqId : Awaited(r) => Awaited(r)'
  BY <1>1 DEF Awaited
<1>5. \A i, j \in 1 .. Len(wire') :
         wire'[i] = wire'[j] /\ wire'[i].kind = "response" => i = j
  BY DEF Exchanges, UnsentPCs
<1>6. ResponsesKept'
  BY <1>1 DEF Exchanges, ResponsesKept, SendPCs, UnsentPCs
<1> QED BY <1>1, <1>2, <1>3, <1>4, <1>5, <1>6 DEF Exchanges, UnsentPCs

\* The request of a goroutine that is not waiting yet, or no longer, is
\* nowhere.
LEMMA NotPending ==
    ASSUME Exchanges, CallInv, NEW a \in Apps, req[a] # 0,
           pc[a] # "await" \/ reply[req[a]] # Waiting
    PROVE  /\ req[a] \in ReqId /\ req[a] \notin inflight
           /\ ~OnWire(req[a]) /\ ~InReader(req[a])
<1>1. req[a] \in ReqId /\ \A b \in Apps : req[b] = req[a] => b = a
  BY DEF CallInv
<1>2. ~Awaited(req[a])
  BY <1>1 DEF Awaited
<1> QED BY <1>1, <1>2 DEF Exchanges, UnsentPCs

\* The steps of a requester.
LEMMA ExchangesRequest ==
    ASSUME PhaseInv, Exchanges, LockInv, CallInv, AnswerInv, NEW a \in Apps,
           \/ SendRequest(a) \/ SendMessage(a) \/ LockAndRegister(a)
           \/ SendOk(a) \/ Await(a) \/ TakeReply(a)
    PROVE  Exchanges'
<1> USE ProcsAssumption DEF Goto, Procs
<1>0. /\ pc \in [Procs -> AppPCs \cup ReaderPCs \cup ConnectPCs]
      /\ 0 \notin ReqId /\ responses \subseteq ReqId /\ inflight \subseteq ReqId
      /\ req \in [Apps -> {0} \cup ReqId] /\ reply \in [ReqId -> Replies]
      /\ \A b \in Apps : req[b] = req[a] /\ req[b] # 0 => a = b
      /\ \A g \in Readers : g # a
  BY BoundsAssumption DEF LockInv, PCTypeOK, ReqId, AnswerInv, CallInv
<1>1. \A r \in ReqId : (InReader(r)' <=> InReader(r)) /\ msg' = msg
                       /\ \A g \in Readers : pc'[g] = pc[g]
  BY <1>0 DEF SendRequest, SendMessage, LockAndRegister, SendOk, Await,
     TakeReply, readVars, InReader
<1>2. wire' = wire
  BY DEF SendRequest, SendMessage, LockAndRegister, SendOk, Await, TakeReply,
     netVars
<1>3. \A r : OnWire(r)' <=> OnWire(r)
  BY <1>2 DEF OnWire
<1>4. CASE SendRequest(a)
  <2>1. /\ pc[a] = "idle" /\ pc' = [pc EXCEPT ![a] = "check"]
        /\ req' = [req EXCEPT ![a] = nextReq] /\ nextReq' = nextReq + 1
        /\ UNCHANGED <<reply, responses, inflight>>
        /\ nextReq \in ReqId
    BY <1>4, BoundsAssumption DEF SendRequest, respVars, netVars, CallInv, ReqId
  <2>2. \A r \in ReqId : Awaited(r) => Awaited(r)'
    BY <1>0, <2>1 DEF Awaited
  <2>3. ResponsesKept'
    BY <1>0, <2>1 DEF Exchanges, ResponsesKept, SendPCs, UnsentPCs
  <2>4. \A r \in ReqId : r >= nextReq' => r >= nextReq
    BY <2>1, BoundsAssumption DEF ReqId
  <2>5. nextReq >= nextReq
    BY <2>1, BoundsAssumption DEF ReqId
  <2> QED BY <1>0, <1>1, <1>2, <1>3, <2>1, <2>2, <2>3, <2>4, <2>5 DEF Exchanges, UnsentPCs
<1>5. CASE SendMessage(a)
  <2>1. /\ pc[a] = "idle" /\ pc' = [pc EXCEPT ![a] = "check"]
        /\ req' = [req EXCEPT ![a] = 0]
        /\ UNCHANGED <<reply, responses, inflight, nextReq>>
    BY <1>5 DEF SendMessage, respVars, netVars, countVars
  <2>2. \A r \in ReqId : Awaited(r) => Awaited(r)'
    BY <1>0, <2>1 DEF Awaited
  <2>3. ResponsesKept'
    BY <1>0, <2>1 DEF Exchanges, ResponsesKept, SendPCs, UnsentPCs
  <2> QED BY <1>0, <1>1, <1>2, <1>3, <2>1, <2>2, <2>3 DEF Exchanges, UnsentPCs
<1>6. CASE LockAndRegister(a)
  <2>1. /\ pc[a] = "lock" /\ pc' = [pc EXCEPT ![a] = "send"]
        /\ responses' = responses \cup ({req[a]} \ {0})
        /\ UNCHANGED <<reply, req, inflight, nextReq>>
    BY <1>6 DEF LockAndRegister, callVars, netVars, countVars
  <2>2. \A r \in ReqId : Awaited(r) => Awaited(r)'
    BY <1>0, <2>1 DEF Awaited
  <2>3. ResponsesKept'
    BY <1>0, <2>1 DEF Exchanges, ResponsesKept, SendPCs, UnsentPCs
  <2> QED BY <1>0, <1>1, <1>2, <1>3, <2>1, <2>2, <2>3 DEF Exchanges, UnsentPCs
<1>7. CASE SendOk(a)
  <2>1. CASE req[a] = 0
    <3>1. /\ pc' = [pc EXCEPT ![a] = "idle"]
          /\ UNCHANGED <<reply, responses, nextReq, req, msg, inflight>>
      BY <1>7, <2>1 DEF SendOk, respVars, countVars, callVars, readVars
    <3> QED BY <1>0, <1>2, <2>1, <3>1, ExchangesKept
  <2>2. CASE req[a] # 0
    <3>1. /\ pc[a] = "send" /\ pc' = [pc EXCEPT ![a] = "await"]
          /\ inflight' = inflight \cup {req[a]}
          /\ UNCHANGED <<reply, responses, nextReq, req>>
      BY <1>7, <2>2 DEF SendOk, PhaseInv, respVars, countVars, callVars
    <3>2. /\ req[a] \in ReqId /\ req[a] \notin inflight
          /\ ~OnWire(req[a]) /\ ~InReader(req[a])
      BY <2>2, <3>1, NotPending
    <3>3. \A r \in ReqId : Awaited(r) => Awaited(r)'
      BY <1>0, <3>1 DEF Awaited
    <3>4. Awaited(req[a])'
      <4>1. "send" \in UnsentPCs
        BY DEF UnsentPCs
      <4>2. reply[req[a]] = Waiting /\ req[a] \in responses
        BY <2>2, <3>1, <4>1 DEF Exchanges
      <4> QED BY <1>0, <3>1, <3>2, <4>2 DEF Awaited
    <3>5. ResponsesKept'
      BY <1>0, <3>1 DEF Exchanges, ResponsesKept, SendPCs, UnsentPCs
    <3>6. \A b \in Apps : /\ pc'[b] \in UnsentPCs => pc[b] \in UnsentPCs
                          /\ pc'[b] = "send" => pc[b] = "send"
      BY <1>0, <3>1 DEF UnsentPCs
    <3>7. /\ \A b \in Apps : req'[b] # 0 /\ pc'[b] \in UnsentPCs
                              => reply'[req'[b]] = Waiting
          /\ \A b \in Apps : req'[b] # 0 /\ pc'[b] = "send"
                              => req'[b] \in responses'
      BY <3>1, <3>6 DEF Exchanges
    <3>8. \A q \in inflight' : ~OnWire(q)' /\ ~InReader(q)'
      BY <1>0, <1>1, <1>3, <3>1, <3>2 DEF Exchanges
    <3>9. \A q \in ReqId : q \in inflight' \/ OnWire(q)' \/ InReader(q)'
                            => Awaited(q)'
      BY <1>1, <1>3, <3>1, <3>3, <3>4 DEF Exchanges
    <3> QED BY <1>1, <1>2, <1>3, <3>1, <3>5, <3>7, <3>8, <3>9 DEF Exchanges
  <2> QED BY <2>1, <2>2
<1>8. CASE Await(a)
  <2>1. /\ pc[a] = "await" /\ pc' = [pc EXCEPT ![a] = "delete"]
        /\ UNCHANGED <<reply, responses, nextReq, req, inflight>>
        /\ reply[req[a]] # Waiting /\ req[a] # 0
    BY <1>8 DEF Await, respVars, countVars, callVars, netVars, CallInv
  <2>2. ~Awaited(req[a])
    BY <2>1 DEF Awaited
  <2>3. \A r \in ReqId : Awaited(r) => Awaited(r)'
    BY <1>0, <2>1, <2>2 DEF Awaited
  <2>4. ResponsesKept'
    BY <1>0, <2>1 DEF Exchanges, ResponsesKept, SendPCs, UnsentPCs
  <2> QED BY <1>0, <1>1, <1>2, <1>3, <2>1, <2>3, <2>4 DEF Exchanges, UnsentPCs
<1>9. CASE TakeReply(a)
  <2>1. pc[a] = "delete" /\ req[a] # 0 /\ req[a] \in ReqId
    BY <1>0, <1>9 DEF TakeReply, CallInv
  <2>2. reply[req[a]] # Exception(TGErrorRetryIOException)
    BY <2>1, Codes DEF Exchanges, UnsentPCs
  <2>3. /\ pc' = [pc EXCEPT ![a] = "idle"]
        /\ responses' = responses \ {req[a]}
        /\ UNCHANGED <<reply, nextReq, req, inflight>>
    BY <1>9, <2>2 DEF TakeReply, countVars, callVars, netVars
  <2>4. \A r \in ReqId : Awaited(r) => Awaited(r)'
    BY <1>0, <2>1, <2>3 DEF Awaited
  <2>5. ResponsesKept'
    BY <1>0, <2>1, <2>3 DEF Exchanges, ResponsesKept, SendPCs, UnsentPCs
  <2> QED BY <1>0, <1>1, <1>2, <1>3, <2>1, <2>3, <2>4, <2>5 DEF Exchanges, UnsentPCs
<1> QED BY <1>4, <1>5, <1>6, <1>7, <1>8, <1>9

\* The steps of an answer: from the server to the wire, to a reader, and to
\* the goroutine that waits for it.
LEMMA ExchangesAnswer ==
    ASSUME PhaseInv, Exchanges, LockInv, CallInv, AnswerInv,
           \/ \E r \in ReqId : Answer(r)
           \/ \E g \in Readers : ReaderGets(g) \/ ProcessMessage(g)
    PROVE  Exchanges'
<1> USE ProcsAssumption DEF Goto, Procs
<1>0. /\ pc \in [Procs -> AppPCs \cup ReaderPCs \cup ConnectPCs]
      /\ 0 \notin ReqId /\ responses \subseteq ReqId /\ inflight \subseteq ReqId
      /\ msg \in [Readers -> Nat] /\ reply \in [ReqId -> Replies]
      /\ wire \in Seq(Messages)
  BY BoundsAssumption DEF LockInv, PCTypeOK, ReqId, AnswerInv, WireAnswers
<1>1. ASSUME NEW r \in ReqId, Answer(r) PROVE Exchanges'
  <2>1. /\ r \in inflight /\ inflight' = inflight \ {r}
        /\ wire' = Append(wire, Response(r))
        /\ UNCHANGED <<pc, reply, responses, nextReq, req, msg>>
    BY <1>1 DEF Answer, respVars, countVars, callVars, readVars
  <2>2. /\ Response(r) \in Messages /\ Response(r).kind = "response"
        /\ \A q \in ReqId : Response(q) = Response(r) => q = r
    BY MessageFacts, ReplyFacts
  <2>3. /\ Len(wire) \in Nat /\ wire'[Len(wire) + 1] = Response(r)
        /\ \A i \in 1 .. Len(wire) : wire'[i] = wire[i]
        /\ 1 .. Len(wire') = 1 .. Len(wire) \cup {Len(wire) + 1}
    BY <1>0, <2>1, <2>2, WireGrows
  <2>4. \A q \in ReqId : OnWire(q)' <=> OnWire(q) \/ q = r
    BY <2>2, <2>3 DEF OnWire
  <2>5. \A q \in ReqId : (InReader(q)' <=> InReader(q))
                         /\ (Awaited(q)' <=> Awaited(q))
    BY <2>1 DEF InReader, Awaited
  <2>6. Awaited(r) /\ ~OnWire(r) /\ ~InReader(r)
    BY <2>1 DEF Exchanges, UnsentPCs
  <2>7. \A i \in 1 .. Len(wire) : wire[i] # Response(r)
    BY <2>6 DEF OnWire
  <2>8. \A i, j \in 1 .. Len(wire') :
           wire'[i] = wire'[j] /\ wire'[i].kind = "response" => i = j
    BY <2>3, <2>7 DEF Exchanges, UnsentPCs
  <2>9. ResponsesKept'
    BY <2>1 DEF Exchanges, ResponsesKept, SendPCs, UnsentPCs
  <2> QED BY <1>0, <2>1, <2>4, <2>5, <2>6, <2>8, <2>9 DEF Exchanges, UnsentPCs
<1>2. ASSUME NEW g \in Readers, ReaderGets(g) PROVE Exchanges'
  <2> DEFINE m == Head(wire)
  <2>1. /\ wire # <<>> /\ wire' = Tail(wire) /\ pc[g] = "reading"
        /\ UNCHANGED <<reply, responses, nextReq, req, inflight>>
        /\ msg' = [msg EXCEPT ![g] = m.val]
    BY <1>2 DEF ReaderGets, ReadMessage, respVars, countVars, callVars
  <2>2. /\ Len(wire) \in Nat /\ m = wire[1] /\ 1 \in 1 .. Len(wire)
        /\ Len(wire') = Len(wire) - 1
        /\ \A i \in 1 .. Len(wire') :
              wire'[i] = wire[i + 1] /\ i + 1 \in 1 .. Len(wire)
    BY <1>0, <2>1, WireShrinks
  <2>3. /\ m \in Messages /\ m.val \in Nat
        /\ m.kind = "response" => m = Response(m.val) /\ m.val \in ReqId
    BY <1>0, <2>2, MessageFacts
  <2>4. Running
    BY <2>1 DEF PhaseInv, Starting
  <2>5. m = Ping \/ m.kind = "response"
    BY <2>2, <2>4 DEF Running
  <2>6. /\ Ping.kind = "ping" /\ Terminate.kind = "terminate"
        /\ ServerException.kind = "exception"
    BY DEF Ping, Terminate, ServerException
  <2>7. pc' = [pc EXCEPT ![g] = IF m = Ping THEN "top" ELSE "process"]
    BY <1>2, <2>5, <2>6 DEF ReaderGets
  <2> HIDE DEF m
  <2>8. \A i, j \in 1 .. Len(wire') :
           wire'[i] = wire'[j] /\ wire'[i].kind = "response" => i = j
    <3>1. ASSUME NEW i \in 1 .. Len(wire'), NEW j \in 1 .. Len(wire'),
                 wire'[i] = wire'[j], wire'[i].kind = "response"
          PROVE  i = j
      <4>1. i + 1 = j + 1
        BY <2>2, <3>1 DEF Exchanges, UnsentPCs
      <4> QED BY <4>1
    <3> QED BY <3>1
  <2>9. \A q \in ReqId : OnWire(q)' => OnWire(q)
    BY <2>2 DEF OnWire
  <2>10. \A q \in ReqId : Awaited(q) => Awaited(q)'
    BY <1>0, <2>1, <2>7 DEF Awaited
  <2>11. ResponsesKept'
    BY <1>0, <2>1, <2>7 DEF Exchanges, ResponsesKept, SendPCs, UnsentPCs
  <2>12. \A a \in Apps : pc'[a] = pc[a]
    BY <1>0, <2>7
  <2>13. CASE m = Ping
    <3>1. \A h \in Readers : pc'[h] = "process" => pc[h] = "process" /\ msg'[h] = msg[h]
      BY <1>0, <2>1, <2>7, <2>13
    <3>2. \A q \in ReqId : InReader(q)' => InReader(q)
      BY <3>1 DEF InReader
    <3> QED BY <1>0, <2>1, <2>8, <2>9, <2>10, <2>11, <2>12, <3>1, <3>2
            DEF Exchanges, UnsentPCs
  <2>14. CASE m # Ping
    <3>1. PICK r \in ReqId : m = Response(r) /\ m.kind = "response" /\ m.val = r
      BY <2>3, <2>5, <2>14
    <3>2. OnWire(r)
      BY <2>2, <3>1 DEF OnWire
    <3>3. Awaited(r) /\ r \notin inflight /\ ~InReader(r)
      BY <3>1, <3>2 DEF Exchanges, UnsentPCs
    <3>4. ~OnWire(r)'
      <4>1. SUFFICES ASSUME NEW i \in 1 .. Len(wire'), wire'[i] = Response(r)
                     PROVE  FALSE
        BY DEF OnWire
      <4>2. wire[i + 1] = wire[1] /\ wire[1].kind = "response"
        BY <2>2, <3>1, <4>1
      <4>3. i + 1 = 1
        BY <2>2, <4>2 DEF Exchanges, UnsentPCs
      <4> QED BY <4>3
    <3>5. /\ pc'[g] = "process" /\ msg'[g] = r
          /\ \A h \in Readers \ {g} : pc'[h] = pc[h] /\ msg'[h] = msg[h]
      BY <1>0, <2>1, <2>7, <2>14, <3>1
    <3>6. \A q \in ReqId : InReader(q)' => InReader(q) \/ q = r
      BY <3>5 DEF InReader
    <3>7. \A h, k \in Readers : pc'[h] = "process" /\ pc'[k] = "process"
                                   /\ msg'[h] = msg'[k] => h = k
      <4>1. \A h \in Readers \ {g} : pc'[h] = "process" => msg'[h] # r
        BY <3>3, <3>5 DEF InReader
      <4> QED BY <3>5, <4>1 DEF Exchanges, UnsentPCs
    <3> QED BY <1>0, <2>1, <2>8, <2>9, <2>10, <2>11, <2>12, <3>1, <3>3, <3>4,
               <3>5, <3>6, <3>7 DEF Exchanges, UnsentPCs
  <2> QED BY <2>13, <2>14
<1>3. ASSUME NEW g \in Readers, ProcessMessage(g) PROVE Exchanges'
  <2>1. PICK r \in ReqId : pc[g] = "process" /\ msg[g] = r /\ InReader(r)
    BY <1>3 DEF ProcessMessage, Exchanges, InReader
  <2>2. Awaited(r) /\ r \notin inflight /\ ~OnWire(r)
    BY <2>1 DEF Exchanges, UnsentPCs
  <2>3. /\ pc' = [pc EXCEPT ![g] = "top"]
        /\ reply' = [reply EXCEPT ![r] = Response(r)]
        /\ UNCHANGED <<responses, nextReq, req, inflight, wire, msg>>
    BY <1>3, <2>1, <2>2 DEF ProcessMessage, Awaited, netVars, countVars,
       callVars, readVars
  <2>4. \A q \in ReqId : InReader(q)' => InReader(q) /\ q # r
    BY <1>0, <2>1, <2>3 DEF InReader, Exchanges
  <2>5. \A q \in ReqId \ {r} : Awaited(q) => Awaited(q)'
    BY <1>0, <2>3 DEF Awaited
  <2>6. \A q : OnWire(q)' <=> OnWire(q)
    BY <2>3 DEF OnWire
  <2>7. PICK a \in Apps : req[a] = r /\ pc[a] = "await"
    BY <2>2 DEF Awaited
  <2>8. ResponsesKept'
    BY <1>0, <2>3 DEF Exchanges, ResponsesKept, SendPCs, UnsentPCs
  <2>9. \A b \in Apps : pc'[b] = pc[b]
    BY <1>0, <2>3
  <2>10. \A b \in Apps : req[b] # 0 /\ pc[b] \in UnsentPCs
                            => req[b] # r
    BY <1>0, <2>2 DEF Awaited, CallInv, UnsentPCs
  <2>11. \A q \in ReqId : q >= nextReq => q # r
    <3>1. r < nextReq /\ nextReq \in Nat
      BY <2>2 DEF Awaited, CallInv
    <3> QED BY <3>1, BoundsAssumption DEF ReqId
  <2>12. \A q \in ReqId : reply'[q] = IF q = r THEN Response(r) ELSE reply[q]
    BY <1>0, <2>3
  <2>13. \A q \in ReqId : q \in inflight' \/ OnWire(q)' \/ InReader(q)' => Awaited(q)'
    BY <2>2, <2>3, <2>4, <2>5, <2>6 DEF Exchanges, UnsentPCs
  <2>14. \A h \in Readers : pc'[h] = "process" => pc[h] = "process"
    BY <1>0, <2>3
  <2>15. \A b \in Apps : req'[b] # 0 /\ pc'[b] \in UnsentPCs
                            => reply'[req'[b]] = Waiting
    <3>1. \A b \in Apps : req[b] # 0 => req[b] \in ReqId
      BY DEF CallInv
    <3> QED BY <2>3, <2>9, <2>10, <2>12, <3>1 DEF Exchanges, UnsentPCs
  <2>16. \A q \in ReqId : /\ reply'[q] \in {Waiting, Response(q)}
                          /\ q >= nextReq' => reply'[q] = Waiting
    BY <2>3, <2>11, <2>12 DEF Exchanges, UnsentPCs
  <2>17. \A b \in Apps : req'[b] # 0 /\ pc'[b] = "send" => req'[b] \in responses'
    BY <2>3, <2>9 DEF Exchanges, UnsentPCs
  <2>18. /\ \A q \in inflight' : ~OnWire(q)' /\ ~InReader(q)'
         /\ \A q \in ReqId : OnWire(q)' => ~InReader(q)'
    <3>1. inflight' \subseteq ReqId
      BY <1>0, <2>3 DEF AnswerInv
    <3> QED BY <2>3, <2>4, <2>6, <3>1 DEF Exchanges, UnsentPCs
  <2>19. \A i, j \in 1 .. Len(wire') :
            wire'[i] = wire'[j] /\ wire'[i].kind = "response" => i = j
    BY <2>3 DEF Exchanges, UnsentPCs
  <2>20. /\ \A h, k \in Readers : pc'[h] = "process" /\ pc'[k] = "process"
                                    /\ msg'[h] = msg'[k] => h = k
         /\ \A h \in Readers : pc'[h] = "process" => msg'[h] \in ReqId
    BY <2>3, <2>14 DEF Exchanges, UnsentPCs
  <2> QED BY <2>8, <2>13, <2>15, <2>16, <2>17, <2>18, <2>19, <2>20 DEF Exchanges, UnsentPCs
<1> QED BY <1>1, <1>2, <1>3

\* A ping joins the wire and concerns nobody.
LEMMA ExchangesPing ==
    ASSUME Exchanges, AnswerInv, ServerSends("ping", Ping)
    PROVE  Exchanges'
<1>0. /\ wire \in Seq(Messages) /\ inflight \subseteq ReqId
      /\ Ping \in Messages /\ Ping.kind = "ping"
      /\ \A r \in ReqId : Response(r).kind = "response"
  BY MessageFacts, ReplyFacts DEF AnswerInv, WireAnswers, Messages, Ping
<1>1. /\ wire' = Append(wire, Ping)
      /\ UNCHANGED <<pc, reply, responses, nextReq, req, msg, inflight>>
  BY DEF ServerSends, respVars, callVars, readVars
<1>2. /\ Len(wire) \in Nat /\ wire'[Len(wire) + 1] = Ping
      /\ \A i \in 1 .. Len(wire) : wire'[i] = wire[i]
      /\ 1 .. Len(wire') = 1 .. Len(wire) \cup {Len(wire) + 1}
  BY <1>0, <1>1, WireGrows
<1>3. \A r \in ReqId : (OnWire(r)' <=> OnWire(r)) /\ (InReader(r)' <=> InReader(r))
                       /\ (Awaited(r)' <=> Awaited(r))
  BY <1>0, <1>1, <1>2 DEF OnWire, InReader, Awaited
<1>4. \A i, j \in 1 .. Len(wire') :
         wire'[i] = wire'[j] /\ wire'[i].kind = "response" => i = j
  BY <1>0, <1>2 DEF Exchanges, UnsentPCs
<1>5. ResponsesKept'
  BY <1>1 DEF Exchanges, ResponsesKept, SendPCs, UnsentPCs
<1> QED BY <1>0, <1>1, <1>3, <1>4, <1>5 DEF Exchanges, UnsentPCs

\* The steps that connect, and those of a reader without a message.
LEMMA ExchangesElsewhere ==
    ASSUME ConnectsAlone, PhaseInv, Exchanges, LockInv, AnswerInv,
           \/ \E a \in Apps :
                 \/ CheckConnected(a) \/ Connect(a) \/ ChannelConnect(a)
                 \/ CreateSocket(a) \/ RequestReplyLock(a)
                 \/ RequestReplySend(a) \/ RequestReplyRead(a)
                 \/ TryConnectOk(a) \/ ChannelStart(a)
                 \/ SendFailed(a) \/ LockException(a) \/ WaitForLink(a)
           \/ \E g \in Readers :
                 \/ ReaderStart(g) \/ ReaderMark(g) \/ ReaderTop(g)
                 \/ ReaderRead(g)
           \/ UNCHANGED vars
    PROVE  Exchanges'
<1> USE ProcsAssumption
    DEF PhaseInv, HealthyPCs, Connecting, QuietPCs, SendPCs, UnsentPCs, Goto, GotoAndSpawn, Procs,
        respVars, netVars, connVars, readVars, callVars, countVars
<1>0. /\ pc \in [Procs -> AppPCs \cup ReaderPCs \cup ConnectPCs]
      /\ Len(<<>>) = 0 /\ 1 .. 0 = {}
      /\ Len(<<Handshake>>) = 1 /\ <<Handshake>>[1] = Handshake /\ 1 .. 1 = {1}
      /\ Handshake.kind = "handshake"
  BY DEF LockInv, PCTypeOK, Handshake
<1>1. ASSUME NEW a \in Apps,
             \/ CheckConnected(a) \/ Connect(a) \/ ChannelConnect(a)
             \/ CreateSocket(a) \/ RequestReplyLock(a) \/ RequestReplySend(a)
             \/ RequestReplyRead(a) \/ TryConnectOk(a) \/ ChannelStart(a)
             \/ SendFailed(a) \/ LockException(a) \/ WaitForLink(a)
      PROVE  Exchanges'
  <2> USE <1>0
  <2>0. \A g \in Readers : g # a
    OBVIOUS
  <2>1. CASE CheckConnected(a)
    <3>1. req[a] \in responses => link = "Connected"
      BY DEF Starting, Running
    <3>2. /\ pc[a] = "check" /\ UNCHANGED <<reply, responses, nextReq, req, msg,
                                            inflight, wire>>
          /\ pc' = [pc EXCEPT ![a] = IF link = "Connected" THEN "lock" ELSE "idle"]
      BY <2>1 DEF CheckConnected
    <3> QED BY <2>0, <3>1, <3>2, ExchangesKept
  <2>2. CASE Connect(a)
    BY <2>0, <2>2, ExchangesKept DEF Connect
  <2>3. CASE ChannelConnect(a)
    <3>1. /\ pc[a] = "connect" /\ UNCHANGED <<reply, responses, nextReq, req, msg,
                                              inflight, wire>>
          /\ \E l \in {"tryConnect", "start", "idle"} : pc' = [pc EXCEPT ![a] = l]
      <4>1. CASE link = "Connected"
        BY <2>3, <4>1 DEF ChannelConnect, ClosedStates
      <4>2. CASE link = "NotConnected"
        BY <2>3, <4>2 DEF ChannelConnect
      <4> QED BY <4>1, <4>2 DEF Starting, Running
    <3> QED BY <2>0, <3>1, ExchangesKept
  <2>4. CASE CreateSocket(a)
    BY <2>0, <2>4, ExchangesKept DEF CreateSocket
  <2>5. CASE RequestReplyLock(a)
    BY <2>0, <2>5, ExchangesKept DEF RequestReplyLock
  <2>6. CASE RequestReplySend(a)
    <3>1. pc[a] = "rrSend"
      BY <2>6 DEF RequestReplySend
    <3>2. wire = <<>>
      BY <3>1 DEF Starting, Running, ConnectsAlone
    <3>3. /\ wire' = <<Handshake>> /\ pc' = [pc EXCEPT ![a] = "rrRead"]
          /\ UNCHANGED <<reply, responses, nextReq, req, msg, inflight>>
      BY <2>6, <3>2 DEF RequestReplySend
    <3>4. \A i \in 1 .. Len(wire') : wire'[i].kind # "response"
      BY <3>3
    <3> QED BY <2>0, <3>1, <3>3, <3>4, ExchangesKept
  <2>7. CASE RequestReplyRead(a)
    <3>1. pc[a] = "rrRead"
      BY <2>7 DEF RequestReplyRead
    <3>2. wire = <<Handshake>>
      BY <3>1 DEF Starting, Running, ConnectsAlone
    <3>3. Head(wire) = Handshake /\ Handshake # ServerException /\ Tail(wire) = <<>>
      BY <3>2 DEF Handshake, ServerException
    <3>4. /\ wire' = <<>>
          /\ \E l \in {"rrLock", "connected"} : pc' = [pc EXCEPT ![a] = l]
          /\ UNCHANGED <<reply, responses, nextReq, req, msg, inflight>>
      BY <2>7, <3>3 DEF RequestReplyRead, ReadMessage
    <3> QED BY <2>0, <3>1, <3>4, ExchangesKept
  <2>8. CASE TryConnectOk(a)
    BY <2>0, <2>8, ExchangesKept DEF TryConnectOk, InHandler
  <2>9. CASE ChannelStart(a)
    BY <2>0, <2>9, ExchangesKept DEF ChannelStart
  <2>10. CASE SendFailed(a) \/ LockException(a)
    BY <2>0, <2>10, ExchangesKept DEF SendFailed, LockException
  <2>11. CASE WaitForLink(a)
    <3>1. pc[a] = "excWait" /\ ~Starting
      BY <2>11 DEF WaitForLink, Starting
    <3>2. link = "Connected"
      BY <3>1 DEF Running
    <3>3. ~SenderGivesUp(ChannelException(RetryOperation))
      BY DEF SenderGivesUp, ChannelException, RetryOperation, RethrowException,
         Disconnected, TGErrorRetryIOException
    <3>4. /\ pc' = [pc EXCEPT ![a] = "check"]
          /\ UNCHANGED <<reply, responses, nextReq, req, msg, inflight, wire>>
      BY <2>11, <3>2, <3>3 DEF WaitForLink
    <3> QED BY <2>0, <3>1, <3>4, ExchangesKept
  <2> QED BY <1>1, <2>1, <2>2, <2>3, <2>4, <2>5, <2>6, <2>7, <2>8, <2>9, <2>10, <2>11
<1>2. ASSUME NEW g \in Readers,
             ReaderStart(g) \/ ReaderMark(g) \/ ReaderTop(g) \/ ReaderRead(g)
      PROVE  Exchanges'
  <2>1. /\ \E l \in ReaderPCs \ {"process"} : pc' = [pc EXCEPT ![g] = l]
        /\ UNCHANGED <<reply, responses, nextReq, req, msg, inflight, wire>>
    BY <1>2 DEF ReaderStart, ReaderMark, ReaderTop, ReaderRead, ReaderPCs
  <2> QED BY <1>0, <2>1, ExchangesKept
<1>3. CASE UNCHANGED vars
  BY <1>3, ExchangesKept DEF vars
<1> QED BY <1>1, <1>2, <1>3

\* Every step keeps the exchanges apart.
LEMMA ExchangesNext ==
    ASSUME NothingFails, ConnectsAlone, PhaseInv, Exchanges, LockInv, CallInv,
           AnswerInv, [Next]_vars
    PROVE  Exchanges'
<1>1. ASSUME NEW a \in Apps, HealthyApp(a) PROVE Exchanges'
  BY <1>1, ExchangesRequest, ExchangesElsewhere DEF HealthyApp
<1>2. ASSUME NEW g \in Readers, HealthyReader(g) PROVE Exchanges'
  BY <1>2, ExchangesAnswer, ExchangesElsewhere DEF HealthyReader
<1>3. CASE HealthyServer
  BY <1>3, ExchangesAnswer, ExchangesPing DEF HealthyServer
<1>4. CASE UNCHANGED vars
  BY <1>4, ExchangesElsewhere
<1> QED BY <1>1, <1>2, <1>3, <1>4, HealthySteps

\* The healthy invariant, together with those above and the types.
HealthInv ==
    LockInv /\ CallInv /\ AnswerInv /\ RestType /\ PhaseInv /\ Exchanges

\* It holds in every state, as long as no two goroutines open the connection
\* at once.
LEMMA HealthAlways ==
    ASSUME NothingFails PROVE Spec /\ []ConnectsAlone => []HealthInv
<1>1. Init => HealthInv
  BY LockInit, CallInit, AnswerInit, RestInit, HealthInit DEF HealthInv
<1>2. HealthInv /\ ConnectsAlone /\ ConnectsAlone' /\ [Next]_vars => HealthInv'
  BY LockNext, CallNext, AnswerNext, RestNext, PhaseNext, ExchangesNext
     DEF HealthInv, LockInv
<1> QED BY <1>1, <1>2, PTL DEF Spec

\* While nothing fails, a request in the hands of the server, or its answer
\* on the wire, belongs to the one goroutine that holds sendLock in
\* SendRequest: the exchanges of a channel follow one another.
THEOREM OneExchangeAtATime ==
    ASSUME NothingFails PROVE Spec /\ []ConnectsAlone => []OneOutstanding
<1>1. HealthInv => OneOutstanding
  BY ProcsAssumption DEF HealthInv, Exchanges, Awaited, OneOutstanding,
     LockInv, LockDiscipline, InSendLock, SendLockPCs, Procs
<1> QED BY <1>1, HealthAlways, PTL

\* While nothing fails but the writing of requests, the responses map holds no
\* request whose SendRequest has returned.
THEOREM NothingLeaks ==
    ASSUME NothingFails PROVE Spec /\ []ConnectsAlone => []NoLeakedResponse
<1>1. HealthInv => NoLeakedResponse
  BY DEF HealthInv, Exchanges, ResponsesKept, NoLeakedResponse
<1> QED BY <1>1, HealthAlways, PTL

\* While nothing fails, the map is safe without a lock of its own: a reader
\* looks up a response only while the goroutine that waits for it holds
\* sendLock, and it is under sendLock that requesters change the map.
THEOREM MapIsNotRaced ==
    ASSUME NothingFails PROVE Spec /\ []ConnectsAlone => []NoMapRace
<1>1. ASSUME HealthInv, NEW g \in Readers, NEW a \in Apps,
             pc[g] \in {"process", "notify"}
      PROVE  ~(pc[a] = "delete" \/ (pc[a] = "lock" /\ sendLock = None))
  <2>1. pc[g] = "process" /\ msg[g] \in ReqId /\ InReader(msg[g])
    BY <1>1 DEF HealthInv, PhaseInv, HealthyPCs, Exchanges, InReader
  <2>2. PICK b \in Apps : pc[b] = "await"
    BY <1>1, <2>1 DEF HealthInv, Exchanges, Awaited
  <2>3. sendLock = b /\ b # None
    BY <1>1, <2>2, ProcsAssumption DEF HealthInv, LockInv, LockDiscipline,
       InSendLock, SendLockPCs, Procs
  <2>4. pc[a] = "delete" => sendLock = a
    BY <1>1 DEF HealthInv, LockInv, LockDiscipline, InSendLock, SendLockPCs, Procs
  <2> QED BY <2>2, <2>3, <2>4
<1>2. HealthInv => NoMapRace
  BY <1>1 DEF NoMapRace
<1> QED BY <1>2, HealthAlways, PTL

\* A goroutine is inside Connect.
InConnect(a) == pc[a] \in {"connect"} \cup ConnectPCs

\* Nobody is inside Connect without having called it.
ConnectInv ==
    /\ connects = 0 => \A a \in Apps : ~InConnect(a)
    /\ connects <= 1 => \A a, b \in Apps : InConnect(a) /\ InConnect(b) => a = b

\* Only Connect itself lets a goroutine in.
LEMMA ConnectNext ==
    ASSUME LockInv, RestType, ConnectInv, [Next]_vars PROVE ConnectInv'
<1> USE ProcsAssumption
    DEF InConnect, ConnectPCs, Procs, Goto, GotoAndSpawn, countVars, Event
<1>0. /\ pc \in [Procs -> AppPCs \cup ReaderPCs \cup ConnectPCs]
      /\ connects \in Nat
      /\ \A p \in Procs : nested[p] => pc[p] \in ConnectPCs
  BY BoundsAssumption DEF LockInv, PCTypeOK, RestType
<1>1. ASSUME connects' = connects, \A a \in Apps : InConnect(a)' => InConnect(a)
      PROVE  ConnectInv'
  BY <1>1 DEF ConnectInv
<1>2. ASSUME NEW a \in Apps, Connect(a) PROVE ConnectInv'
  <2>1. connects' = connects + 1 /\ pc' = [pc EXCEPT ![a] = "connect"]
    BY <1>2 DEF Connect
  <2> QED BY <1>0, <2>1 DEF ConnectInv
<1>3. ASSUME NEW a \in Apps, AppStep(a) PROVE ConnectInv'
  <2>1. connects' = connects
    BY <1>3 DEF AppStep, CheckConnected, SendOk, SendFailed, WaitForLink, Await,
       TakeReply, ChannelConnect, ChannelStart, ClearRunning, StopSent,
       StopSendFailed, StopClose
  <2>2. \A b \in Apps : InConnect(b)' => InConnect(b)
    BY <1>0, <1>3 DEF AppStep, CheckConnected, SendOk, SendFailed, WaitForLink,
       Await, TakeReply, ChannelConnect, ChannelStart, ClearRunning, StopSent,
       StopSendFailed, StopClose
  <2> QED BY <1>1, <2>1, <2>2
<1>4. ASSUME NEW a \in Apps, AppLocks(a) PROVE ConnectInv'
  BY <1>0, <1>1, <1>4 DEF AppLocks, LockAndRegister, LockException,
     ChannelDisConnect, StopSkipped, StopReader
<1>5. ASSUME NEW a \in Apps, AppCalls(a), ~Connect(a) PROVE ConnectInv'
  BY <1>0, <1>1, <1>5 DEF AppCalls, SendRequest, SendMessage, Disconnect, ForceStop
<1>6. ASSUME NEW p \in Procs, ConnectStep(p) PROVE ConnectInv'
  <2>1. connects' = connects
    BY <1>6 DEF ConnectStep, Reconnect, CreateSocket, CreateSocketFailed,
       RequestReplySend, RequestReplySendFailed, RequestReplyRead,
       HandshakeRefused, RequestReplyReadFailed, RequestReplyNoMessage,
       OnConnectFailed, TryConnectOk, TryConnectFailed
  <2>2. pc[p] \in ConnectPCs /\ \A b \in Apps : b # p => pc'[b] = pc[b]
    <3>1. /\ pc[p] \in ConnectPCs
          /\ \E l : pc' = [pc EXCEPT ![p] = l]
      BY <1>6 DEF ConnectStep, Reconnect, CreateSocket, CreateSocketFailed,
         RequestReplySend, RequestReplySendFailed, RequestReplyRead,
         HandshakeRefused, RequestReplyReadFailed, RequestReplyNoMessage,
         OnConnectFailed, TryConnectOk, TryConnectFailed, EndHandler, NextAttempt
    <3> QED BY <1>0, <3>1
  <2> QED BY <1>1, <2>1, <2>2
<1>7. ASSUME NEW p \in Procs, ConnectLocks(p) PROVE ConnectInv'
  BY <1>0, <1>1, <1>7 DEF ConnectLocks, RequestReplyLock, RequestReplyHandle
<1>8. ASSUME NEW g \in Readers, ReaderStep(g) PROVE ConnectInv'
  <2>1. connects' = connects
    BY <1>8 DEF ReaderStep, ReaderStart, ReaderMark, ReaderTop, ReaderRead,
       ReaderGets, ReaderReadFailed, ProcessMessage, ReaderError, NotifyOne,
       NotifyDone, ReaderExit
  <2>2. pc' = pc \/ \E l : pc' = [pc EXCEPT ![g] = l]
    BY <1>8 DEF ReaderStep, ReaderStart, ReaderMark, ReaderTop, ReaderRead,
       ReaderGets, ReaderReadFailed, ProcessMessage, ReaderError, NotifyOne,
       NotifyDone, ReaderExit
  <2> QED BY <1>0, <1>1, <2>1, <2>2
<1>9. ASSUME NEW g \in Readers, ReaderLocks(g) PROVE ConnectInv'
  BY <1>0, <1>1, <1>9 DEF ReaderLocks, ReaderHandle, ReaderTerminated
<1>10. CASE Environment
  BY <1>1, <1>10 DEF Environment, Answer, ServerSends, PeerGone
<1>11. CASE UNCHANGED vars
  BY <1>1, <1>11 DEF vars
<1> QED BY <1>2, <1>3, <1>4, <1>5, <1>6, <1>7, <1>8, <1>9, <1>10, <1>11
        DEF Next

\* A program that calls Connect once connects alone, whatever fails.
THEOREM OneConnectIsAlone == MaxConnects <= 1 => (Spec => []ConnectsAlone)
<1> SUFFICES ASSUME MaxConnects <= 1 PROVE Spec => []ConnectsAlone
  OBVIOUS
<1> DEFINE Inv == LockInv /\ CallInv /\ AnswerInv /\ RestType /\ ConnectInv
<1>1. Init => Inv
  <2>1. Init => ConnectInv
    BY ProcsAssumption DEF Init, ConnectInv, InConnect, ConnectPCs, Procs
  <2> QED BY <2>1, LockInit, CallInit, AnswerInit, RestInit
<1>2. Inv /\ [Next]_vars => Inv'
  BY LockNext, CallNext, AnswerNext, RestNext, ConnectNext DEF LockInv
<1>3. Inv => ConnectsAlone
  <2>1. RestType => connects <= 1
    BY BoundsAssumption DEF RestType
  <2> QED BY <2>1 DEF ConnectInv, ConnectsAlone, Connecting, InConnect, ConnectPCs
<1> HIDE DEF Inv
<1> QED BY <1>1, <1>2, <1>3, PTL DEF Spec
=============================================================================
