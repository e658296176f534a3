-------------------------- MODULE ConnectionCount --------------------------
(***************************************************************************)
(* How the Go client counts the connections of its channels, to know when  *)
(* a channel may be closed (channelConnect, channelDisConnect, channelStop *)
(* of client/goAPI/channel/AbstractChannel.go).                            *)
(*                                                                         *)
(* The connections of a pool share a channel, and a process may have       *)
(* several pools.  Every channel has its own numOfConnections; it is set   *)
(* from the one counter ConnectionsToChannel of the process.  The socket,  *)
(* the reader and the faults of the network are left to module Channel:    *)
(* here a channel is connected or not.                                     *)
(***************************************************************************)
EXTENDS Integers, FiniteSets

CONSTANTS
    Chans,    \* the channels of the process
    Conns,    \* the connections, each used by a goroutine of its own
    None      \* no connection: the value of a free lock

ASSUME CountAssumption == None \notin Conns /\ IsFiniteSet(Conns)

VARIABLES
    chanOf,      \* the channel of a connection, for ever
    overlap,     \* do two connections ever make calls at the same time?
    counter,     \* ConnectionsToChannel
    num,         \* numOfConnections of each channel
    linkUp,      \* the channel is connected
    sendLock,    \* the connection whose goroutine holds the channel's sendLock
    open,        \* the connections whose Connect has succeeded and whose
                 \* Disconnect has not begun
    paired,      \* history: no open connection has been connected again, and
                 \* none disconnected that was not open
    pc,
    sum          \* what a goroutine's AddInt32 returned

vars == <<chanOf, overlap, counter, num, linkUp, sendLock, open, paired, pc,
          sum>>

PCs == {"idle", "addOne", "setNum", "start", "subtract", "setNumLocked",
        "stop"}

Init ==
    /\ chanOf \in [Conns -> Chans] /\ overlap \in BOOLEAN
    /\ counter = 0
    /\ num = [ch \in Chans |-> 0]
    /\ linkUp = [ch \in Chans |-> FALSE]
    /\ sendLock = [ch \in Chans |-> None]
    /\ open = {} /\ paired = TRUE
    /\ pc = [c \in Conns |-> "idle"]
    /\ sum = [c \in Conns |-> 0]

Goto(c, l) == pc' = [pc EXCEPT ![c] = l]
MayCall(c) == pc[c] = "idle" /\ (overlap \/ \A d \in Conns : pc[d] = "idle")
Unlocked(c) == sendLock[chanOf[c]] = None

\* SetNoOfConnections with the sum that AddInt32 returned.
Store(c) ==
    /\ num' = [num EXCEPT ![chanOf[c]] = sum[c]]
    /\ sum' = [sum EXCEPT ![c] = 0]

-----------------------------------------------------------------------------
(* Connect: no lock is held; an attempt that finds no server changes       *)
(* nothing here                                                            *)

\* Nothing keeps an open connection from being connected again.
Connect(c) ==
    /\ MayCall(c)
    /\ paired' = IF c \in open THEN FALSE ELSE paired
    /\ linkUp' = [linkUp EXCEPT ![chanOf[c]] = TRUE]
    /\ Goto(c, "addOne")
    /\ UNCHANGED <<counter, num, sendLock, open, sum>>

\* Mutant: the sum before the addition.
AddOneLate(c) ==
    /\ pc[c] = "addOne"
    /\ counter' = counter + 1 /\ sum' = [sum EXCEPT ![c] = counter]
    /\ Goto(c, "setNum")
    /\ UNCHANGED <<num, linkUp, sendLock, open, paired>>

\* Mutant: only the connection that connects the channel counts.
AddOneOnce(c) ==
    /\ pc[c] = "addOne"
    /\ counter' = IF num[chanOf[c]] = 0 THEN counter + 1 ELSE counter
    /\ sum' = [sum EXCEPT ![c] = counter']
    /\ Goto(c, "setNum")
    /\ UNCHANGED <<num, linkUp, sendLock, open, paired>>

\* The sum that AddInt32 returns is stored by a statement of its own.
AddOne(c) ==
    /\ pc[c] = "addOne"
    /\ counter' = counter + 1 /\ sum' = [sum EXCEPT ![c] = counter']
    /\ Goto(c, "setNum")
    /\ UNCHANGED <<num, linkUp, sendLock, open, paired>>

StoreAfterConnect(c) ==
    /\ pc[c] = "setNum"
    /\ Store(c)
    /\ Goto(c, "start")
    /\ UNCHANGED <<counter, linkUp, sendLock, open, paired>>

\* channelStart: an error if the channel has been closed in the meantime.
Start(c) ==
    /\ pc[c] = "start"
    /\ open' = IF linkUp[chanOf[c]] THEN open \cup {c} ELSE open
    /\ Goto(c, "idle")
    /\ UNCHANGED <<counter, num, linkUp, sendLock, paired, sum>>

-----------------------------------------------------------------------------
(* Disconnect: channelDisConnect and then Stop(false), each under sendLock *)

\* A channel that is not connected or has no connections is left as it is.
\* Whether c has been connected is not looked at: Disconnect of a pool calls
\* this for all connections of the pool, Connect for one at most.
Disconnect(c) ==
    /\ MayCall(c) /\ Unlocked(c)
    /\ open' = open \ {c}
    /\ paired' = IF c \in open THEN paired ELSE FALSE
    /\ IF linkUp[chanOf[c]] /\ num[chanOf[c]] # 0
         THEN /\ sendLock' = [sendLock EXCEPT ![chanOf[c]] = c]
              /\ Goto(c, "subtract")
         ELSE Goto(c, "stop") /\ UNCHANGED sendLock
    /\ UNCHANGED <<counter, num, linkUp, sum>>

Subtract(c) ==
    /\ pc[c] = "subtract"
    /\ counter' = counter - 1 /\ sum' = [sum EXCEPT ![c] = counter']
    /\ Goto(c, "setNumLocked")
    /\ UNCHANGED <<num, linkUp, sendLock, open, paired>>

StoreAfterDisconnect(c) ==
    /\ pc[c] = "setNumLocked"
    /\ Store(c)
    /\ sendLock' = [sendLock EXCEPT ![chanOf[c]] = None]
    /\ Goto(c, "stop")
    /\ UNCHANGED <<counter, linkUp, open, paired>>

\* Mutant: the last but one connection stops the channel.
StopEarly(c) ==
    /\ pc[c] = "stop" /\ Unlocked(c)
    /\ linkUp' = [linkUp EXCEPT ![chanOf[c]] = @ /\ num[chanOf[c]] > 1]
    /\ Goto(c, "idle")
    /\ UNCHANGED <<counter, num, sendLock, open, paired, sum>>

\* channelStop(false) closes a connected channel that has no connections.
Stop(c) ==
    /\ pc[c] = "stop" /\ Unlocked(c)
    /\ linkUp' = [linkUp EXCEPT ![chanOf[c]] = @ /\ num[chanOf[c]] # 0]
    /\ Goto(c, "idle")
    /\ UNCHANGED <<counter, num, sendLock, open, paired, sum>>

-----------------------------------------------------------------------------
Next ==
    /\ \E c \in Conns :
          \/ Connect(c) \/ AddOne(c) \/ StoreAfterConnect(c) \/ Start(c)
          \/ Disconnect(c) \/ Subtract(c) \/ StoreAfterDisconnect(c) \/ Stop(c)
    /\ UNCHANGED <<chanOf, overlap>>

Spec == Init /\ [][Next]_vars

-----------------------------------------------------------------------------
(* Properties *)

OpenOn(ch) == {c \in open : chanOf[c] = ch}
Quiet == \A c \in Conns : pc[c] = "idle"
OneChannel == \A c, d \in Conns : chanOf[c] = chanOf[d]

\* The counter of the process covers the connections that are open, however
\* their calls overlap: no Disconnect gives up a share that is not its own,
\* as long as connections are connected and disconnected in turn.
CounterCoversOpen ==
    paired => counter >= Cardinality(open \cup {c \in Conns : pc[c] = "subtract"})

\* As long as calls do not overlap either, a channel is not closed while one
\* of its connections is open, on whatever channel others connect and
\* disconnect: the counter of the process covers the channel's own.
NeverCutOff == paired /\ ~overlap => \A c \in open : linkUp[chanOf[c]]

\* In a process with one channel whose calls do not overlap, a channel has
\* connections (GetNoOfConnections, TGChannel.go:188) exactly while it is
\* connected, though connections be disconnected again and again that are
\* not open; and as many as are open, if connected and disconnected in turn.
NumberOfConnections ==
    ~overlap /\ OneChannel /\ Quiet
        => \A c \in Conns : LET ch == chanOf[c] IN
              /\ linkUp[ch] <=> num[ch] > 0
              /\ paired => num[ch] = Cardinality(OpenOn(ch))
=============================================================================
