--------------------------- MODULE ConnectionPool ---------------------------
(***************************************************************************)
(* The connection pool of the Go client                                    *)
(* (client/goAPI/connection/ConnectionPoolImpl.go): goroutines that get    *)
(* connections from it, run operations on them and release them, while     *)
(* others connect and disconnect the pool.                                 *)
(*                                                                         *)
(* All connections of a pool share one channel: useDedicateChannel is read *)
(* from the default of its property, which is false.  The channel is what  *)
(* module Channel describes; here it is up or down.                        *)
(***************************************************************************)
EXTENDS RWMutex, Integers, Sequences, FiniteSets

CONSTANTS
    Conns,        \* the connections the constructor makes, by their ids
    PoolSize,     \* poolSize
    Decrypts,     \* operations may read encrypted attributes
    MaxConnects   \* bound: calls of the pool's Connect in a behaviour

ASSUME PoolAssumption ==
    /\ None \notin Procs
    /\ Conns \subseteq Nat \ {0} /\ IsFiniteSet(Conns)
    /\ PoolSize \in Nat \ {0} /\ Cardinality(Conns) <= PoolSize
    /\ Decrypts \in BOOLEAN /\ MaxConnects \in Nat

PoolStates == {"Initialized", "Connecting", "Connected", "Disconnecting",
               "Disconnected"}

\* Connect compares the key of a consumer, which is a connection id, with
\* the pool states Connecting, Connected, InUse and Disconnecting.
SkippedKeys == 1 .. 4

Capacity == PoolSize + 2   \* cap(chanPool)

VARIABLES
    connList,    \* the connections that could be made
    poolState,
    chanPool,    \* the idle connections, a buffered Go channel
    consumers,   \* the keys of the consumers map
    linkUp,      \* the shared channel is connected
    num,         \* its numOfConnections
    pc,
    arg,         \* the connection a goroutine is getting or releasing
    left,        \* connections that Disconnect's loop has still to visit
    lease,       \* the connections a goroutine has got and not released
    connects     \* the counter MaxConnects caps

poolVars == <<poolState, chanPool, consumers>>
linkVars == <<linkUp, num, connects>>
vars == <<connList, rwVars, poolVars, linkVars, lease, pc, arg, left>>

PCs == {"idle", "getCall", "getLock", "getTake", "getAdd", "relLock",
        "relDelete", "relPush", "opLock", "op", "opAgain", "conLock",
        "conIter", "conEnd", "disLock", "disLoop"}

\* A connection in hand, or 0.
ConnOr0 == Conns \cup {0}

\* A connection is missing when its channel could not be created: the
\* constructor goes on with the next one.
Init ==
    /\ RWInit
    /\ poolState = "Initialized"
    /\ connList \in SUBSET Conns
    /\ chanPool \in {s \in [1 .. Cardinality(connList) -> connList] :
                        /\ \A c \in connList : \E i \in DOMAIN s : s[i] = c
                        /\ \A i, j \in DOMAIN s : i < j => s[i] < s[j]}
    /\ consumers = {}
    /\ linkUp = FALSE /\ num = 0 /\ connects = 0
    /\ pc = [p \in Procs |-> "idle"]
    /\ arg = [p \in Procs |-> 0]
    /\ left = [p \in Procs |-> 0]
    /\ lease = [p \in Procs |-> {}]

Goto(p, l) == pc' = [pc EXCEPT ![p] = l]
Take(p, c) == arg' = [arg EXCEPT ![p] = c]

-----------------------------------------------------------------------------
(* Get and GetConnection: under the write lock from beginning to end *)

GetCall(p) ==
    /\ pc[p] = "idle" /\ Goto(p, "getCall")
    /\ UNCHANGED <<rwVars, poolVars, linkVars, lease, arg, left>>

GetAnnounce(p) ==
    /\ pc[p] = "getCall" /\ Announce(p) /\ Goto(p, "getLock")
    /\ UNCHANGED <<poolVars, linkVars, lease, arg, left>>

\* Every connection is in use: an error, without waiting.
GetRefuse(p) ==
    /\ pc[p] = "getLock" /\ HasLock(p)
    /\ Cardinality(consumers) = PoolSize
    /\ Goto(p, "idle") /\ Unlock
    /\ UNCHANGED <<poolVars, linkVars, lease, arg, left>>

GetCheck(p) ==
    /\ pc[p] = "getLock" /\ HasLock(p)
    /\ Cardinality(consumers) # PoolSize
    /\ Goto(p, "getTake")
    /\ UNCHANGED <<rwVars, poolVars, linkVars, lease, arg, left>>

\* select: a connection is taken at once if there is one.
GetTake(p) ==
    /\ pc[p] = "getTake" /\ chanPool # <<>>
    /\ Take(p, Head(chanPool)) /\ chanPool' = Tail(chanPool)
    /\ Goto(p, "getAdd")
    /\ UNCHANGED <<rwVars, poolState, consumers, linkVars, lease, left>>

\* Mutant: the lock is kept after a time-out.
GetTimeoutKeepsLock(p) ==
    /\ pc[p] = "getTake" /\ chanPool = <<>>
    /\ Goto(p, "idle")
    /\ UNCHANGED <<rwVars, poolVars, linkVars, lease, arg, left>>

\* The wait for one ends with the time-out, for a release needs the lock.
GetTimeout(p) ==
    /\ pc[p] = "getTake" /\ chanPool = <<>>
    /\ Goto(p, "idle") /\ Unlock
    /\ UNCHANGED <<poolVars, linkVars, lease, arg, left>>

\* A connection that is in the map already is returned all the same.
GetAdd(p) ==
    /\ pc[p] = "getAdd"
    /\ consumers' = consumers \cup {arg[p]}
    /\ lease' = [lease EXCEPT ![p] = @ \cup {arg[p]}]
    /\ Take(p, 0) /\ Goto(p, "idle") /\ Unlock
    /\ UNCHANGED <<poolState, chanPool, linkVars, left>>

-----------------------------------------------------------------------------
(* ReleaseConnection: under the read lock *)

\* A goroutine releases what it has got, once.
ReleaseCall(p) ==
    /\ pc[p] = "idle"
    /\ \E c \in lease[p] :
        /\ Take(p, c)
        /\ lease' = [lease EXCEPT ![p] = @ \ {c}]
    /\ Goto(p, "relLock") /\ RLock(p)
    /\ UNCHANGED <<poolVars, linkVars, left>>

\* Mutant: the release does not wait for the lock.
ReleaseUnlocked(p) ==
    /\ pc[p] = "relLock"
    /\ Goto(p, "relDelete")
    /\ UNCHANGED <<rwVars, poolVars, linkVars, lease, arg, left>>

ReleaseLocked(p) ==
    /\ pc[p] = "relLock" /\ HasRLock(p)
    /\ Goto(p, "relDelete")
    /\ UNCHANGED <<rwVars, poolVars, linkVars, lease, arg, left>>

\* Mutants: the release leaves the map entry; it puts the connection back
\* once too often; it does not put it back.
ReleaseKeeps(p) ==
    /\ pc[p] = "relDelete"
    /\ Goto(p, "relPush")
    /\ UNCHANGED <<rwVars, poolVars, linkVars, lease, arg, left>>

ReleaseDeletePushes(p) ==
    /\ pc[p] = "relDelete" /\ Len(chanPool) < Capacity
    /\ consumers' = consumers \ {arg[p]}
    /\ chanPool' = Append(chanPool, arg[p])
    /\ Goto(p, "relPush")
    /\ UNCHANGED <<rwVars, poolState, linkVars, lease, arg, left>>

ReleaseDelete(p) ==
    /\ pc[p] = "relDelete"
    /\ consumers' = consumers \ {arg[p]}
    /\ Goto(p, "relPush")
    /\ UNCHANGED <<rwVars, poolState, chanPool, linkVars, lease, arg, left>>

ReleaseDrops(p) ==
    /\ pc[p] = "relPush" /\ Len(chanPool) < Capacity
    /\ Take(p, 0) /\ Goto(p, "idle") /\ RUnlock(p)
    /\ UNCHANGED <<poolVars, linkVars, lease, left>>

\* Blocks while the Go channel is full.
ReleasePush(p) ==
    /\ pc[p] = "relPush" /\ Len(chanPool) < Capacity
    /\ chanPool' = Append(chanPool, arg[p])
    /\ Take(p, 0) /\ Goto(p, "idle") /\ RUnlock(p)
    /\ UNCHANGED <<poolState, consumers, linkVars, lease, left>>

-----------------------------------------------------------------------------
(* An operation on a connection (Commit, GetEntity, ExecuteQuery, ...)     *)
(* holds the pool's read lock while its request is under way.              *)

OperationCall(p) ==
    /\ pc[p] = "idle" /\ lease[p] # {}
    /\ Goto(p, "opLock") /\ RLock(p)
    /\ UNCHANGED <<poolVars, linkVars, lease, arg, left>>

OperationLocked(p) ==
    /\ pc[p] = "opLock" /\ HasRLock(p)
    /\ Goto(p, "op")
    /\ UNCHANGED <<rwVars, poolVars, linkVars, lease, arg, left>>

\* An encrypted attribute of the result is decrypted by the server: the
\* goroutine takes the read lock, which it holds, a second time.  RLock
\* blocks if a writer has announced itself, and the writer waits for p.
OperationAgain(p) ==
    /\ Decrypts
    /\ pc[p] = "op" /\ Goto(p, "opAgain")
    /\ UNCHANGED <<rwVars, poolVars, linkVars, lease, arg, left>>

OperationAgainEnd(p) ==
    /\ pc[p] = "opAgain" /\ CanRLockAgain(p)
    /\ Goto(p, "op")
    /\ UNCHANGED <<rwVars, poolVars, linkVars, lease, arg, left>>

OperationEnd(p) ==
    /\ pc[p] = "op"
    /\ Goto(p, "idle") /\ RUnlock(p)
    /\ UNCHANGED <<poolVars, linkVars, lease, arg, left>>

-----------------------------------------------------------------------------
(* Connect and Disconnect of the pool: under the read lock *)

ConnectCall(p) ==
    /\ pc[p] = "idle" /\ connects < MaxConnects
    /\ connects' = connects + 1
    /\ Goto(p, "conLock") /\ RLock(p)
    /\ UNCHANGED <<poolVars, linkUp, num, lease, arg, left>>

ConnectCheck(p) ==
    /\ pc[p] = "conLock" /\ HasRLock(p)
    /\ IF poolState = "Connected"
         THEN Goto(p, "idle") /\ RUnlock(p) /\ UNCHANGED poolState
         ELSE Goto(p, "conIter") /\ poolState' = "Connecting"
              /\ UNCHANGED rwVars
    /\ UNCHANGED <<chanPool, consumers, linkVars, lease, arg, left>>

\* The first consumer that is not skipped is connected, in the order in
\* which Go happens to visit the map; nobody, if there is none.
ConnectConsumer(p) ==
    /\ pc[p] = "conIter"
    /\ IF consumers \subseteq SkippedKeys
         THEN Goto(p, "conEnd") /\ UNCHANGED <<linkUp, num>>
         ELSE Goto(p, "conEnd") /\ linkUp' = TRUE /\ num' = num + 1
    /\ UNCHANGED <<rwVars, poolVars, connects, lease, arg, left>>

\* The channel cannot be connected: Connect returns the error and leaves
\* the pool's state as it is.
ConnectFails(p) ==
    /\ pc[p] = "conIter"
    /\ ~(consumers \subseteq SkippedKeys) /\ ~linkUp
    /\ Goto(p, "idle") /\ RUnlock(p)
    /\ UNCHANGED <<poolVars, linkVars, lease, arg, left>>

ConnectEnd(p) ==
    /\ pc[p] = "conEnd"
    /\ poolState' = "Connected"
    /\ Goto(p, "idle") /\ RUnlock(p)
    /\ UNCHANGED <<chanPool, consumers, linkVars, lease, arg, left>>

DisconnectCall(p) ==
    /\ pc[p] = "idle" /\ Goto(p, "disLock") /\ RLock(p)
    /\ UNCHANGED <<poolVars, linkVars, lease, arg, left>>

DisconnectCheck(p) ==
    /\ pc[p] = "disLock" /\ HasRLock(p)
    /\ IF poolState # "Connected"
         THEN Goto(p, "idle") /\ RUnlock(p) /\ UNCHANGED <<poolState, left>>
         ELSE /\ Goto(p, "disLoop") /\ poolState' = "Disconnecting"
              /\ left' = [left EXCEPT ![p] = Cardinality(connList)]
              /\ UNCHANGED rwVars
    /\ UNCHANGED <<chanPool, consumers, linkVars, lease, arg>>

\* Disconnect of one connection: it gives up its share of the channel, if
\* the channel is connected and has a share to give, and stops the channel
\* when no share is left.
DisconnectOne(p) ==
    /\ pc[p] = "disLoop" /\ left[p] > 0
    /\ left' = [left EXCEPT ![p] = @ - 1]
    /\ num' = IF linkUp /\ num > 0 THEN num - 1 ELSE num
    /\ linkUp' = (linkUp /\ num' # 0)
    /\ UNCHANGED <<rwVars, poolVars, connects, lease, pc, arg>>

DisconnectEnd(p) ==
    /\ pc[p] = "disLoop" /\ left[p] = 0
    /\ poolState' = "Disconnected"
    /\ Goto(p, "idle") /\ RUnlock(p)
    /\ UNCHANGED <<chanPool, consumers, linkVars, lease, arg, left>>

-----------------------------------------------------------------------------
Call(p) ==
    /\ \/ GetCall(p) \/ ReleaseCall(p) \/ OperationCall(p) \/ OperationAgain(p)
       \/ ConnectCall(p) \/ DisconnectCall(p)
    /\ UNCHANGED connList

Announced(p) == GetAnnounce(p) /\ UNCHANGED connList

Step(p) ==
    /\ \/ GetRefuse(p) \/ GetCheck(p) \/ GetTake(p) \/ GetTimeout(p)
       \/ GetAdd(p)
       \/ ReleaseLocked(p) \/ ReleaseDelete(p) \/ ReleasePush(p)
       \/ OperationLocked(p) \/ OperationAgainEnd(p) \/ OperationEnd(p)
       \/ ConnectCheck(p) \/ ConnectConsumer(p) \/ ConnectFails(p)
       \/ ConnectEnd(p)
       \/ DisconnectCheck(p) \/ DisconnectOne(p) \/ DisconnectEnd(p)
    /\ UNCHANGED connList

Next == \E p \in Procs : Call(p) \/ Announced(p) \/ Step(p)

Spec == Init /\ [][Next]_vars

\* A goroutine that can go on does; an operation comes back; a Lock that
\* is free again and again is got in the end (Go's mutexes hand themselves
\* over to a starving goroutine).  The application calls what it likes.
FairSpec ==
    Spec /\ \A p \in Procs : WF_vars(Step(p)) /\ SF_vars(Announced(p))

-----------------------------------------------------------------------------
(* Properties *)

\* While Get looks at the pool and takes a connection out of it, nobody
\* releases a connection or reads the consumers map: the write lock keeps
\* the readers of adminLock out.
GetAlone ==
    \A p, q \in Procs :
        pc[p] \in {"getTake", "getAdd"} /\ q # p
            => pc[q] \notin {"getTake", "getAdd", "relDelete", "relPush",
                             "conIter", "op", "opAgain"}

\* Where a connection is: idle in the Go channel, or in a goroutine's hands
\* between the channel and the map, or in the consumers map.
Idle(c) == \E i \in DOMAIN chanPool : chanPool[i] = c
Carries(p, c) == pc[p] \in {"getAdd", "relPush"} /\ arg[p] = c
InHand(c) == \E p \in Procs : Carries(p, c)

\* No connection is lost or duplicated: every connection of the pool is in
\* one place.
OnePlace ==
    /\ \A c \in connList : Idle(c) \/ InHand(c) \/ c \in consumers
    /\ \A c \in Conns : Idle(c) => ~InHand(c) /\ c \notin consumers
    /\ \A c \in Conns : InHand(c) => c \notin consumers
    /\ \A i, j \in DOMAIN chanPool : chanPool[i] = chanPool[j] => i = j
    /\ \A p, q \in Procs, c \in Conns : Carries(p, c) /\ Carries(q, c) => p = q

\* "A connection that is NOT being used" (ConnectionPoolImpl.go:185): Get
\* returns without a connection only when none is idle, although it decides
\* by the size of the consumers map.
RefusedOnlyWhenBusy ==
    [][\A p \in Procs :
          pc[p] \in {"getLock", "getTake"} /\ pc'[p] = "idle"
              => chanPool = <<>>]_vars

\* Every call of the pool and every operation returns, if no operation reads
\* an encrypted attribute.
NobodyDecrypts == \A p \in Procs : pc[p] # "opAgain"
PoolCallsReturn ==
    []NobodyDecrypts => \A p \in Procs : pc[p] # "idle" ~> pc[p] = "idle"

\* "GetConnection returns an available connection from the pool that is NOT
\* being used or nil if timeout elapses" (ConnectionPoolImpl.go:185): Get
\* returns.
GetReturns == \A p \in Procs : pc[p] = "getLock" ~> pc[p] = "idle"

\* The connections are lent as module Leases says: no connection is lent to
\* a goroutine while another one has it.
Lent == INSTANCE Leases WITH
    holder <- [c \in Conns |-> IF \E p \in Procs : c \in lease[p]
                                 THEN CHOOSE p \in Procs : c \in lease[p]
                                 ELSE None]
LeasesSpec == Lent!Spec
=============================================================================
