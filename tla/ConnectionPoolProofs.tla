----------------------- MODULE ConnectionPoolProofs -----------------------
(***************************************************************************)
(* Proofs about ConnectionPool: Get is alone in the pool, no connection is *)
(* lost, and the pool lends its connections as module Leases says.         *)
(*                                                                         *)
(* The inductive invariant has two parts.  LockShape says which program    *)
(* counters hold or wait for adminLock.  Places says where a connection    *)
(* is: its parts beyond OnePlace tie the leases of the goroutines to the   *)
(* consumers map, for a step that lends a connection takes it from the Go  *)
(* channel and never looks at what others have been lent.                  *)
(***************************************************************************)
EXTENDS ConnectionPool, FiniteSetTheorems, TLAPS

WaitPCs == {"relLock", "opLock", "conLock", "disLock"}
ReadPCs == {"relDelete", "relPush", "op", "opAgain", "conIter", "conEnd",
            "disLoop"}
GetPCs  == {"getTake", "getAdd"}

PoolType ==
    /\ pc \in [Procs -> PCs]
    /\ arg \in [Procs -> ConnOr0]
    /\ lease \in [Procs -> SUBSET Conns]
    /\ connList \subseteq Conns /\ consumers \subseteq Conns
    /\ chanPool \in Seq(Conns)

LockShape ==
    /\ RWTypeOK
    /\ readers \cap waiting = {}
    /\ \A p \in Procs :
        /\ pc[p] \in GetPCs \cup {"getLock"} => writer = p
        /\ pc[p] \in GetPCs => readers = {}
        /\ p \in readers => pc[p] \in WaitPCs \cup ReadPCs
        /\ p \in waiting => pc[p] \in WaitPCs
        /\ pc[p] \in ReadPCs => p \in readers

\* No connection is lent twice.
OneHolder ==
    \A p, q \in Procs : p # q => lease[p] \cap lease[q] = {}

\* A goroutine that releases a connection has given up its lease, and the
\* connection is in the map until it is deleted from it.
Returns(p, c) == pc[p] \in {"relLock", "relDelete"} /\ arg[p] = c

Places ==
    /\ OnePlace
    /\ \A p \in Procs : lease[p] \subseteq consumers
    /\ OneHolder
    /\ \A p, q \in Procs, c \in Conns :
        /\ Returns(p, c) => c \in consumers /\ c \notin lease[q]
        /\ Returns(p, c) /\ Returns(q, c) => p = q
    /\ \A p \in Procs :
        pc[p] \in {"getAdd", "relPush", "relLock", "relDelete"}
            => arg[p] \in Conns

PoolInv == PoolType /\ LockShape /\ Places

-----------------------------------------------------------------------------
(* The Go channel as a sequence *)

\* What is left in the Go channel after its head was taken.
LEMMA ChannelTake ==
    ASSUME NEW S, NEW s \in Seq(S), s # <<>>
    PROVE  /\ Tail(s) \in Seq(S) /\ Head(s) \in S
           /\ Len(s) \in Nat /\ Len(Tail(s)) = Len(s) - 1
           /\ Head(s) = s[1] /\ 1 \in DOMAIN s
           /\ DOMAIN s = 1 .. Len(s)
           /\ DOMAIN Tail(s) = 1 .. (Len(s) - 1)
           /\ \A i \in DOMAIN Tail(s) : Tail(s)[i] = s[i + 1]
<1>1. Len(s) \in Nat /\ Len(s) > 0 /\ DOMAIN s = 1 .. Len(s)
  OBVIOUS
<1>2. Tail(s) \in Seq(S) /\ Len(Tail(s)) = Len(s) - 1
  OBVIOUS
<1>3. DOMAIN Tail(s) = 1 .. (Len(s) - 1)
  BY <1>2
<1>4. \A i \in 1 .. (Len(s) - 1) : Tail(s)[i] = s[i + 1]
  OBVIOUS
<1> QED
  BY <1>1, <1>2, <1>3, <1>4

\* What is in the Go channel after an element was put into it.
LEMMA ChannelPut ==
    ASSUME NEW S, NEW s \in Seq(S), NEW e \in S
    PROVE  /\ Append(s, e) \in Seq(S)
           /\ Len(s) \in Nat
           /\ DOMAIN s = 1 .. Len(s)
           /\ DOMAIN Append(s, e) = 1 .. (Len(s) + 1)
           /\ \A i \in DOMAIN s : Append(s, e)[i] = s[i]
           /\ Append(s, e)[Len(s) + 1] = e
<1>1. Len(s) \in Nat /\ DOMAIN s = 1 .. Len(s)
  OBVIOUS
<1>2. Append(s, e) \in Seq(S) /\ Len(Append(s, e)) = Len(s) + 1
  OBVIOUS
<1>3. DOMAIN Append(s, e) = 1 .. (Len(s) + 1)
  BY <1>2
<1>4. \A i \in 1 .. Len(s) : Append(s, e)[i] = s[i]
  OBVIOUS
<1> QED
  BY <1>1, <1>2, <1>3, <1>4

-----------------------------------------------------------------------------
(* Locks *)

\* At first nobody holds or waits for adminLock.
LEMMA LockInit == Init => LockShape /\ pc \in [Procs -> PCs]
BY PoolAssumption DEF Init, RWInit, LockShape, RWTypeOK, PCs, WaitPCs, ReadPCs,
   GetPCs

\* Whatever goroutines call, adminLock is held by those whose program counter
\* says so: every branch of GetConnection unlocks, and RLock waits.
LEMMA LockNext ==
    ASSUME LockShape, pc \in [Procs -> PCs], [Next]_vars
    PROVE  LockShape' /\ pc' \in [Procs -> PCs]
<1> USE PoolAssumption
    DEF LockShape, RWTypeOK, PCs, WaitPCs, ReadPCs, GetPCs, Goto,
        rwVars, Announce, HasLock, Unlock, RLock, HasRLock, CanRLockAgain, RUnlock
<1>1. CASE UNCHANGED vars
  BY <1>1 DEF vars
<1>2. ASSUME NEW p \in Procs, Call(p) PROVE LockShape' /\ pc' \in [Procs -> PCs]
  <2>1. CASE GetCall(p)
    BY <2>1 DEF GetCall
  <2>2. CASE ReleaseCall(p)
    BY <2>2 DEF ReleaseCall
  <2>3. CASE OperationCall(p)
    BY <2>3 DEF OperationCall
  <2>6. CASE OperationAgain(p)
    BY <2>6 DEF OperationAgain
  <2>4. CASE ConnectCall(p)
    BY <2>4 DEF ConnectCall
  <2>5. CASE DisconnectCall(p)
    BY <2>5 DEF DisconnectCall
  <2> QED
    BY <1>2, <2>1, <2>2, <2>3, <2>4, <2>5, <2>6 DEF Call
<1>3. ASSUME NEW p \in Procs, Step(p) PROVE LockShape' /\ pc' \in [Procs -> PCs]
  <2>1. CASE GetRefuse(p)
    BY <2>1 DEF GetRefuse
  <2>2. CASE GetCheck(p)
    BY <2>2 DEF GetCheck
  <2>3. CASE GetTake(p)
    BY <2>3 DEF GetTake
  <2>4. CASE GetTimeout(p)
    BY <2>4 DEF GetTimeout
  <2>5. CASE GetAdd(p)
    BY <2>5 DEF GetAdd
  <2>6. CASE ReleaseLocked(p)
    BY <2>6 DEF ReleaseLocked
  <2>7. CASE ReleaseDelete(p)
    BY <2>7 DEF ReleaseDelete
  <2>8. CASE ReleasePush(p)
    BY <2>8 DEF ReleasePush
  <2>9. CASE OperationLocked(p)
    BY <2>9 DEF OperationLocked
  <2>10. CASE OperationEnd(p)
    BY <2>10 DEF OperationEnd
  <2>18. CASE OperationAgainEnd(p)
    BY <2>18 DEF OperationAgainEnd
  <2>11. CASE ConnectCheck(p)
    BY <2>11 DEF ConnectCheck
  <2>12. CASE ConnectConsumer(p)
    BY <2>12 DEF ConnectConsumer
  <2>13. CASE ConnectFails(p)
    BY <2>13 DEF ConnectFails
  <2>14. CASE ConnectEnd(p)
    BY <2>14 DEF ConnectEnd
  <2>15. CASE DisconnectCheck(p)
    BY <2>15 DEF DisconnectCheck
  <2>16. CASE DisconnectOne(p)
    BY <2>16 DEF DisconnectOne
  <2>17. CASE DisconnectEnd(p)
    BY <2>17 DEF DisconnectEnd
  <2> QED
    BY <1>3, <2>1, <2>2, <2>3, <2>4, <2>5, <2>6, <2>7, <2>8, <2>9, <2>10,
       <2>11, <2>12, <2>13, <2>14, <2>15, <2>16, <2>17, <2>18
    DEF Step
<1>4. ASSUME NEW p \in Procs, Announced(p)
      PROVE  LockShape' /\ pc' \in [Procs -> PCs]
  BY <1>4 DEF Announced, GetAnnounce
<1> QED
  BY <1>1, <1>2, <1>3, <1>4 DEF Next

-----------------------------------------------------------------------------
(* Connections *)

\* A step that moves no connection.
LEMMA PlacesQuiet ==
    ASSUME Places, UNCHANGED <<connList, chanPool, consumers, lease>>,
           connList \subseteq Conns,
           \A p \in Procs :
              pc'[p] \in {"getAdd", "relPush", "relLock", "relDelete"}
              \/ pc[p] \in {"getAdd", "relPush", "relLock", "relDelete"}
                => /\ arg'[p] = arg[p]
                   /\ pc'[p] \in {"getAdd", "relPush"}
                        <=> pc[p] \in {"getAdd", "relPush"}
                   /\ pc'[p] \in {"relLock", "relDelete"}
                        <=> pc[p] \in {"relLock", "relDelete"}
    PROVE  Places'
<1>1. /\ \A p \in Procs, c \in Conns : Carries(p, c)' <=> Carries(p, c)
      /\ \A p \in Procs, c \in Conns : Returns(p, c)' <=> Returns(p, c)
  BY DEF Carries, Returns
<1>2. \A c \in Conns : (InHand(c)' <=> InHand(c)) /\ (Idle(c)' <=> Idle(c))
  BY <1>1 DEF InHand, Idle
<1>3. OnePlace'
  BY <1>1, <1>2 DEF Places, OnePlace
<1> QED BY <1>1, <1>3 DEF Places, OneHolder

\* Get takes an idle connection into its hands.
LEMMA PlacesTake ==
    ASSUME PoolInv, NEW p \in Procs, GetTake(p), UNCHANGED connList
    PROVE  PoolType' /\ Places'
<1>0. connList' = connList /\ connList \subseteq Conns
  BY DEF PoolInv, PoolType
<1> DEFINE c == Head(chanPool)
<1>1. /\ pc[p] = "getTake" /\ pc' = [pc EXCEPT ![p] = "getAdd"]
      /\ arg' = [arg EXCEPT ![p] = c] /\ chanPool' = Tail(chanPool)
      /\ UNCHANGED <<consumers, lease>>
  BY DEF GetTake, Goto, Take
<1>2. /\ Tail(chanPool) \in Seq(Conns) /\ c \in Conns
      /\ Len(chanPool) \in Nat
      /\ c = chanPool[1] /\ 1 \in DOMAIN chanPool
      /\ DOMAIN chanPool = 1 .. Len(chanPool)
      /\ DOMAIN Tail(chanPool) = 1 .. (Len(chanPool) - 1)
      /\ \A i \in DOMAIN Tail(chanPool) : Tail(chanPool)[i] = chanPool[i + 1]
  BY ChannelTake DEF PoolInv, PoolType, GetTake
<1>3. PoolType'
  BY <1>1, <1>2 DEF PoolInv, PoolType, PCs, ConnOr0
<1>4. /\ pc \in [Procs -> PCs] /\ arg \in [Procs -> ConnOr0]
  BY DEF PoolInv, PoolType
<1>5. \A q \in Procs, d \in Conns :
        /\ Carries(q, d)' <=> IF q = p THEN d = c ELSE Carries(q, d)
        /\ Returns(q, d)' <=> Returns(q, d)
        /\ ~Carries(p, d)
  BY <1>1, <1>4 DEF Carries, Returns
<1>6. \A d \in Conns : InHand(d)' <=> d = c \/ InHand(d)
  BY <1>5 DEF InHand
<1>7. Idle(c)
  BY <1>2 DEF Idle
<1>8. \A d \in Conns : Idle(d)' => Idle(d) /\ d # c
  BY <1>1, <1>2 DEF Idle, PoolInv, Places, OnePlace
<1>9. \A d \in Conns : Idle(d) /\ d # c => Idle(d)'
  <2> SUFFICES ASSUME NEW d \in Conns, NEW i \in DOMAIN chanPool,
                      chanPool[i] = d, d # c
               PROVE  Idle(d)'
    BY DEF Idle
  <2>1. i \in 2 .. Len(chanPool)
    BY <1>2
  <2>2. i - 1 \in DOMAIN Tail(chanPool) /\ (i - 1) + 1 = i
    BY <1>2, <2>1
  <2> QED BY <1>1, <1>2, <2>2 DEF Idle
<1>10. \A i, j \in DOMAIN chanPool' : chanPool'[i] = chanPool'[j] => i = j
  <2> SUFFICES ASSUME NEW i \in DOMAIN Tail(chanPool),
                      NEW j \in DOMAIN Tail(chanPool),
                      Tail(chanPool)[i] = Tail(chanPool)[j]
               PROVE  i = j
    BY <1>1
  <2>1. /\ i + 1 \in DOMAIN chanPool /\ j + 1 \in DOMAIN chanPool
        /\ chanPool[i + 1] = chanPool[j + 1]
    BY <1>2
  <2>2. i + 1 = j + 1
    BY <2>1 DEF PoolInv, Places, OnePlace
  <2> QED BY <1>2, <2>2
<1>11. OnePlace'
  BY <1>0, <1>1, <1>5, <1>6, <1>7, <1>8, <1>9, <1>10 DEF PoolInv, Places, OnePlace, InHand
<1>12. arg'[p] \in Conns
  BY <1>1, <1>2, <1>4
<1> QED
  BY <1>1, <1>3, <1>4, <1>5, <1>11, <1>12 DEF PoolInv, Places, OneHolder

\* Get puts the connection in hand into the consumers map and lends it.
LEMMA PlacesAdd ==
    ASSUME PoolInv, NEW p \in Procs, GetAdd(p), UNCHANGED connList
    PROVE  PoolType' /\ Places'
<1>0. connList' = connList /\ connList \subseteq Conns
  BY DEF PoolInv, PoolType
<1> DEFINE c == arg[p]
<1>1. /\ pc[p] = "getAdd" /\ pc' = [pc EXCEPT ![p] = "idle"]
      /\ arg' = [arg EXCEPT ![p] = 0]
      /\ consumers' = consumers \cup {c}
      /\ lease' = [lease EXCEPT ![p] = @ \cup {c}]
      /\ UNCHANGED chanPool
  BY DEF GetAdd, Goto, Take
<1>2. /\ pc \in [Procs -> PCs] /\ arg \in [Procs -> ConnOr0]
      /\ lease \in [Procs -> SUBSET Conns] /\ c \in Conns
  BY <1>1 DEF PoolInv, PoolType, Places
<1>3. PoolType'
  BY <1>1, <1>2 DEF PoolInv, PoolType, PCs, ConnOr0
<1>4. /\ Carries(p, c) /\ InHand(c) /\ ~Idle(c) /\ c \notin consumers
      /\ \A q \in Procs : c \notin lease[q] /\ ~Returns(q, c)
  BY <1>1, <1>2 DEF Carries, InHand, PoolInv, Places, OnePlace
<1>5. \A q \in Procs, d \in Conns :
        /\ Carries(q, d)' <=> q # p /\ Carries(q, d)
        /\ Returns(q, d)' <=> Returns(q, d)
        /\ Carries(p, d) => d = c
  BY <1>1, <1>2 DEF Carries, Returns
<1>6. \A d \in Conns :
        /\ InHand(d)' <=> InHand(d) /\ d # c
        /\ Idle(d)' <=> Idle(d)
  BY <1>1, <1>4, <1>5 DEF InHand, Idle, PoolInv, Places, OnePlace
<1>7. OnePlace'
  BY <1>0, <1>1, <1>4, <1>5, <1>6 DEF PoolInv, Places, OnePlace
<1>8. OneHolder'
  BY <1>1, <1>2, <1>4 DEF PoolInv, Places, OneHolder
<1> QED
  BY <1>1, <1>2, <1>3, <1>4, <1>5, <1>7, <1>8 DEF PoolInv, Places

\* The call of ReleaseConnection ends a lease.
LEMMA PlacesReturn ==
    ASSUME PoolInv, NEW p \in Procs, ReleaseCall(p), UNCHANGED connList
    PROVE  PoolType' /\ Places'
<1>0. connList' = connList /\ connList \subseteq Conns
  BY DEF PoolInv, PoolType
<1>1. PICK c \in lease[p] :
        /\ pc[p] = "idle" /\ pc' = [pc EXCEPT ![p] = "relLock"]
        /\ arg' = [arg EXCEPT ![p] = c]
        /\ lease' = [lease EXCEPT ![p] = @ \ {c}]
        /\ UNCHANGED <<chanPool, consumers>>
  BY DEF ReleaseCall, Goto, Take, poolVars
<1>2. /\ pc \in [Procs -> PCs] /\ arg \in [Procs -> ConnOr0]
      /\ lease \in [Procs -> SUBSET Conns] /\ c \in Conns
  BY <1>1 DEF PoolInv, PoolType
<1>3. PoolType'
  BY <1>1, <1>2 DEF PoolInv, PoolType, PCs, ConnOr0
<1>4. /\ c \in consumers
      /\ \A q \in Procs : ~Returns(q, c) /\ (q # p => c \notin lease[q])
  BY <1>1, <1>2 DEF PoolInv, Places, OneHolder
<1>5. \A q \in Procs, d \in Conns :
        /\ Carries(q, d)' <=> Carries(q, d)
        /\ Returns(q, d)' <=> IF q = p THEN d = c ELSE Returns(q, d)
  BY <1>1, <1>2 DEF Carries, Returns
<1>6. \A d \in Conns : (InHand(d)' <=> InHand(d)) /\ (Idle(d)' <=> Idle(d))
  BY <1>1, <1>5 DEF InHand, Idle
<1>7. OnePlace'
  BY <1>0, <1>1, <1>5, <1>6 DEF PoolInv, Places, OnePlace
<1>8. OneHolder' /\ \A q \in Procs : lease'[q] \subseteq lease[q]
                                    /\ c \notin lease'[q]
  BY <1>1, <1>2, <1>4 DEF PoolInv, Places, OneHolder
<1> QED
  BY <1>1, <1>2, <1>3, <1>4, <1>5, <1>7, <1>8 DEF PoolInv, Places

\* ReleaseConnection takes the connection out of the map into its hands.
LEMMA PlacesDelete ==
    ASSUME PoolInv, NEW p \in Procs, ReleaseDelete(p), UNCHANGED connList
    PROVE  PoolType' /\ Places'
<1>0. connList' = connList /\ connList \subseteq Conns
  BY DEF PoolInv, PoolType
<1> DEFINE c == arg[p]
<1>1. /\ pc[p] = "relDelete" /\ pc' = [pc EXCEPT ![p] = "relPush"]
      /\ consumers' = consumers \ {c}
      /\ UNCHANGED <<chanPool, lease, arg>>
  BY DEF ReleaseDelete, Goto
<1>2. /\ pc \in [Procs -> PCs] /\ arg \in [Procs -> ConnOr0]
      /\ lease \in [Procs -> SUBSET Conns] /\ c \in Conns
  BY <1>1 DEF PoolInv, PoolType, Places
<1>3. PoolType'
  BY <1>1, <1>2 DEF PoolInv, PoolType, PCs
<1>4. /\ Returns(p, c) /\ c \in consumers /\ ~Idle(c) /\ ~InHand(c)
      /\ \A q \in Procs : c \notin lease[q] /\ (q # p => ~Returns(q, c))
  BY <1>1, <1>2 DEF Returns, PoolInv, Places, OnePlace
<1>5. \A q \in Procs, d \in Conns :
        /\ Carries(q, d)' <=> IF q = p THEN d = c ELSE Carries(q, d)
        /\ Returns(q, d)' <=> q # p /\ Returns(q, d)
        /\ ~Carries(p, d)
  BY <1>1, <1>2 DEF Carries, Returns
<1>6. \A d \in Conns :
        (InHand(d)' <=> d = c \/ InHand(d)) /\ (Idle(d)' <=> Idle(d))
  BY <1>1, <1>5 DEF InHand, Idle
<1>7. OnePlace'
  BY <1>0, <1>1, <1>4, <1>5, <1>6 DEF PoolInv, Places, OnePlace, InHand
<1>8. \A q \in Procs : lease'[q] \subseteq consumers'
  BY <1>1, <1>4 DEF PoolInv, Places
<1> QED
  BY <1>1, <1>2, <1>3, <1>4, <1>5, <1>7, <1>8 DEF PoolInv, Places, OneHolder

\* ReleaseConnection puts the connection in hand into the Go channel.
LEMMA PlacesPush ==
    ASSUME PoolInv, NEW p \in Procs, ReleasePush(p), UNCHANGED connList
    PROVE  PoolType' /\ Places'
<1>0. connList' = connList /\ connList \subseteq Conns
  BY DEF PoolInv, PoolType
<1> DEFINE c == arg[p]
<1>1. /\ pc[p] = "relPush" /\ pc' = [pc EXCEPT ![p] = "idle"]
      /\ arg' = [arg EXCEPT ![p] = 0]
      /\ chanPool' = Append(chanPool, c)
      /\ UNCHANGED <<consumers, lease>>
  BY DEF ReleasePush, Goto, Take
<1>2. /\ pc \in [Procs -> PCs] /\ arg \in [Procs -> ConnOr0]
      /\ c \in Conns /\ chanPool \in Seq(Conns)
  BY <1>1 DEF PoolInv, PoolType, Places
<1>3. /\ Append(chanPool, c) \in Seq(Conns)
      /\ Len(chanPool) \in Nat
      /\ DOMAIN chanPool = 1 .. Len(chanPool)
      /\ DOMAIN Append(chanPool, c) = 1 .. (Len(chanPool) + 1)
      /\ \A i \in DOMAIN chanPool : Append(chanPool, c)[i] = chanPool[i]
      /\ Append(chanPool, c)[Len(chanPool) + 1] = c
  BY <1>2, ChannelPut
<1>4. PoolType'
  BY <1>1, <1>2, <1>3 DEF PoolInv, PoolType, PCs, ConnOr0
<1>5. Carries(p, c) /\ InHand(c) /\ ~Idle(c) /\ c \notin consumers
  BY <1>1, <1>2 DEF Carries, InHand, PoolInv, Places, OnePlace
<1>6. \A q \in Procs, d \in Conns :
        /\ Carries(q, d)' <=> q # p /\ Carries(q, d)
        /\ Returns(q, d)' <=> Returns(q, d)
        /\ Carries(p, d) => d = c
  BY <1>1, <1>2 DEF Carries, Returns
<1>7. \A d \in Conns : InHand(d)' <=> InHand(d) /\ d # c
  BY <1>5, <1>6 DEF InHand, PoolInv, Places, OnePlace
<1>8. \A d \in Conns : Idle(d)' <=> d = c \/ Idle(d)
  <2>1. ASSUME NEW d \in Conns, d = c PROVE Idle(d)'
    BY <1>1, <1>3, <2>1 DEF Idle
  <2>2. ASSUME NEW d \in Conns, Idle(d) PROVE Idle(d)'
    BY <1>1, <1>3, <2>2 DEF Idle
  <2>3. ASSUME NEW d \in Conns, Idle(d)' PROVE d = c \/ Idle(d)
    BY <1>1, <1>3, <2>3 DEF Idle
  <2> QED BY <2>1, <2>2, <2>3
<1>9. \A i, j \in DOMAIN chanPool' : chanPool'[i] = chanPool'[j] => i = j
  <2>1. \A i \in DOMAIN chanPool : chanPool[i] # c
    BY <1>5 DEF Idle
  <2> QED
    BY <1>1, <1>3, <2>1 DEF PoolInv, Places, OnePlace
<1>10. OnePlace'
  BY <1>0, <1>1, <1>5, <1>6, <1>7, <1>8, <1>9 DEF PoolInv, Places, OnePlace
<1>11. \A q \in Procs : lease'[q] \subseteq consumers'
  BY <1>1 DEF PoolInv, Places
<1>12. OneHolder'
  BY <1>1 DEF PoolInv, Places, OneHolder
<1>13. \A q \in Procs :
         pc'[q] \in {"getAdd", "relPush", "relLock", "relDelete"}
            => arg'[q] \in Conns
  BY <1>1, <1>2 DEF PoolInv, Places
<1>14. \A q, r \in Procs, d \in Conns :
         /\ Returns(q, d)' => d \in consumers' /\ d \notin lease'[r]
         /\ Returns(q, d)' /\ Returns(r, d)' => q = r
  BY <1>1, <1>6 DEF PoolInv, Places
<1> QED BY <1>4, <1>10, <1>11, <1>12, <1>13, <1>14 DEF Places

\* At first every connection the constructor made is idle.
LEMMA PlacesInit == Init => PoolType /\ Places
<1> SUFFICES ASSUME Init PROVE PoolType /\ Places
  OBVIOUS
<1> USE PoolAssumption DEF Init, PoolAssumption
<1>1. /\ chanPool \in [1 .. Cardinality(connList) -> connList]
      /\ connList \subseteq Conns
      /\ \A c \in connList : \E i \in DOMAIN chanPool : chanPool[i] = c
      /\ \A i, j \in DOMAIN chanPool : i < j => chanPool[i] < chanPool[j]
  OBVIOUS
<1>2. Cardinality(connList) \in Nat
  BY <1>1, FS_Subset, FS_CardinalityType
<1>3. chanPool \in Seq(Conns)
  <2>1. chanPool \in [1 .. Cardinality(connList) -> Conns]
    BY <1>1
  <2> HIDE DEF Init
  <2> QED BY <1>2, <2>1
<1>4. PoolType
  BY <1>3 DEF PoolType, PCs, ConnOr0
<1>5. ASSUME NEW i \in DOMAIN chanPool, NEW j \in DOMAIN chanPool,
             chanPool[i] = chanPool[j]
      PROVE  i = j
  <2>1. i \in Int /\ j \in Int
    BY <1>1, <1>2
  <2>2. chanPool[i] \in Nat /\ chanPool[j] \in Nat
    BY <1>1
  <2>3. CASE i < j
    BY <1>1, <1>5, <2>2, <2>3
  <2>4. CASE j < i
    BY <1>1, <1>5, <2>2, <2>4
  <2> QED BY <2>1, <2>3, <2>4
<1>6. \A p \in Procs : pc[p] = "idle" /\ lease[p] = {}
  OBVIOUS
<1>7. \A p \in Procs, c \in Conns : ~Carries(p, c) /\ ~Returns(p, c)
  BY <1>6 DEF Carries, Returns
<1>8. consumers = {} /\ \A c \in connList : Idle(c)
  BY <1>1 DEF Idle
<1>9. OnePlace
  BY <1>1, <1>5, <1>7, <1>8 DEF OnePlace, InHand
<1>10. Places
  BY <1>6, <1>7, <1>9 DEF Places, OneHolder
<1> QED BY <1>4, <1>10

\* A step that leaves the connections where they are.
Quiet(p, l) ==
    /\ pc' = [pc EXCEPT ![p] = l]
    /\ \/ {pc[p], l} \cap {"getAdd", "relPush", "relLock", "relDelete"} = {}
       \/ pc[p] = "relLock" /\ l = "relDelete"
    /\ UNCHANGED <<connList, chanPool, consumers, lease, arg>>

\* A step that moves no connection keeps them where they are.
LEMMA QuietStep ==
    ASSUME PoolType, Places, NEW p \in Procs, NEW l \in PCs, Quiet(p, l)
    PROVE  PoolType' /\ Places'
<1> USE DEF Quiet
<1>1. pc' \in [Procs -> PCs]
  BY DEF PoolType
<1>2. Places'
  <2>1. \A q \in Procs :
          /\ pc'[q] \in {"getAdd", "relPush"} <=> pc[q] \in {"getAdd", "relPush"}
          /\ pc'[q] \in {"relLock", "relDelete"}
               <=> pc[q] \in {"relLock", "relDelete"}
    BY DEF PoolType
  <2> QED BY <2>1, PlacesQuiet DEF PoolType
<1> QED BY <1>1, <1>2 DEF PoolType

\* Every step of the pool preserves PoolInv.
LEMMA PoolNext ==
    ASSUME PoolInv, [Next]_vars
    PROVE  PoolInv'
<1>1. LockShape' /\ pc' \in [Procs -> PCs]
  BY LockNext DEF PoolInv, PoolType
<1> SUFFICES PoolType' /\ Places'
  BY <1>1 DEF PoolInv
<1>2. CASE UNCHANGED vars
  <2>1. PoolType'
    BY <1>2 DEF vars, poolVars, PoolInv, PoolType
  <2>2. Places'
    BY <1>2, PlacesQuiet DEF vars, poolVars, PoolInv, PoolType
  <2> QED BY <2>1, <2>2
<1>3. ASSUME NEW p \in Procs, \E l \in PCs : Quiet(p, l)
      PROVE  PoolType' /\ Places'
  BY <1>3, QuietStep DEF PoolInv
<1>4. ASSUME NEW p \in Procs, Call(p) \/ Announced(p)
      PROVE  PoolType' /\ Places'
  <2> UNCHANGED connList
    BY <1>4 DEF Call, Announced
  <2>1. CASE GetCall(p)
    <3>1. \E l \in PCs : Quiet(p, l)
      BY <2>1 DEF GetCall, Goto, PCs, poolVars, Quiet
    <3> QED BY <1>3, <3>1
  <2>2. CASE ReleaseCall(p)
    BY <2>2, PlacesReturn
  <2>3. CASE OperationCall(p)
    <3>1. \E l \in PCs : Quiet(p, l)
      BY <2>3 DEF OperationCall, Goto, PCs, poolVars, Quiet
    <3> QED BY <1>3, <3>1
  <2>4. CASE ConnectCall(p)
    <3>1. \E l \in PCs : Quiet(p, l)
      BY <2>4 DEF ConnectCall, Goto, PCs, poolVars, Quiet
    <3> QED BY <1>3, <3>1
  <2>5. CASE DisconnectCall(p)
    <3>1. \E l \in PCs : Quiet(p, l)
      BY <2>5 DEF DisconnectCall, Goto, PCs, poolVars, Quiet
    <3> QED BY <1>3, <3>1
  <2>7. CASE OperationAgain(p)
    <3>1. \E l \in PCs : Quiet(p, l)
      BY <2>7 DEF OperationAgain, Goto, PCs, poolVars, Quiet
    <3> QED BY <1>3, <3>1
  <2>6. CASE Announced(p)
    <3>1. \E l \in PCs : Quiet(p, l)
      BY <2>6 DEF Announced, GetAnnounce, Goto, PCs, poolVars, Quiet
    <3> QED BY <1>3, <3>1
  <2> QED
    BY <1>4, <2>1, <2>2, <2>3, <2>4, <2>5, <2>6, <2>7 DEF Call
<1>5. ASSUME NEW p \in Procs, Step(p) PROVE PoolType' /\ Places'
  <2> UNCHANGED connList
    BY <1>5 DEF Step
  <2>1. CASE GetRefuse(p)
    <3>1. \E l \in PCs : Quiet(p, l)
      BY <2>1 DEF GetRefuse, Goto, PCs, poolVars, Quiet
    <3> QED BY <1>3, <3>1
  <2>2. CASE GetCheck(p)
    <3>1. \E l \in PCs : Quiet(p, l)
      BY <2>2 DEF GetCheck, Goto, PCs, poolVars, Quiet
    <3> QED BY <1>3, <3>1
  <2>3. CASE GetTake(p)
    BY <2>3, PlacesTake
  <2>4. CASE GetTimeout(p)
    <3>1. \E l \in PCs : Quiet(p, l)
      BY <2>4 DEF GetTimeout, Goto, PCs, poolVars, Quiet
    <3> QED BY <1>3, <3>1
  <2>5. CASE GetAdd(p)
    BY <2>5, PlacesAdd
  <2>6. CASE ReleaseLocked(p)
    <3>1. \E l \in PCs : Quiet(p, l)
      BY <2>6 DEF ReleaseLocked, Goto, PCs, poolVars, Quiet
    <3> QED BY <1>3, <3>1
  <2>7. CASE ReleaseDelete(p)
    BY <2>7, PlacesDelete
  <2>8. CASE ReleasePush(p)
    BY <2>8, PlacesPush
  <2>9. CASE OperationLocked(p)
    <3>1. \E l \in PCs : Quiet(p, l)
      BY <2>9 DEF OperationLocked, Goto, PCs, poolVars, Quiet
    <3> QED BY <1>3, <3>1
  <2>10. CASE OperationEnd(p)
    <3>1. \E l \in PCs : Quiet(p, l)
      BY <2>10 DEF OperationEnd, Goto, PCs, poolVars, Quiet
    <3> QED BY <1>3, <3>1
  <2>18. CASE OperationAgainEnd(p)
    <3>1. \E l \in PCs : Quiet(p, l)
      BY <2>18 DEF OperationAgainEnd, Goto, PCs, poolVars, Quiet
    <3> QED BY <1>3, <3>1
  <2>11. CASE ConnectCheck(p)
    <3>1. \E l \in PCs : Quiet(p, l)
      BY <2>11 DEF ConnectCheck, Goto, PCs, poolVars, Quiet
    <3> QED BY <1>3, <3>1
  <2>12. CASE ConnectConsumer(p)
    <3>1. \E l \in PCs : Quiet(p, l)
      BY <2>12 DEF ConnectConsumer, Goto, PCs, poolVars, Quiet
    <3> QED BY <1>3, <3>1
  <2>13. CASE ConnectFails(p)
    <3>1. \E l \in PCs : Quiet(p, l)
      BY <2>13 DEF ConnectFails, Goto, PCs, poolVars, Quiet
    <3> QED BY <1>3, <3>1
  <2>14. CASE ConnectEnd(p)
    <3>1. \E l \in PCs : Quiet(p, l)
      BY <2>14 DEF ConnectEnd, Goto, PCs, poolVars, Quiet
    <3> QED BY <1>3, <3>1
  <2>15. CASE DisconnectCheck(p)
    <3>1. \E l \in PCs : Quiet(p, l)
      BY <2>15 DEF DisconnectCheck, Goto, PCs, poolVars, Quiet
    <3> QED BY <1>3, <3>1
  <2>16. CASE DisconnectOne(p)
    <3>1. PoolType'
      BY <2>16 DEF DisconnectOne, poolVars, PoolInv, PoolType
    <3>2. Places'
      BY <2>16, PlacesQuiet DEF DisconnectOne, poolVars, PoolInv, PoolType
    <3> QED BY <3>1, <3>2
  <2>17. CASE DisconnectEnd(p)
    <3>1. \E l \in PCs : Quiet(p, l)
      BY <2>17 DEF DisconnectEnd, Goto, PCs, poolVars, Quiet
    <3> QED BY <1>3, <3>1
  <2> QED
    BY <1>5, <2>1, <2>2, <2>3, <2>4, <2>5, <2>6, <2>7, <2>8, <2>9, <2>10,
       <2>11, <2>12, <2>13, <2>14, <2>15, <2>16, <2>17, <2>18
    DEF Step
<1> QED
  BY <1>2, <1>4, <1>5 DEF Next

-----------------------------------------------------------------------------
(* Theorems *)

\* The inductive invariant holds in every state of the pool.
LEMMA PoolInvariant == Spec => []PoolInv
<1>1. Init => PoolInv
  BY LockInit, PlacesInit DEF PoolInv
<1>2. PoolInv /\ [Next]_vars => PoolInv'
  BY PoolNext
<1> QED BY <1>1, <1>2, PTL DEF Spec

\* While Get looks at the pool, nobody else is in it: whatever the number of
\* goroutines, and whatever they release.
THEOREM GetIsAlone == Spec => []GetAlone
<1>1. Init => LockShape /\ pc \in [Procs -> PCs]
  BY LockInit
<1>2. (LockShape /\ pc \in [Procs -> PCs]) /\ [Next]_vars
        => (LockShape /\ pc \in [Procs -> PCs])'
  BY LockNext
<1>3. LockShape /\ pc \in [Procs -> PCs] => GetAlone
  BY PoolAssumption DEF LockShape, GetAlone, RWTypeOK, GetPCs, ReadPCs
<1> QED BY <1>1, <1>2, <1>3, PTL DEF Spec

\* Goroutines that release once what they have got lose no connection and
\* duplicate none.
THEOREM NothingLost == Spec => []OnePlace
<1>1. PoolInv => OnePlace
  BY DEF PoolInv, Places
<1> QED BY <1>1, PoolInvariant, PTL

\* They get their connections as module Leases promises.
THEOREM PoolImplementsLeases == Spec => LeasesSpec
<1> DEFINE holder == [c \in Conns |-> IF \E p \in Procs : c \in lease[p]
                                       THEN CHOOSE p \in Procs : c \in lease[p]
                                       ELSE None]
<1>1. Init => Lent!Init
  BY DEF Init, Lent!Init
<1>2. PoolInv /\ [Next]_vars => [Lent!Next]_holder
  <2> SUFFICES ASSUME PoolInv, [Next]_vars
               PROVE  [Lent!Next]_holder
    OBVIOUS
  <2>1. CASE UNCHANGED lease
    BY <2>1
  <2>2. ASSUME NEW p \in Procs, GetAdd(p) PROVE Lent!Next
    <3> DEFINE c == arg[p]
    <3>1. /\ c \in Conns /\ \A q \in Procs : c \notin lease[q]
          /\ lease' = [lease EXCEPT ![p] = @ \cup {c}]
          /\ lease \in [Procs -> SUBSET Conns]
      BY <2>2 DEF GetAdd, PoolInv, PoolType, Places, OnePlace, InHand, Carries
    <3>2. \A d \in Conns, q \in Procs :
            d \in lease'[q] <=> d \in lease[q] \/ (q = p /\ d = c)
      BY <3>1
    <3>3. holder[c] = None
      BY <3>1
    <3>4. \A d \in Conns : holder'[d] = IF d = c THEN p ELSE holder[d]
      BY <3>1, <3>2
    <3>5. holder' = [holder EXCEPT ![c] = p]
      BY <3>4
    <3> QED BY <3>1, <3>3, <3>5 DEF Lent!Next, Lent!Lend
  <2>3. ASSUME NEW p \in Procs, ReleaseCall(p) PROVE Lent!Next
    <3>1. PICK c \in lease[p] : lease' = [lease EXCEPT ![p] = @ \ {c}]
      BY <2>3 DEF ReleaseCall
    <3>2. /\ lease \in [Procs -> SUBSET Conns] /\ c \in Conns
          /\ \A q \in Procs : q # p => c \notin lease[q]
      BY <3>1 DEF PoolInv, PoolType, Places, OneHolder
    <3>3. \A d \in Conns, q \in Procs :
            d \in lease'[q] <=> d \in lease[q] /\ d # c
      BY <3>1, <3>2
    <3>4. holder[c] = p
      BY <3>2
    <3>5. \A d \in Conns : holder'[d] = IF d = c THEN None ELSE holder[d]
      BY <3>2, <3>3
    <3>6. holder' = [holder EXCEPT ![c] = None]
      BY <3>5
    <3> QED BY <3>2, <3>4, <3>6 DEF Lent!Next, Lent!GiveBack
  <2>4. ASSUME NEW p \in Procs, Call(p) \/ Announced(p) \/ Step(p),
               ~GetAdd(p), ~ReleaseCall(p)
        PROVE  UNCHANGED lease
    BY <2>4 DEF Call, Step, Announced, GetCall, GetAnnounce, GetRefuse, GetCheck,
      GetTake, GetTimeout, ReleaseLocked, ReleaseDelete, ReleasePush,
      OperationCall, OperationLocked, OperationAgain, OperationAgainEnd,
      OperationEnd, ConnectCall, ConnectCheck,
      ConnectConsumer, ConnectFails, ConnectEnd, DisconnectCall,
      DisconnectCheck, DisconnectOne, DisconnectEnd
  <2> QED
    BY <2>1, <2>2, <2>3, <2>4 DEF Next, vars
<1> QED
  BY <1>1, <1>2, PoolInvariant, PTL DEF LeasesSpec, Lent!Spec, Spec
\* Get refuses by the size of the consumers map.  When the map has PoolSize
\* connections it has all, and none of them is idle; the other way out is the
\* time-out of the wait for one.
LEMMA RefusesWhenNoneIdle ==
    ASSUME PoolInv, NEW p \in Procs, GetRefuse(p) \/ GetTimeout(p)
    PROVE  chanPool = <<>>
<1>1. CASE GetTimeout(p)
  BY <1>1 DEF GetTimeout
<1>2. CASE GetRefuse(p)
  <2>1. consumers \subseteq Conns /\ IsFiniteSet(Conns)
    BY PoolAssumption DEF PoolInv, PoolType
  <2>2. Cardinality(consumers) = PoolSize /\ Cardinality(Conns) <= PoolSize
    BY <1>2, PoolAssumption DEF GetRefuse
  <2>3. /\ Cardinality(consumers) \in Nat /\ Cardinality(Conns) \in Nat
        /\ Cardinality(consumers) <= Cardinality(Conns)
        /\ Cardinality(consumers) = Cardinality(Conns) => consumers = Conns
    BY <2>1, FS_Subset, FS_CardinalityType
  <2>4. consumers = Conns
    BY <2>2, <2>3
  <2>5. \A i \in DOMAIN chanPool : FALSE
    <3> SUFFICES ASSUME NEW i \in DOMAIN chanPool PROVE FALSE
      OBVIOUS
    <3>1. chanPool[i] \in Conns
      BY DEF PoolInv, PoolType
    <3>2. Idle(chanPool[i])
      BY DEF Idle
    <3> QED BY <2>4, <3>1, <3>2 DEF PoolInv, Places, OnePlace
  <2>6. chanPool \in Seq(Conns)
    BY DEF PoolInv, PoolType
  <2>7. 1 \notin DOMAIN chanPool
    BY <2>5
  <2> QED BY <2>6, <2>7
<1> QED BY <1>1, <1>2

\* Get returns without a connection only when none is idle, for any number of
\* goroutines and connections, some of which may never have been made.
THEOREM RefusesOnlyWhenBusy == Spec => RefusedOnlyWhenBusy
<1>1. ASSUME PoolInv, [Next]_vars, NEW p \in Procs,
             pc[p] \in {"getLock", "getTake"}, pc'[p] = "idle"
      PROVE  chanPool = <<>>
  <2>1. PICK q \in Procs : Call(q) \/ Announced(q) \/ Step(q)
    BY <1>1 DEF Next, vars
  <2>2. pc \in [Procs -> PCs]
    BY <1>1 DEF PoolInv, PoolType
  <2>3. CASE Call(q)
    BY <1>1, <2>2, <2>3 DEF Call, GetCall, ReleaseCall, OperationCall,
       OperationAgain, ConnectCall, DisconnectCall, Goto
  <2>4. CASE Announced(q)
    BY <1>1, <2>2, <2>4 DEF Announced, GetAnnounce, Goto
  <2>5. CASE Step(q) /\ ~GetRefuse(q) /\ ~GetTimeout(q)
    BY <1>1, <2>2, <2>5 DEF Step, GetCheck, GetTake, GetAdd, ReleaseLocked,
       ReleaseDelete, ReleasePush, OperationLocked, OperationAgainEnd,
       OperationEnd, ConnectCheck, ConnectConsumer, ConnectFails, ConnectEnd,
       DisconnectCheck, DisconnectOne, DisconnectEnd, Goto
  <2>6. CASE GetRefuse(q) \/ GetTimeout(q)
    BY <1>1, <2>6, RefusesWhenNoneIdle
  <2> QED BY <2>1, <2>3, <2>4, <2>5, <2>6
<1>2. PoolInv /\ [Next]_vars
        => [\A p \in Procs :
               pc[p] \in {"getLock", "getTake"} /\ pc'[p] = "idle"
                   => chanPool = <<>>]_vars
  BY <1>1
<1> QED BY <1>2, PoolInvariant, PTL DEF Spec, RefusedOnlyWhenBusy
=============================================================================
