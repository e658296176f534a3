----------------------- MODULE ConnectionCountProofs -----------------------
(***************************************************************************)
(* Proofs about ConnectionCount, for any number of connections on any      *)
(* number of channels.                                                     *)
(*                                                                         *)
(* CounterCoversOpen is strengthened by the connections that have added    *)
(* their share and are not open yet.  NeverCutOff needs a count for each   *)
(* channel: without overlap, what AddInt32 returned is still the value of  *)
(* the counter when it is stored, so that a channel's own number covers    *)
(* its open connections too, and is not zero while there is one.  With one *)
(* channel no share is lost, and the counts are exact; its number is also  *)
(* the counter, so that a Disconnect too many finds it zero, and leaves it.*)
(***************************************************************************)
EXTENDS ConnectionCount, FiniteSetTheorems, TLAPS

CountType ==
    /\ chanOf \in [Conns -> Chans] /\ overlap \in BOOLEAN
    /\ counter \in Int /\ num \in [Chans -> Int]
    /\ linkUp \in [Chans -> BOOLEAN]
    /\ open \subseteq Conns /\ paired \in BOOLEAN /\ pc \in [Conns -> PCs]
    /\ sum \in [Conns -> Int]

\* The connections whose share is in the counter.
Sharing == open \cup {c \in Conns : pc[c] \in {"setNum", "start", "subtract"}}

CounterInv ==
    /\ CountType
    /\ paired => /\ \A c \in open : pc[c] = "idle"
                 /\ counter >= Cardinality(Sharing)

\* The connections that are open on a channel, or about to be.
OpeningOn(ch) ==
    {c \in Conns : chanOf[c] = ch /\ (c \in open \/ pc[c] = "start")}

ChannelInv ==
    ~overlap =>
        /\ \A c, d \in Conns : pc[c] # "idle" /\ pc[d] # "idle" => c = d
        /\ \A c \in Conns : pc[c] \in {"setNum", "setNumLocked"}
                                => sum[c] = counter
        /\ paired => /\ \A ch \in Chans : num[ch] >= Cardinality(OpeningOn(ch))
                     /\ \A c \in open : linkUp[chanOf[c]]

-----------------------------------------------------------------------------
(* Counting *)

\* Any set of connections can be counted, and a subset has no more.
LEMMA Counting ==
    ASSUME NEW S, S \subseteq Conns, NEW R, R \subseteq S
    PROVE  /\ Cardinality(S) \in Nat /\ Cardinality(R) \in Nat
           /\ Cardinality(R) <= Cardinality(S)
<1>1. IsFiniteSet(S) /\ IsFiniteSet(R)
  BY CountAssumption, FS_Subset
<1> QED BY <1>1, FS_Subset, FS_CardinalityType

\* One connection more or less.
LEMMA CountingOne ==
    ASSUME NEW S, S \subseteq Conns, NEW c \in Conns
    PROVE  /\ Cardinality(S \cup {c}) <= Cardinality(S) + 1
           /\ c \notin S => Cardinality(S \cup {c}) = Cardinality(S) + 1
           /\ c \in S => Cardinality(S \ {c}) = Cardinality(S) - 1
           /\ c \in S => Cardinality(S) >= 1
<1>1. IsFiniteSet(S)
  BY CountAssumption, FS_Subset
<1>2. Cardinality(S) \in Nat /\ Cardinality(S \ {c}) \in Nat
  BY <1>1, FS_CardinalityType, FS_RemoveElement
<1>3. c \in S => Cardinality(S \ {c}) = Cardinality(S) - 1
  BY <1>1, FS_RemoveElement
<1>4. /\ Cardinality(S \cup {c}) <= Cardinality(S) + 1
      /\ c \notin S => Cardinality(S \cup {c}) = Cardinality(S) + 1
  <2>1. Cardinality(S \cup {c}) = IF c \in S THEN Cardinality(S)
                                             ELSE Cardinality(S) + 1
    BY <1>1, FS_AddElement
  <2> QED BY <1>2, <2>1
<1> QED BY <1>2, <1>3, <1>4

-----------------------------------------------------------------------------
(* The counter of the process *)

\* At first nothing is counted.
LEMMA CounterInit == Init => CounterInv
<1> SUFFICES ASSUME Init PROVE CounterInv
  OBVIOUS
<1>1. Sharing = {}
  BY DEF Init, Sharing
<1>2. Cardinality(Sharing) = 0
  BY <1>1, FS_EmptySet
<1> QED BY <1>2 DEF Init, CounterInv, CountType, PCs

\* A step after which the counter is what it was, and no more connections
\* have a share in it.
LEMMA CounterKept ==
    ASSUME CounterInv, CountType', UNCHANGED counter, paired,
           Sharing' \subseteq Sharing
    PROVE  counter' >= Cardinality(Sharing')
<1>1. Sharing \subseteq Conns
  BY DEF CounterInv, CountType, Sharing
<1> QED BY <1>1, Counting DEF CounterInv, CountType

\* Every step of a connection preserves CounterInv.
LEMMA CounterNext ==
    ASSUME CounterInv, [Next]_vars
    PROVE  CounterInv'
<1> USE DEF CounterInv
<1>0. Sharing \subseteq Conns
  BY DEF CountType, Sharing
<1>1. ASSUME NEW c \in Conns, UNCHANGED <<chanOf, overlap>>, AddOne(c)
      PROVE  CounterInv'
  <2>1. CountType' /\ open' = open /\ \A d \in Conns : d # c => pc'[d] = pc[d]
    BY <1>1 DEF CountType, AddOne, Goto, PCs
  <2>2. paired' = paired /\ (paired => \A d \in open' : pc'[d] = "idle")
    BY <1>1, <2>1 DEF AddOne, CountType
  <2>3. Sharing' = Sharing \cup {c}
    BY <1>1, <2>1 DEF Sharing, AddOne, Goto, CountType
  <2>4. Cardinality(Sharing') <= Cardinality(Sharing) + 1
    BY <1>0, <2>3, CountingOne
  <2>5. Cardinality(Sharing) \in Nat /\ Cardinality(Sharing') \in Nat
    BY <1>0, <2>3, Counting
  <2>6. counter' = counter + 1
    BY <1>1 DEF AddOne
  <2> QED BY <2>1, <2>2, <2>4, <2>5, <2>6 DEF CountType
<1>2. ASSUME NEW c \in Conns, UNCHANGED <<chanOf, overlap>>, Subtract(c)
      PROVE  CounterInv'
  <2>1. CountType' /\ open' = open /\ \A d \in Conns : d # c => pc'[d] = pc[d]
    BY <1>2 DEF CountType, Subtract, Goto, PCs
  <2>2. paired' = paired /\ (paired => \A d \in open' : pc'[d] = "idle")
    BY <1>2, <2>1 DEF Subtract, CountType
  <2>3. paired => Sharing' = Sharing \ {c} /\ c \in Sharing
    BY <1>2, <2>1 DEF Sharing, Subtract, Goto, CountType
  <2>4. paired => Cardinality(Sharing') = Cardinality(Sharing) - 1
    BY <1>0, <2>3, CountingOne
  <2>5. Cardinality(Sharing) \in Nat
    BY <1>0, Counting
  <2>6. counter' = counter - 1
    BY <1>2 DEF Subtract
  <2> QED BY <2>1, <2>2, <2>4, <2>5, <2>6 DEF CountType
<1>3. ASSUME NEW c \in Conns, UNCHANGED <<chanOf, overlap>>,
             \/ Connect(c) \/ StoreAfterConnect(c) \/ Start(c)
             \/ Disconnect(c) \/ StoreAfterDisconnect(c) \/ Stop(c)
      PROVE  CounterInv'
  <2>1. CountType' /\ UNCHANGED counter
    <3> USE <1>3 DEF CountType, Goto, PCs
    <3>1. CASE Connect(c)
      BY <3>1 DEF Connect
    <3>2. CASE StoreAfterConnect(c)
      BY <3>2 DEF StoreAfterConnect, Store
    <3>3. CASE Start(c)
      BY <3>3 DEF Start
    <3>4. CASE Disconnect(c)
      BY <3>4 DEF Disconnect
    <3>5. CASE StoreAfterDisconnect(c)
      BY <3>5 DEF StoreAfterDisconnect, Store
    <3>6. CASE Stop(c)
      <4>1. (linkUp[chanOf[c]] /\ num[chanOf[c]] # 0) \in BOOLEAN
        OBVIOUS
      <4> QED BY <3>6, <4>1 DEF Stop
    <3> QED BY <3>1, <3>2, <3>3, <3>4, <3>5, <3>6
  <2>4. paired' => paired
    BY <1>3 DEF Connect, StoreAfterConnect, Start, Disconnect,
       StoreAfterDisconnect, Stop
  <2>2. paired' => \A d \in open' : pc'[d] = "idle"
    BY <1>3, <2>4 DEF CountType, Connect, StoreAfterConnect, Start, Disconnect,
       StoreAfterDisconnect, Stop, Goto
  <2>3. paired' => Sharing' \subseteq Sharing
    BY <1>3 DEF Sharing, CountType, Connect, StoreAfterConnect, Start,
       Disconnect, StoreAfterDisconnect, Stop, Goto
  <2> QED BY <2>1, <2>2, <2>3, <2>4, CounterKept
<1>4. CASE UNCHANGED vars
  BY <1>4 DEF vars, CountType, Sharing
<1> QED BY <1>1, <1>2, <1>3, <1>4 DEF Next

\* The inductive invariant holds in every state.
LEMMA CounterInvariant == Spec => []CounterInv
BY CounterInit, CounterNext, PTL DEF Spec

\* ConnectionsToChannel is never smaller than the number of the connections
\* that are open, whatever the channels and however the calls overlap, while
\* connections are connected and disconnected in turn.
THEOREM CounterCovers == Spec => []CounterCoversOpen
<1>1. CounterInv => CounterCoversOpen
  <2> SUFFICES ASSUME CounterInv, paired PROVE CounterCoversOpen
    BY DEF CounterCoversOpen
  <2> DEFINE R == open \cup {c \in Conns : pc[c] = "subtract"}
  <2>1. Sharing \subseteq Conns /\ R \subseteq Sharing
    BY DEF CounterInv, CountType, Sharing
  <2>2. /\ Cardinality(R) <= Cardinality(Sharing)
        /\ Cardinality(R) \in Nat /\ Cardinality(Sharing) \in Nat
    BY <2>1, Counting
  <2> QED BY <2>2 DEF CounterInv, CountType, CounterCoversOpen
<1> QED BY CounterInvariant, <1>1, PTL

-----------------------------------------------------------------------------
(* The connections of a channel *)

\* At first no connection is open.
LEMMA ChannelInit == Init => ChannelInv
<1> SUFFICES ASSUME Init PROVE ChannelInv
  OBVIOUS
<1>1. \A ch \in Chans : OpeningOn(ch) = {}
  BY DEF Init, OpeningOn
<1>2. \A ch \in Chans : Cardinality(OpeningOn(ch)) = 0
  BY <1>1, FS_EmptySet
<1> QED BY <1>2 DEF Init, ChannelInv

\* A channel whose number is what it was, or the counter of the process, is
\* covered as long as the connections that join it have their share.
LEMMA ChannelCovered ==
    ASSUME CounterInv, CounterInv', paired', NEW ch \in Chans,
           num[ch] >= Cardinality(OpeningOn(ch)),
           \/ num'[ch] = num[ch] /\ OpeningOn(ch)' \subseteq OpeningOn(ch)
           \/ num'[ch] = counter'
    PROVE  num'[ch] >= Cardinality(OpeningOn(ch)')
<1>1. /\ OpeningOn(ch) \subseteq Conns
      /\ OpeningOn(ch)' \subseteq Sharing' /\ Sharing' \subseteq Conns
  BY DEF OpeningOn, CounterInv, CountType, Sharing
<1>2. /\ Cardinality(OpeningOn(ch)) \in Nat
      /\ Cardinality(OpeningOn(ch)') \in Nat /\ Cardinality(Sharing') \in Nat
      /\ Cardinality(OpeningOn(ch)') <= Cardinality(Sharing')
  BY <1>1, Counting
<1>3. OpeningOn(ch)' \subseteq OpeningOn(ch)
        => Cardinality(OpeningOn(ch)') <= Cardinality(OpeningOn(ch))
  BY <1>1, Counting
<1> QED BY <1>2, <1>3 DEF CounterInv, CountType

\* Every step of a connection preserves ChannelInv.
LEMMA ChannelNext ==
    ASSUME CounterInv, CounterInv', ChannelInv, [Next]_vars
    PROVE  ChannelInv'
<1>1. CASE UNCHANGED vars
  BY <1>1 DEF vars, ChannelInv, OpeningOn
<1>2. ASSUME NEW c \in Conns, UNCHANGED <<chanOf, overlap>>, ~overlap,
             \/ Connect(c) \/ AddOne(c) \/ StoreAfterConnect(c) \/ Start(c)
             \/ Disconnect(c) \/ Subtract(c) \/ StoreAfterDisconnect(c)
             \/ Stop(c)
      PROVE  ChannelInv'
  <2> USE <1>2 DEF CounterInv, CountType
  <2>1. \A d \in Conns : d # c => pc[d] = "idle" /\ pc'[d] = "idle"
    BY DEF ChannelInv, Connect, AddOne, StoreAfterConnect, Start, Disconnect,
       Subtract, StoreAfterDisconnect, Stop, Goto, MayCall
  <2>2. pc'[c] \in {"setNum", "setNumLocked"} => sum'[c] = counter'
    BY DEF Connect, AddOne, StoreAfterConnect, Start, Disconnect, Subtract,
       StoreAfterDisconnect, Stop, Goto
  <2>6. paired' => paired
    BY DEF Connect, AddOne, StoreAfterConnect, Start, Disconnect, Subtract,
       StoreAfterDisconnect, Stop
  <2>3. ASSUME NEW ch \in Chans
        PROVE  \/ num'[ch] = num[ch] /\ OpeningOn(ch)' \subseteq OpeningOn(ch)
               \/ num'[ch] = counter'
    <3>1. CASE StoreAfterConnect(c) \/ StoreAfterDisconnect(c)
      <4>1. sum[c] = counter /\ counter' = counter
        BY <3>1 DEF ChannelInv, StoreAfterConnect, StoreAfterDisconnect
      <4>2. CASE ch = chanOf[c]
        BY <3>1, <4>1, <4>2 DEF StoreAfterConnect, StoreAfterDisconnect, Store
      <4>3. CASE ch # chanOf[c]
        BY <3>1, <4>3 DEF StoreAfterConnect, StoreAfterDisconnect, Store,
           OpeningOn, Goto
      <4> QED BY <4>2, <4>3
    <3>2. CASE ~(StoreAfterConnect(c) \/ StoreAfterDisconnect(c))
      <4>1. num' = num /\ chanOf' = chanOf
        BY <3>2 DEF Connect, AddOne, Start, Disconnect, Subtract, Stop
      <4>2. \A d \in Conns : d \in open' \/ pc'[d] = "start"
                                 => d \in open \/ pc[d] = "start"
        <5>1. CASE Connect(c)
          BY <5>1 DEF Connect, Goto
        <5>2. CASE AddOne(c)
          BY <5>2 DEF AddOne, Goto
        <5>3. CASE Start(c)
          BY <5>3 DEF Start, Goto
        <5>4. CASE Disconnect(c)
          BY <5>4 DEF Disconnect, Goto
        <5>5. CASE Subtract(c)
          BY <5>5 DEF Subtract, Goto
        <5>6. CASE Stop(c)
          BY <5>6 DEF Stop, Goto
        <5> QED BY <3>2, <5>1, <5>2, <5>3, <5>4, <5>5, <5>6
      <4> QED BY <4>1, <4>2 DEF OpeningOn
    <3> QED BY <3>1, <3>2
  <2>4. paired' => \A ch \in Chans : num'[ch] >= Cardinality(OpeningOn(ch)')
    BY <2>3, <2>6, ChannelCovered DEF ChannelInv
  <2>5. ASSUME paired' PROVE \A d \in open' : linkUp'[chanOf'[d]]
    <3>1. CASE Stop(c)
      <4>1. ASSUME NEW d \in open, chanOf[d] = chanOf[c]
            PROVE  num[chanOf[c]] # 0
        <5>1. d \in OpeningOn(chanOf[c]) /\ OpeningOn(chanOf[c]) \subseteq Conns
          BY <4>1 DEF OpeningOn
        <5>2. Cardinality(OpeningOn(chanOf[c])) >= 1
          BY <5>1, CountingOne
        <5> QED BY <2>5, <2>6, <5>1, <5>2, Counting DEF ChannelInv
      <4> QED BY <2>5, <2>6, <3>1, <4>1 DEF ChannelInv, Stop
    <3>2. CASE ~Stop(c)
      <4>1. \A d \in open : linkUp[chanOf[d]]
        BY <2>5, <2>6 DEF ChannelInv
      <4>2. CASE Connect(c)
        BY <4>1, <4>2 DEF Connect
      <4>3. CASE Start(c)
        BY <4>1, <4>3 DEF Start
      <4>4. CASE Disconnect(c)
        BY <4>1, <4>4 DEF Disconnect
      <4> QED BY <3>2, <4>1, <4>2, <4>3, <4>4 DEF AddOne, StoreAfterConnect,
             Subtract, StoreAfterDisconnect
    <3> QED BY <3>1, <3>2
  <2> QED BY <2>1, <2>2, <2>4, <2>5 DEF ChannelInv
<1>3. CASE overlap /\ UNCHANGED overlap
  BY <1>3 DEF ChannelInv
<1> QED BY <1>1, <1>2, <1>3 DEF Next, CounterInv, CountType

\* Without overlap, and if connections are connected and disconnected in
\* turn, channelStop never closes a channel while one of its
\* connections is open, although the number it looks at came from a counter
\* that the channels of the process share.
THEOREM NeverClosedUnderAnother == Spec => []NeverCutOff
<1>1. ChannelInv => NeverCutOff
  BY DEF ChannelInv, NeverCutOff
<1>2. Spec => []ChannelInv
  BY CounterInvariant, ChannelInit, ChannelNext, PTL DEF Spec
<1> QED BY <1>1, <1>2, PTL

-----------------------------------------------------------------------------
(* One channel *)

\* What is between the addition to the counter and the storing of the sum.
Unstored(c) == pc[c] \in {"addOne", "setNum", "setNumLocked"}

\* What needs the channel.
Using(c) == pc[c] \in {"addOne", "setNum", "start", "subtract", "setNumLocked"}

OneChannelInv ==
    ~overlap /\ OneChannel =>
        /\ counter >= 0
        /\ \A c \in Conns :
              /\ pc[c] \in {"setNum", "start", "subtract"} => counter > 0
              /\ Using(c) => linkUp[chanOf[c]]
              /\ ~linkUp[chanOf[c]] => num[chanOf[c]] = 0
        /\ (\A d \in Conns : ~Unstored(d)) =>
              \A c \in Conns : linkUp[chanOf[c]] => num[chanOf[c]] = counter
        /\ Quiet => \A c \in Conns : linkUp[chanOf[c]] => counter > 0
        /\ paired => counter = Cardinality(Sharing)

\* At first the channel is closed.
LEMMA OneChannelInit == Init => OneChannelInv
<1> SUFFICES ASSUME Init PROVE OneChannelInv
  OBVIOUS
<1>1. Sharing = {}
  BY DEF Init, Sharing
<1>2. Cardinality(Sharing) = 0
  BY <1>1, FS_EmptySet
<1> QED BY <1>2 DEF Init, OneChannelInv, Using

\* A connection that is open has a number that is not zero to give up.
LEMMA OpenIsCounted ==
    ASSUME CounterInv, ChannelInv, ~overlap, paired, NEW c \in open
    PROVE  linkUp[chanOf[c]] /\ num[chanOf[c]] # 0
<1>1. c \in OpeningOn(chanOf[c]) /\ OpeningOn(chanOf[c]) \subseteq Conns
  BY DEF OpeningOn, CounterInv, CountType
<1>2. Cardinality(OpeningOn(chanOf[c])) >= 1
  BY <1>1, CountingOne
<1>3. num[chanOf[c]] >= Cardinality(OpeningOn(chanOf[c])) /\ num[chanOf[c]] \in Int
  BY DEF ChannelInv, CounterInv, CountType
<1>4. Cardinality(OpeningOn(chanOf[c])) \in Nat
  BY <1>1, Counting
<1> QED BY <1>2, <1>3, <1>4 DEF ChannelInv

\* Every step of a connection preserves OneChannelInv.
LEMMA OneChannelNext ==
    ASSUME CounterInv, CounterInv', ChannelInv, OneChannelInv, [Next]_vars
    PROVE  OneChannelInv'
<1>1. CASE UNCHANGED vars
  BY <1>1 DEF vars, OneChannelInv, OneChannel, Sharing, Unstored, Using, Quiet
<1>2. ASSUME NEW c \in Conns, UNCHANGED <<chanOf, overlap>>, ~overlap, OneChannel,
             \/ Connect(c) \/ AddOne(c) \/ StoreAfterConnect(c) \/ Start(c)
             \/ Disconnect(c) \/ Subtract(c) \/ StoreAfterDisconnect(c)
             \/ Stop(c)
      PROVE  OneChannelInv'
  <2> USE <1>2 DEF CounterInv, CountType
  <2>1. \A d \in Conns : d # c => pc[d] = "idle" /\ pc'[d] = "idle"
    BY DEF ChannelInv, Connect, AddOne, StoreAfterConnect, Start, Disconnect,
       Subtract, StoreAfterDisconnect, Stop, Goto, MayCall
  <2>2. \A d \in Conns : chanOf[d] = chanOf[c] /\ chanOf[c] \in Chans
    BY DEF OneChannel
  <2>3. Sharing \subseteq Conns
    BY DEF Sharing
  <2>4. /\ counter >= 0
        /\ pc[c] \in {"setNum", "start", "subtract"} => counter > 0
        /\ Using(c) => linkUp[chanOf[c]]
        /\ ~linkUp[chanOf[c]] => num[chanOf[c]] = 0
        /\ ~Unstored(c) /\ linkUp[chanOf[c]] => num[chanOf[c]] = counter
        /\ pc[c] = "idle" /\ linkUp[chanOf[c]] => counter > 0
        /\ paired => counter = Cardinality(Sharing)
    BY <2>1, <2>2 DEF OneChannelInv, Unstored, Quiet
  <2> DEFINE Goal ==
        /\ counter' >= 0
        /\ pc'[c] \in {"setNum", "start", "subtract"} => counter' > 0
        /\ Using(c)' => linkUp'[chanOf[c]]
        /\ ~linkUp'[chanOf[c]] => num'[chanOf[c]] = 0
        /\ ~Unstored(c)' /\ linkUp'[chanOf[c]] => num'[chanOf[c]] = counter'
        /\ pc'[c] = "idle" /\ linkUp'[chanOf[c]] => counter' > 0
        /\ paired' => counter' = Cardinality(Sharing')
  <2>13. SUFFICES Goal
    BY <2>1, <2>2 DEF OneChannelInv, Unstored, Quiet, Using
  <2>5. CASE Connect(c)
    <3>1. /\ pc'[c] = "addOne" /\ linkUp'[chanOf[c]] /\ counter' = counter
          /\ paired' => paired /\ Sharing' = Sharing
      BY <2>1, <2>2, <2>5 DEF Connect, Goto, MayCall, Sharing
    <3> QED BY <2>4, <3>1 DEF Unstored, Using
  <2>6. CASE AddOne(c)
    <3>1. /\ pc'[c] = "setNum" /\ linkUp' = linkUp /\ linkUp[chanOf[c]]
          /\ Sharing' = Sharing \cup {c} /\ paired' = paired
          /\ paired => c \notin Sharing
          /\ counter' = counter + 1
      BY <2>1, <2>4, <2>6 DEF AddOne, Goto, Sharing, Using
    <3>2. paired' => counter' = Cardinality(Sharing')
      BY <2>3, <2>4, <3>1, CountingOne
    <3> QED BY <2>4, <3>1, <3>2 DEF Unstored, Using
  <2>7. CASE StoreAfterConnect(c)
    <3>1. /\ pc'[c] = "start" /\ linkUp' = linkUp /\ linkUp[chanOf[c]]
          /\ Sharing' = Sharing /\ counter' = counter /\ paired' = paired
          /\ num'[chanOf[c]] = counter
      BY <2>1, <2>2, <2>4, <2>7 DEF StoreAfterConnect, Store, Goto, Sharing,
         ChannelInv, Using
    <3> QED BY <2>4, <2>7, <3>1 DEF Unstored, Using, StoreAfterConnect
  <2>8. CASE Start(c)
    <3>1. /\ pc'[c] = "idle" /\ linkUp' = linkUp /\ linkUp[chanOf[c]]
          /\ Sharing' = Sharing /\ counter' = counter /\ num' = num
          /\ paired' = paired /\ ~Unstored(c)
      BY <2>1, <2>4, <2>8 DEF Start, Goto, Sharing, Unstored, Using
    <3> QED BY <2>4, <2>8, <3>1 DEF Unstored, Using, Start
  <2>9. CASE Disconnect(c)
    <3>1. paired' => paired /\ linkUp[chanOf[c]] /\ num[chanOf[c]] # 0
      BY <2>9, OpenIsCounted DEF Disconnect
    <3>2. /\ linkUp' = linkUp /\ counter' = counter /\ num' = num
          /\ pc[c] = "idle" /\ ~Unstored(c)
          /\ \/ pc'[c] = "subtract" /\ linkUp[chanOf[c]] /\ num[chanOf[c]] # 0
             \/ pc'[c] = "stop" /\ ~(linkUp[chanOf[c]] /\ num[chanOf[c]] # 0)
      BY <2>1, <2>9 DEF Disconnect, Goto, MayCall, Unstored
    <3>3. paired' => Sharing' = Sharing
      BY <2>1, <2>9, <3>1, <3>2 DEF Disconnect, Sharing
    <3> QED BY <2>4, <3>1, <3>2, <3>3 DEF Unstored, Using
  <2>10. CASE Subtract(c)
    <3>1. /\ pc'[c] = "setNumLocked" /\ linkUp' = linkUp /\ linkUp[chanOf[c]]
          /\ paired' = paired
          /\ paired => Sharing' = Sharing \ {c} /\ c \in Sharing
          /\ counter' = counter - 1 /\ counter > 0
      BY <2>1, <2>4, <2>10 DEF Subtract, Goto, Sharing, Using
    <3>2. paired' => counter' = Cardinality(Sharing')
      BY <2>3, <2>4, <3>1, CountingOne
    <3> QED BY <2>4, <3>1, <3>2 DEF Unstored, Using
  <2>11. CASE StoreAfterDisconnect(c)
    <3>1. /\ pc'[c] = "stop" /\ linkUp' = linkUp /\ linkUp[chanOf[c]]
          /\ Sharing' = Sharing /\ counter' = counter /\ paired' = paired
          /\ num'[chanOf[c]] = counter
      BY <2>1, <2>2, <2>4, <2>11 DEF StoreAfterDisconnect, Store, Goto,
         Sharing, ChannelInv, Using
    <3> QED BY <2>4, <3>1 DEF Unstored, Using
  <2>12. CASE Stop(c)
    <3>1. /\ pc'[c] = "idle"
          /\ linkUp'[chanOf[c]] <=> linkUp[chanOf[c]] /\ num[chanOf[c]] # 0
          /\ Sharing' = Sharing /\ paired' = paired
          /\ counter' = counter /\ num' = num /\ ~Unstored(c)
      BY <2>1, <2>2, <2>12 DEF Stop, Goto, Sharing, Unstored
    <3> QED BY <2>4, <3>1 DEF Unstored, Using
  <2> QED BY <2>5, <2>6, <2>7, <2>8, <2>9, <2>10, <2>11, <2>12
<1>3. CASE (overlap \/ ~OneChannel) /\ UNCHANGED <<overlap, chanOf>>
  BY <1>3 DEF OneChannelInv, OneChannel
<1> QED BY <1>1, <1>2, <1>3 DEF Next, CounterInv, CountType

\* In a process with one channel whose calls do not overlap, the channel is
\* connected between two calls exactly if GetNoOfConnections is not zero,
\* whatever is disconnected; and that number is the number of the open
\* connections if connections are connected and disconnected in turn.
THEOREM NumberIsExact == Spec => []NumberOfConnections
<1>1. CounterInv /\ ChannelInv /\ OneChannelInv => NumberOfConnections
  <2> SUFFICES ASSUME CounterInv, ChannelInv, OneChannelInv,
                      ~overlap, OneChannel, Quiet, NEW c \in Conns
               PROVE  /\ linkUp[chanOf[c]] <=> num[chanOf[c]] > 0
                      /\ paired => num[chanOf[c]] = Cardinality(OpenOn(chanOf[c]))
    BY DEF NumberOfConnections
  <2>1. open \subseteq Conns /\ \A d \in Conns : pc[d] = "idle"
    BY DEF CounterInv, CountType, Quiet
  <2>2. Sharing = open /\ OpenOn(chanOf[c]) = open
    BY <2>1 DEF Sharing, OpenOn, OneChannel
  <2>3. /\ linkUp[chanOf[c]] => counter > 0 /\ num[chanOf[c]] = counter
        /\ ~linkUp[chanOf[c]] => num[chanOf[c]] = 0
    BY <2>1 DEF OneChannelInv, Unstored
  <2>4. paired /\ ~linkUp[chanOf[c]] => open = {}
    BY <2>1 DEF ChannelInv, OneChannel
  <2> QED BY <2>2, <2>3, <2>4, FS_EmptySet DEF OneChannelInv
<1>2. Spec => [](CounterInv /\ ChannelInv)
  BY CounterInvariant, ChannelInit, ChannelNext, PTL DEF Spec
<1>3. Spec => []OneChannelInv
  BY <1>2, CounterInvariant, OneChannelInit, OneChannelNext, PTL DEF Spec
<1> QED BY <1>1, <1>2, <1>3, PTL
=============================================================================
