---------------------------- MODULE QueryProofs -----------------------------
(***************************************************************************)
(* Proofs about the two halves of a query: EntityStream, for any graph and *)
(* answers of any length, and Queries, for any options and values.         *)
(*                                                                         *)
(* The invariant of the first ties the reference map to the part of the    *)
(* answer that was read: the map has what is in that part, filled, and     *)
(* what is named in it, as shells.  With it the results are known too:     *)
(* whether an entity is new to the map is whether one before it has named  *)
(* it.  The invariant of the second ties the options object to what was    *)
(* accepted for it.                                                        *)
(***************************************************************************)
EXTENDS EntityStream, Queries, TLAPS

-----------------------------------------------------------------------------
(* EntityStream *)

Entities == NodeIds \cup EdgeIds

StreamType ==
    /\ call \in Calls /\ answer \in Seq(Entities)
    /\ \A i, j \in DOMAIN answer : answer[i] = answer[j] => i = j
    /\ \A i \in DOMAIN answer : content[answer[i]] \in Readability
    /\ next \in 1..Len(answer) + 1
    /\ status \in {"reading", "done", "error", "panic", "misread"}
    /\ resultList \in Seq(Entities) /\ currPos \in Int

\* What was read, and what is named in it.
WasRead(id)  == \E i \in 1..next - 1 : answer[i] = id
WasNamed(id) == \E i \in 1..next - 1 : id \in Named(answer[i])

MapFollows ==
    /\ \A id : id \in DOMAIN refMap <=> WasRead(id) \/ WasNamed(id)
    /\ \A id \in DOMAIN refMap :
          /\ refMap[id] \in [isInitialized : BOOLEAN]
          /\ refMap[id].isInitialized <=> WasRead(id)

\* The entity at place p of the answer is one that the call returns.
Returned(p) ==
    \/ call = "GetEntities" /\ answer[p] \in isResult
    \/ call = "Query" /\ \A j \in 1..p - 1 : answer[p] \notin Named(answer[j])
    \/ call = "GetEntity" /\ p = 1

ListFollows ==
    /\ \A id : id \in ToSet(resultList) <=>
                  \E p \in 1..next - 1 : Returned(p) /\ answer[p] = id
    /\ \A i, j \in DOMAIN resultList, k, l \in DOMAIN answer :
          i < j /\ resultList[i] = answer[k] /\ resultList[j] = answer[l] => k < l

\* A cursor waits before the first result until the answer is read.
CursorFollows ==
    /\ status = "done" => next = Len(answer) + 1
    /\ status # "done" => currPos = -1
    /\ currPos \in (-1)..(Len(resultList) - 1)

\* What cannot be read is an edge that nothing before it has named, or the
\* attributes of an entity.
PanicFollows ==
    status \notin {"reading", "done"} =>
        /\ next <= Len(answer)
        /\ \/ CreateEdgePanics(answer[next]) /\ status = "panic"
           \/ status \in ReadExternalEnds(answer[next])

StreamInv ==
    StreamType /\ MapFollows /\ ListFollows /\ CursorFollows /\ PanicFollows

-----------------------------------------------------------------------------
(* Names *)

\* Entities name entities, and none names itself.
LEMMA NamedFields ==
    ASSUME StreamAssumption, NEW id \in Entities
    PROVE  /\ Named(id) \subseteq Entities /\ id \notin Named(id)
           /\ id \in EdgeIds => \A n \in EndsOf[id] : n \in NodeIds /\ id \in Named(n)
BY DEF StreamAssumption, Named, Entities

\* At first nothing was read.
LEMMA StreamInvInit ==
    ASSUME StreamAssumption, StreamInit
    PROVE  StreamInv
<1> USE DEF StreamInit
<1>1. PICK m \in 0..MaxEntities : answer \in [1..m -> Entities]
  BY DEF SeqOf, Entities
<1>2. m \in Nat /\ answer \in Seq(Entities)
  BY <1>1 DEF StreamAssumption
<1>3. Len(answer) \in Nat
  BY <1>2
<1>4. \A i, j \in DOMAIN answer : answer[i] = answer[j] => i = j
  BY DEF IsInjective
<1>11. \A i \in DOMAIN answer : content[answer[i]] \in Readability
  BY <1>2 DEF ToSet
<1>5. StreamType
  BY <1>2, <1>3, <1>4, <1>11 DEF StreamType, Calls
<1>6. ~ \E i : i \in 1..next - 1
  OBVIOUS
<1>7. MapFollows
  BY <1>6 DEF MapFollows, WasRead, WasNamed, NoRefs
<1>8. Len(resultList) = 0 /\ DOMAIN resultList = {} /\ ToSet(resultList) = {}
  BY DEF ToSet
<1>9. ListFollows
  BY <1>6, <1>8 DEF ListFollows
<1>10. CursorFollows
  BY <1>8 DEF CursorFollows
<1> QED BY <1>5, <1>7, <1>9, <1>10 DEF StreamInv, PanicFollows

-----------------------------------------------------------------------------
(* Reading *)

\* Places in the answer, and what one more adds to what was read and named.
LEMMA OneMore ==
    ASSUME StreamType, status = "reading", next <= Len(answer),
           next' = next + 1, answer' = answer
    PROVE  /\ next \in DOMAIN answer /\ answer[next] \in Entities
           /\ 1..next' - 1 = (1..next - 1) \cup {next}
           /\ 1..next - 1 \subseteq DOMAIN answer
           /\ next' \in 1..Len(answer') + 1
           /\ \A id : WasRead(id)' <=> WasRead(id) \/ id = answer[next]
           /\ \A id : WasNamed(id)' <=> WasNamed(id) \/ id \in Named(answer[next])
           /\ ~WasRead(answer[next])
<1>1. /\ Len(answer) \in Nat /\ DOMAIN answer = 1..Len(answer)
      /\ next \in Nat \ {0} /\ next' - 1 = next
  BY DEF StreamType
<1>2. next \in DOMAIN answer /\ answer[next] \in Entities
  BY <1>1 DEF StreamType
<1>3. 1..next' - 1 = (1..next - 1) \cup {next} /\ 1..next - 1 \subseteq DOMAIN answer
  BY <1>1
<1>4. next' \in 1..Len(answer') + 1
  <2>1. Len(answer') = Len(answer)
    OBVIOUS
  <2> QED BY <1>1, <2>1
<1>5. ~WasRead(answer[next])
  BY <1>1, <1>2, <1>3 DEF WasRead, StreamType
<1> QED BY <1>2, <1>3, <1>4, <1>5 DEF WasRead, WasNamed

\* The reference map after an entity was read.
LEMMA ReadFields ==
    ASSUME MapFollows, NEW id, ReadInto(id)
    PROVE  /\ DOMAIN refMap' = DOMAIN refMap \cup {id} \cup Named(id)
           /\ \A x \in DOMAIN refMap' : refMap'[x] \in [isInitialized : BOOLEAN]
           /\ refMap'[id].isInitialized
           /\ \A x \in DOMAIN refMap' \ {id} :
                 refMap'[x].isInitialized <=>
                    x \in DOMAIN refMap /\ refMap[x].isInitialized
<1>1. PICK m : m = Mentioned(id)
  OBVIOUS
<1>2. /\ DOMAIN m = DOMAIN refMap \cup {id} \cup Named(id)
      /\ \A x \in DOMAIN m : m[x] = IF x \in DOMAIN refMap THEN refMap[x] ELSE Shell
      /\ m = [x \in DOMAIN m |-> m[x]]
  BY <1>1 DEF Mentioned
<1> DEFINE Objs == [isInitialized : BOOLEAN]
<1>3. Shell \in Objs /\ ~Shell.isInitialized
  BY DEF Shell
<1>4. \A x \in DOMAIN refMap : refMap[x] \in Objs
  BY DEF MapFollows
<1>5. \A x \in DOMAIN m : m[x] \in Objs
  <2> HIDE DEF Objs
  <2> QED BY <1>2, <1>3, <1>4
<1>6. refMap' = [m EXCEPT ![id].isInitialized = TRUE]
  BY <1>1 DEF ReadInto
<1>7. /\ DOMAIN refMap' = DOMAIN m
      /\ refMap'[id] = [m[id] EXCEPT !.isInitialized = TRUE]
      /\ \A x \in DOMAIN m \ {id} : refMap'[x] = m[x]
  BY <1>2, <1>6
<1>8. refMap'[id] \in Objs /\ refMap'[id].isInitialized
  BY <1>2, <1>5, <1>7
<1> HIDE DEF Objs
<1>9. \A x \in DOMAIN refMap' : refMap'[x] \in Objs
  BY <1>5, <1>7, <1>8
<1>10. \A x \in DOMAIN m \ {id} :
          refMap'[x].isInitialized <=> x \in DOMAIN refMap /\ refMap[x].isInitialized
  BY <1>2, <1>7, <1>3
<1> QED BY <1>2, <1>7, <1>8, <1>9, <1>10 DEF Objs

\* Whether an entity is new to the map when its turn comes.
LEMMA NewToMap ==
    ASSUME StreamAssumption, StreamInv, status = "reading", next <= Len(answer)
    PROVE  answer[next] \notin DOMAIN refMap <=>
              \A j \in 1..next - 1 : answer[next] \notin Named(answer[j])
<1>1. ~WasRead(answer[next])
  <2>1. next \in DOMAIN answer /\ 1..next - 1 \subseteq DOMAIN answer /\ next \in Nat
    BY DEF StreamInv, StreamType
  <2> QED BY <2>1 DEF WasRead, StreamInv, StreamType
<1> QED BY <1>1 DEF StreamInv, MapFollows, WasNamed

\* What a step of reading does to the results: the entity is added exactly if
\* it is one that the call returns.
LEMMA AddedIfReturned ==
    ASSUME StreamAssumption, StreamInv, status = "reading", next <= Len(answer)
    PROVE  AddEntityToResultSet(answer[next]) =
              IF Returned(next) THEN Append(resultList, answer[next])
                                ELSE resultList
<1> DEFINE id == answer[next]
           new == id \notin DOMAIN refMap
<1>1. new <=> \A j \in 1..next - 1 : id \notin Named(answer[j])
  BY NewToMap
<1>2. call \in Calls /\ next \in Nat \ {0} /\ resultList \in Seq(Entities)
      /\ next \in DOMAIN answer
  BY DEF StreamInv, StreamType
<1> HIDE DEF new
<1>3. CASE call = "Query"
  BY <1>1, <1>3 DEF AddEntityToResultSet, Returned, new
<1>4. CASE call = "GetEntities"
  BY <1>4 DEF AddEntityToResultSet, Returned
<1>5. CASE call = "GetEntity"
  <2>1. resultList = <<>> <=> next = 1
    <3>1. resultList = <<>> <=> ToSet(resultList) = {}
      BY <1>2 DEF ToSet
    <3>2. \A x : x \in ToSet(resultList) <=>
                   \E p \in 1..next - 1 : Returned(p) /\ answer[p] = x
      BY DEF StreamInv, ListFollows
    <3>3. next # 1 => 1 \in 1..next - 1 /\ Returned(1)
      BY <1>2, <1>5 DEF Returned
    <3>4. next = 1 => 1..next - 1 = {}
      OBVIOUS
    <3> QED BY <3>1, <3>2, <3>3, <3>4
  <2>2. next = 1 => new
    BY <1>1
  <2>3. next = 1 => Append(resultList, id) = <<id>>
    BY <2>1
  <2> QED BY <1>5, <2>1, <2>2, <2>3 DEF AddEntityToResultSet, Returned, new
<1> QED BY <1>2, <1>3, <1>4, <1>5 DEF Calls

\* Reading one more entity.
LEMMA ReadingInv ==
    ASSUME StreamAssumption, StreamInv, PopulateResultSet
    PROVE  StreamInv'
<1> USE DEF StreamInv
<1> DEFINE id == answer[next]
<1>1. /\ status = "reading" /\ next <= Len(answer)
      /\ UNCHANGED <<call, answer, isResult, content, currPos, isOpen>>
  BY DEF PopulateResultSet, responseVars, cursorVars
<1>4. id \in {answer[i] : i \in DOMAIN answer} /\ content[id] \in Readability
  BY <1>1 DEF StreamType
<1>5. /\ status' \in IF CreateEdgePanics(id) THEN {"panic"} ELSE ReadExternalEnds(id)
      /\ IF status' = "reading"
         THEN /\ next' = next + 1 /\ ReadInto(id)
              /\ resultList' = AddEntityToResultSet(id)
         ELSE UNCHANGED <<next, refMap, resultList>>
  BY DEF PopulateResultSet
<1>6. ReadExternalEnds(id) \subseteq {"reading", "error", "panic", "misread"}
  BY <1>4 DEF ReadExternalEnds, Readability
<1>2. CASE status' # "reading"
  <2>1. /\ status' \in {"error", "panic", "misread"}
        /\ UNCHANGED <<next, refMap, resultList>>
    BY <1>2, <1>5, <1>6
  <2>2. PanicFollows'
    BY <1>1, <1>2, <1>5, <2>1 DEF PanicFollows, CreateEdgePanics, ReadExternalEnds
  <2> QED BY <1>1, <1>2, <2>1, <2>2 DEF StreamType, MapFollows, ListFollows,
                CursorFollows, WasRead, WasNamed, Returned
<1>3. CASE status' = "reading"
  <2>1. /\ next' = next + 1 /\ status' = "reading" /\ ReadInto(id)
        /\ resultList' = IF Returned(next) THEN Append(resultList, id)
                                           ELSE resultList
    BY <1>1, <1>3, <1>5, AddedIfReturned
  <2>2. /\ next \in DOMAIN answer /\ id \in Entities
        /\ 1..next' - 1 = (1..next - 1) \cup {next}
        /\ 1..next - 1 \subseteq DOMAIN answer
        /\ next' \in 1..Len(answer') + 1
        /\ \A x : WasRead(x)' <=> WasRead(x) \/ x = id
        /\ \A x : WasNamed(x)' <=> WasNamed(x) \/ x \in Named(id)
        /\ ~WasRead(id)
    BY <1>1, <2>1, OneMore
  <2> HIDE DEF id
  <2>3. resultList \in Seq(Entities) /\ resultList' \in Seq(Entities)
    BY <2>1, <2>2 DEF StreamType
  <2>4. StreamType'
    BY <1>1, <2>1, <2>2, <2>3 DEF StreamType
  <2>5. MapFollows'
    BY <2>1, <2>2, ReadFields DEF MapFollows
  <2>6. \A p : Returned(p)' <=> Returned(p)
    BY <1>1 DEF Returned
  <2>7. ASSUME NEW x
        PROVE  x \in ToSet(resultList') <=>
                  x \in ToSet(resultList) \/ (Returned(next) /\ x = id)
    BY <2>1, <2>3 DEF ToSet
  <2>8. \A x : x \in ToSet(resultList') <=>
                  \E p \in 1..next' - 1 : Returned(p)' /\ answer'[p] = x
    BY <1>1, <2>2, <2>6, <2>7 DEF ListFollows, id
  <2>9. ASSUME NEW i \in DOMAIN resultList', NEW j \in DOMAIN resultList',
               NEW k \in DOMAIN answer, NEW l \in DOMAIN answer, i < j,
               resultList'[i] = answer[k], resultList'[j] = answer[l]
        PROVE  k < l
    <3>1. CASE j \in DOMAIN resultList
      <4>1. i \in DOMAIN resultList
        BY <2>3, <2>9, <3>1
      <4>2. resultList'[i] = resultList[i] /\ resultList'[j] = resultList[j]
        BY <2>1, <2>3, <3>1, <4>1
      <4> QED BY <2>9, <3>1, <4>1, <4>2 DEF ListFollows
    <3>2. CASE j \notin DOMAIN resultList
      <4>1. /\ Returned(next) /\ j = Len(resultList) + 1 /\ i \in DOMAIN resultList
            /\ resultList'[j] = id /\ resultList'[i] = resultList[i]
        BY <2>1, <2>3, <2>9, <3>2
      <4>2. l = next
        BY <2>2, <2>9, <4>1 DEF StreamType, id
      <4>3. PICK p \in 1..next - 1 : answer[p] = resultList[i]
        BY <4>1 DEF ListFollows, ToSet
      <4>4. k = p
        BY <2>2, <2>9, <4>1, <4>3 DEF StreamType
      <4> QED BY <2>2, <4>2, <4>3, <4>4 DEF StreamType
    <3> QED BY <3>1, <3>2
  <2>10. ListFollows'
    BY <1>1, <2>8, <2>9 DEF ListFollows
  <2>11. CursorFollows'
    BY <1>1, <2>1, <2>3 DEF CursorFollows
  <2> QED BY <2>1, <2>4, <2>5, <2>10, <2>11 DEF PanicFollows
<1> QED BY <1>2, <1>3

-----------------------------------------------------------------------------
(* The end of the answer, and the cursor *)

\* What is neither read nor moved over stays as it is.
LEMMA OthersInv ==
    ASSUME StreamInv, UNCHANGED <<call, answer, isResult, content, next, refMap, resultList>>,
           status' = status \/ (status = "reading" /\ status' = "done"),
           CursorFollows'
    PROVE  StreamInv'
<1> USE DEF StreamInv
<1>1. StreamType'
  BY DEF StreamType, CursorFollows
<1>2. MapFollows'
  BY DEF MapFollows, WasRead, WasNamed
<1>3. ListFollows'
  BY DEF ListFollows, Returned
<1>4. PanicFollows'
  BY DEF PanicFollows, CreateEdgePanics, ReadExternalEnds
<1> QED BY <1>1, <1>2, <1>3, <1>4

\* A move of the cursor to a result, or to before the first one.
LEMMA MovesInv ==
    ASSUME StreamInv, NEW pos \in (-1)..(Len(resultList) - 1), Moves(pos)
    PROVE  StreamInv'
<1>1. /\ UNCHANGED <<call, answer, isResult, content, next, refMap, resultList, status>>
      /\ status = "done" /\ currPos' = pos
  BY DEF Moves, HasResultSet, responseVars
<1>2. CursorFollows'
  BY <1>1 DEF StreamInv, CursorFollows
<1> QED BY <1>1, <1>2, OthersInv

\* Every step keeps the invariant.
LEMMA StreamInvNext ==
    ASSUME StreamAssumption, StreamInv, [StreamNext]_streamVars
    PROVE  StreamInv'
<1>1. /\ Len(resultList) \in Nat /\ currPos \in Int /\ Len(answer) \in Nat
      /\ next \in 1..Len(answer) + 1 /\ currPos \in (-1)..(Len(resultList) - 1)
  BY DEF StreamInv, StreamType, CursorFollows
<1>2. CASE PopulateResultSet
  BY <1>2, ReadingInv
<1>3. CASE Return
  <2>1. /\ UNCHANGED <<call, answer, isResult, content, next, refMap, resultList, currPos>>
        /\ status = "reading" /\ status' = "done" /\ next > Len(answer)
    BY <1>3 DEF Return, responseVars, cursorVars
  <2>2. CursorFollows'
    BY <1>1, <2>1 DEF StreamInv, CursorFollows
  <2> QED BY <2>1, <2>2, OthersInv
<1>4. CASE NextResult
  BY <1>1, <1>4, MovesInv DEF NextResult, HasNext
<1>5. CASE Prev
  BY <1>1, <1>5, MovesInv DEF Prev
<1>6. CASE \E n \in -2..2 : Skip(n)
  BY <1>1, <1>6, MovesInv DEF Skip
<1>7. CASE Close \/ UNCHANGED streamVars
  <2>1. UNCHANGED <<call, answer, isResult, content, next, refMap, resultList, status, currPos>>
    BY <1>7 DEF Close, streamVars, responseVars, cursorVars
  <2>2. CursorFollows'
    BY <2>1 DEF StreamInv, CursorFollows
  <2> QED BY <2>1, <2>2, OthersInv
<1> QED BY <1>2, <1>3, <1>4, <1>5, <1>6, <1>7 DEF StreamNext

\* The invariant holds always.
LEMMA StreamInvAlways ==
    ASSUME StreamAssumption
    PROVE  StreamSpec => []StreamInv
<1>1. StreamInit => StreamInv
  BY StreamInvInit
<1>2. StreamInv /\ [StreamNext]_streamVars => StreamInv'
  BY StreamInvNext
<1> QED BY <1>1, <1>2, PTL DEF StreamSpec

-----------------------------------------------------------------------------
(* Theorems *)

\* At the end of the answer its entities, and no others, are objects with
\* content, whether they were named before or after their own bytes came: what
\* populateResultSet and ReadExternal do with the reference map.
THEOREM OneObjectForEach ==
    ASSUME StreamAssumption
    PROVE  StreamSpec => []OneObjectEach
<1>1. StreamInv => OneObjectEach
  <2> SUFFICES ASSUME StreamInv, status = "done", NEW id \in DOMAIN refMap
               PROVE  refMap[id].isInitialized <=> id \in ToSet(answer)
    BY DEF OneObjectEach
  <2>1. 1..next - 1 = DOMAIN answer
    BY DEF StreamInv, StreamType, CursorFollows
  <2>2. WasRead(id) <=> id \in ToSet(answer)
    BY <2>1 DEF WasRead, ToSet
  <2> QED BY <2>2 DEF StreamInv, MapFollows
<1> QED BY <1>1, StreamInvAlways, PTL

\* The results are in the order of the answer and have their content, and at
\* the end they are those that the call returns: what populateResultSet adds to
\* the result set, and what GetEntity finds.
THEOREM ResultsInOrder ==
    ASSUME StreamAssumption
    PROVE  StreamSpec => []ResultsOnce
<1>1. StreamInv => ResultsOnce
  <2> SUFFICES ASSUME StreamInv
               PROVE  ResultsOnce
    OBVIOUS
  <2>1. /\ Len(answer) \in Nat /\ DOMAIN answer = 1..Len(answer)
        /\ next \in 1..Len(answer) + 1 /\ call \in Calls
    BY DEF StreamInv, StreamType
  <2>2. 1..next - 1 \subseteq DOMAIN answer
    BY <2>1
  <2>3. ASSUME NEW id \in ToSet(resultList)
        PROVE  /\ id \in DOMAIN refMap \cap ToSet(answer)
               /\ refMap[id].isInitialized
    <3>1. WasRead(id)
      BY <2>3 DEF StreamInv, ListFollows, WasRead
    <3>2. id \in ToSet(answer)
      BY <2>2, <3>1 DEF WasRead, ToSet
    <3> QED BY <3>1, <3>2 DEF StreamInv, MapFollows
  <2>4. ASSUME status = "done"
        PROVE  ToSet(resultList) = Results
    <3>1. 1..next - 1 = DOMAIN answer
      BY <2>1, <2>4 DEF StreamInv, CursorFollows
    <3>2. \A id : id \in ToSet(resultList) <=>
                     \E p \in DOMAIN answer : Returned(p) /\ answer[p] = id
      BY <3>1 DEF StreamInv, ListFollows
    <3>3. CASE call = "GetEntities"
      BY <3>2, <3>3 DEF Results, Returned, ToSet
    <3>4. CASE call = "Query"
      BY <3>2, <3>4 DEF Results, Returned
    <3>5. CASE call = "GetEntity"
      BY <3>2, <3>5 DEF Results, Returned
    <3> QED BY <2>1, <3>3, <3>4, <3>5 DEF Calls
  <2>5. \A i, j \in DOMAIN resultList, k, l \in DOMAIN answer :
           i < j /\ resultList[i] = answer[k] /\ resultList[j] = answer[l] => k < l
    BY DEF StreamInv, ListFollows
  <2> QED BY <2>3, <2>4, <2>5 DEF ResultsOnce
<1> QED BY <1>1, StreamInvAlways, PTL

\* CreateEdgeWithDirection(nil, nil) is never called for an answer that has a
\* node of each edge before the edge: what ends the reading of such an answer
\* is an attribute of the entity that is read, and one that ends it that way.
THEOREM ReadNodesFirst ==
    ASSUME StreamAssumption
    PROVE  StreamSpec => []ReadToItsEnd
<1>1. StreamInv => ReadToItsEnd
  <2> SUFFICES ASSUME StreamInv, NodesFirst, status \notin {"reading", "done"}
               PROVE  /\ next \in DOMAIN answer
                      /\ content[answer[next]] \in
                            CASE status = "panic"   -> {"null", "zoneless"}
                              [] status = "error"   -> {"unknown", "zoneless"}
                              [] status = "misread" -> {"zoneless"}
    BY DEF ReadToItsEnd
  <2> DEFINE id == answer[next]
  <2>1. /\ next \in DOMAIN answer /\ next <= Len(answer)
        /\ id \in Entities /\ content[id] \in Readability
        /\ status \in {"error", "panic", "misread"}
        /\ CreateEdgePanics(id) \/ status \in ReadExternalEnds(id)
    <3>1. /\ Len(answer) \in Nat /\ DOMAIN answer = 1..Len(answer)
          /\ next \in 1..Len(answer) + 1 /\ next <= Len(answer)
          /\ status \in {"error", "panic", "misread"}
          /\ \A i \in DOMAIN answer : answer[i] \in Entities /\ content[answer[i]] \in Readability
      BY DEF StreamInv, StreamType, PanicFollows
    <3>2. next \in DOMAIN answer /\ id \in Entities /\ content[id] \in Readability
      BY <3>1
    <3>3. CreateEdgePanics(id) \/ status \in ReadExternalEnds(id)
      BY DEF StreamInv, PanicFollows
    <3> HIDE DEF id
    <3> QED BY <3>1, <3>2, <3>3
  <2>2. ~CreateEdgePanics(id)
    <3> SUFFICES ASSUME id \in EdgeIds, id \notin DOMAIN refMap
                 PROVE  FALSE
      BY DEF CreateEdgePanics
    <3>1. PICK j \in 1..next - 1 : answer[j] \in EndsOf[id]
      BY <2>1 DEF NodesFirst
    <3>2. id \in Named(answer[j])
      BY <2>1, <3>1, NamedFields
    <3>3. WasNamed(id)
      BY <3>2 DEF WasNamed
    <3> QED BY <3>3 DEF StreamInv, MapFollows
  <2>3. status \in ReadExternalEnds(id)
    BY <2>1, <2>2
  <2> QED BY <2>1, <2>3 DEF ReadExternalEnds, Readability
<1> QED BY <1>1, StreamInvAlways, PTL

\* Next, Prev and Skip never leave the cursor of a result set outside of it.
THEOREM CursorStaysInside ==
    ASSUME StreamAssumption
    PROVE  StreamSpec => []CursorOnResult
<1>1. StreamInv => CursorOnResult
  BY DEF StreamInv, CursorFollows, CursorOnResult
<1> QED BY <1>1, StreamInvAlways, PTL

-----------------------------------------------------------------------------
(* Queries *)

\* What an option that can be found has for its value: what was accepted for it,
\* or what it was preloaded with.
Holds(props, acc, n) ==
    IF n \in DOMAIN acc
    THEN /\ acc[n].value \in ValuesOf(n) /\ acc[n].added \in BOOLEAN
         /\ props[n].value = IF acc[n].added THEN Text(n, acc[n].value)
                             ELSE <<Kept(n, acc[n].value)>>
         /\ acc[n].added \/ ~Refused(n, acc[n].value)
    ELSE n \in DOMAIN Preloaded /\ props[n].value = Preloaded[n]

Follows(props, acc) ==
    \A n \in DOMAIN props : props[n].exact => Holds(props, acc, n)

\* The invariant: options are pairs of a text and a truth, and what can be found
\* follows what was accepted.
Texts == {<<>>} \cup {<<v>> : v \in STRING \cup Int}

OptionInv ==
    /\ option \in [DOMAIN option -> [value : Texts, exact : BOOLEAN]]
    /\ Follows(option, accepted)

\* The texts of numbers are texts, and the empty one is.
LEMMA TextsOfNumbers == <<>> \in Texts /\ \A v \in Int : <<v>> \in Texts
BY DEF Texts

\* The search for one name.
LEMMA GetOne ==
    ASSUME NEW props, NEW n, NEW substitute
    PROVE  GetProperty(props, <<n>>, substitute) =
             IF n \in DOMAIN props /\ props[n].exact /\ props[n].value # <<>>
             THEN props[n].value ELSE substitute
<1> DEFINE found == {i \in DOMAIN <<n>> :
                       DoesPropertyExist(props, <<n>>[i]) /\ props[<<n>>[i]].exact}
           first == CHOOSE i \in found : \A j \in found : i <= j
<1>1. found = IF n \in DOMAIN props /\ props[n].exact THEN {1} ELSE {}
  BY DEF DoesPropertyExist
<1>2. found # {} => first = 1
  BY <1>1
<1>3. GetProperty(props, <<n>>, substitute) =
        IF found = {} THEN substitute
        ELSE IF props[<<n>>[first]].value = <<>> THEN substitute
        ELSE props[<<n>>[first]].value
  BY Zenon DEF GetProperty
<1> HIDE DEF found, first
<1> QED BY <1>1, <1>2, <1>3

\* What the options of a new object are.
LEMMA PreloadedValues ==
    /\ DOMAIN Preloaded = Names \ {"batchsize"}
    /\ \A n \in Limits : Missing(n) \in {0, 3, 1000}
    /\ \A n \in Limits \ {"batchsize"} : Preloaded[n] = <<Missing(n)>>
    /\ Preloaded["sortattrname"] = <<>> /\ Preloaded["sortorder"] = <<0>>
<1>1. DOMAIN Preloaded = Names \ {"batchsize"}
  BY DEF Preloaded, Names, Limits
<1>2. /\ Preloaded["fetchsize"] = <<1000>> /\ Preloaded["traversaldepth"] = <<3>>
      /\ Preloaded["edgelimit"] = <<0>> /\ Preloaded["sortresultlimit"] = <<0>>
      /\ Preloaded["sortattrname"] = <<>> /\ Preloaded["sortorder"] = <<0>>
  BY DEF Preloaded
<1>3. /\ Missing("batchsize") = 1000 /\ Missing("fetchsize") = 1000
      /\ Missing("traversaldepth") = 3 /\ Missing("edgelimit") = 0
      /\ Missing("sortresultlimit") = 0
  BY <1>2 DEF Missing
<1> QED BY <1>1, <1>2, <1>3 DEF Limits

\* What GetNumber makes of an option.
LEMMA NumberOf ==
    ASSUME NEW props, NEW acc, Follows(props, acc), NEW n \in Limits
    PROVE  GetNumber(props, n) =
             IF n \notin DOMAIN props THEN Missing(n)
             ELSE IF ~props[n].exact \/ n \notin DOMAIN acc
             THEN IF n = "batchsize" THEN 50 ELSE Missing(n)
             ELSE ParseInt(IF acc[n].added \/ acc[n].value # 0
                           THEN acc[n].value ELSE -1)
<1> DEFINE default == IF n = "batchsize" THEN 50 ELSE Missing(n)
<1>1. default \in {0, 3, 50, 1000} /\ ParseInt(default) = default
  <2>1. default \in {0, 3, 50, 1000}
    BY PreloadedValues
  <2> HIDE DEF default
  <2> QED BY SMT, <2>1 DEF ParseInt, MaxInt, MinInt
<1>2. CASE n \notin DOMAIN props
  BY <1>2 DEF GetNumber, DoesPropertyExist
<1>3. CASE n \in DOMAIN props /\ ~props[n].exact
  BY <1>1, <1>3, GetOne DEF GetNumber, DoesPropertyExist
<1>4. CASE n \in DOMAIN props /\ props[n].exact /\ n \notin DOMAIN acc
  <2>1. n \in DOMAIN Preloaded /\ props[n].value = Preloaded[n]
    BY <1>4 DEF Follows, Holds
  <2>2. n # "batchsize" /\ Preloaded[n] = <<Missing(n)>>
    BY <2>1, PreloadedValues
  <2> QED BY <1>1, <1>4, <2>1, <2>2, GetOne DEF GetNumber, DoesPropertyExist
<1>5. CASE n \in DOMAIN props /\ props[n].exact /\ n \in DOMAIN acc
  <2>1. props[n].value = <<IF acc[n].added \/ acc[n].value # 0
                           THEN acc[n].value ELSE -1>>
    BY <1>5 DEF Follows, Holds, Text, Kept, Limits
  <2> QED BY <1>5, <2>1, GetOne DEF GetNumber, DoesPropertyExist
<1> QED BY <1>2, <1>3, <1>4, <1>5

\* A limit passes the setter of the request unless it is out of range.
LEMMA LimitsCarried ==
    ASSUME NEW props, NEW acc, Follows(props, acc), NEW isNil
    PROVE  /\ CarriesLimits(ConfigureGetRequest(props), With(isNil, acc, props))
           /\ CarriesLimits(ConfigureQueryRequest(props), With(isNil, acc, props))
           /\ Carries(ConfigureQueryRequest(props).sortresultlimit,
                      With(isNil, acc, props), "sortresultlimit", 0, MaxInt, 0, 50)
<1> DEFINE w == With(isNil, acc, props)
           get == ConfigureGetRequest(props)
           query == ConfigureQueryRequest(props)
<1>1. /\ w.accepted = acc /\ w.known = DOMAIN props
      /\ w.found = {n \in DOMAIN props : props[n].exact}
  BY DEF With
<1>2. /\ query.batchsize = get.batchsize /\ query.fetchsize = get.fetchsize
      /\ query.traversaldepth = get.traversaldepth
      /\ query.edgelimit = get.edgelimit
      /\ query.sortresultlimit
           = SetSortResultLimit(GetNumber(props, "sortresultlimit"))
  BY DEF ConfigureQueryRequest
<1>3. /\ get.batchsize = SetBatchSize(GetNumber(props, "batchsize"))
      /\ get.fetchsize = SetFetchSize(GetNumber(props, "fetchsize"))
      /\ get.traversaldepth = SetTraversalDepth(GetNumber(props, "traversaldepth"))
      /\ get.edgelimit = SetEdgeLimit(GetNumber(props, "edgelimit"))
  BY DEF ConfigureGetRequest
<1>4. ASSUME NEW n \in Limits, n \in w.found \cap DOMAIN acc
      PROVE  /\ acc[n].value \in Int
             /\ GetNumber(props, n) =
                  ParseInt(IF acc[n].added \/ acc[n].value # 0
                           THEN acc[n].value ELSE -1)
  <2>1. n \in DOMAIN props /\ props[n].exact /\ n \in DOMAIN acc
    BY <1>1, <1>4
  <2>2. acc[n].value \in ValuesOf(n)
    BY <2>1 DEF Follows, Holds
  <2>3. acc[n].value \in Int
    BY <2>2 DEF ValuesOf, Limits
  <2> QED BY <2>1, <2>3, NumberOf
<1>5. ASSUME NEW n \in Limits, n \notin w.found \cap DOMAIN acc
      PROVE  GetNumber(props, n) = IF n = "batchsize" /\ n \in w.known THEN 50
                                   ELSE Missing(n)
  BY <1>1, <1>5, NumberOf
<1>6. /\ Limits = {"batchsize", "fetchsize", "traversaldepth", "edgelimit",
                   "sortresultlimit"}
      /\ Missing("batchsize") = 1000 /\ Missing("fetchsize") = 1000
      /\ Missing("traversaldepth") = 3 /\ Missing("edgelimit") = 0
      /\ Missing("sortresultlimit") = 0
  BY DEF Limits, Missing, Preloaded
<1>7. ASSUME NEW v \in Int
      PROVE  /\ ParseInt(v) \in Int /\ MinInt <= ParseInt(v) /\ ParseInt(v) <= MaxInt
             /\ ParseInt(v) = 0 <=> v = 0
             /\ ParseInt(-1) = -1
  BY SMT DEF ParseInt, MinInt, MaxInt
<1> HIDE DEF w, get, query
<1>8. Carries(get.batchsize, w, "batchsize", 10, 32767,
              IF "batchsize" \in w.known THEN 50 ELSE 1000, 50)
  <2>1. CASE "batchsize" \in w.found \cap DOMAIN acc
    BY SMT, <1>1, <1>3, <1>4, <1>6, <1>7, <2>1
       DEF Carries, SetBatchSize, Within, MinInt, MaxInt
  <2>2. CASE "batchsize" \notin w.found \cap DOMAIN acc
    BY SMT, <1>1, <1>3, <1>5, <1>6, <2>2 DEF Carries, SetBatchSize, Within
  <2> QED BY <2>1, <2>2
<1>9. Carries(get.fetchsize, w, "fetchsize", 0, MaxInt, 1000, 1000)
  <2>1. CASE "fetchsize" \in w.found \cap DOMAIN acc
    BY SMT, <1>1, <1>3, <1>4, <1>6, <1>7, <2>1
       DEF Carries, SetFetchSize, MinInt, MaxInt
  <2>2. CASE "fetchsize" \notin w.found \cap DOMAIN acc
    BY SMT, <1>1, <1>3, <1>5, <1>6, <2>2 DEF Carries, SetFetchSize
  <2> QED BY <2>1, <2>2
<1>10. Carries(get.traversaldepth, w, "traversaldepth", 1, 1000, 3, 3)
  <2>1. CASE "traversaldepth" \in w.found \cap DOMAIN acc
    BY SMT, <1>1, <1>3, <1>4, <1>6, <1>7, <2>1
       DEF Carries, SetTraversalDepth, Within, MinInt, MaxInt
  <2>2. CASE "traversaldepth" \notin w.found \cap DOMAIN acc
    BY SMT, <1>1, <1>3, <1>5, <1>6, <2>2 DEF Carries, SetTraversalDepth, Within
  <2> QED BY <2>1, <2>2
<1>11. Carries(get.edgelimit, w, "edgelimit", 0, 32767, 0, 1000)
  <2>1. CASE "edgelimit" \in w.found \cap DOMAIN acc
    BY SMT, <1>1, <1>3, <1>4, <1>6, <1>7, <2>1
       DEF Carries, SetEdgeLimit, Within, MinInt, MaxInt
  <2>2. CASE "edgelimit" \notin w.found \cap DOMAIN acc
    BY SMT, <1>1, <1>3, <1>5, <1>6, <2>2 DEF Carries, SetEdgeLimit, Within
  <2> QED BY <2>1, <2>2
<1>12. Carries(query.sortresultlimit, w, "sortresultlimit", 0, MaxInt, 0, 50)
  <2>1. CASE "sortresultlimit" \in w.found \cap DOMAIN acc
    BY SMT, <1>1, <1>2, <1>4, <1>6, <1>7, <2>1
       DEF Carries, SetSortResultLimit, MinInt, MaxInt
  <2>2. CASE "sortresultlimit" \notin w.found \cap DOMAIN acc
    BY SMT, <1>1, <1>2, <1>5, <1>6, <2>2 DEF Carries, SetSortResultLimit
  <2> QED BY <2>1, <2>2
<1>13. "batchsize" \in w.found \cap DOMAIN w.accepted =>
         Carries(get.batchsize, w, "batchsize", 10, 32767, 50, 50)
  BY <1>8, SMT DEF Carries
<1>14. CarriesLimits(get, w) /\ CarriesLimits(query, w)
  BY <1>2, <1>9, <1>10, <1>11, <1>13, SMT DEF CarriesLimits
<1> QED BY <1>12, <1>14, Zenon DEF w, get, query

\* So do the attribute and the order of sorting, which have no range.
LEMMA OrderCarried ==
    ASSUME NEW props, NEW acc, Follows(props, acc), NEW isNil
    PROVE  CarriesOrder(ConfigureQueryRequest(props), With(isNil, acc, props))
<1> DEFINE w == With(isNil, acc, props)
           query == ConfigureQueryRequest(props)
           attribute == GetProperty(props, <<"sortattrname">>, <<NoText>>)
           order == GetProperty(props, <<"sortorder">>, <<0>>)
<1>1. w.accepted = acc /\ w.found = {n \in DOMAIN props : props[n].exact}
  BY DEF With
<1>2. /\ query.sortattrname = attribute[1]
      /\ query.sortorder = IF order = <<1>> THEN 1 ELSE 0
  BY DEF ConfigureQueryRequest
<1>3. attribute = <<IF "sortattrname" \in w.found \cap DOMAIN acc
                    THEN acc["sortattrname"].value ELSE NoText>>
  <2>1. CASE "sortattrname" \notin w.found
    BY <1>1, <2>1, GetOne
  <2>2. CASE "sortattrname" \in w.found /\ "sortattrname" \notin DOMAIN acc
    <3>1. props["sortattrname"].value = Preloaded["sortattrname"]
      BY <1>1, <2>2 DEF Follows, Holds
    <3>2. props["sortattrname"].value = <<>>
      BY ONLY <3>1, PreloadedValues
    <3> QED BY <2>2, <3>2, GetOne
  <2>3. CASE "sortattrname" \in w.found \cap DOMAIN acc
    <3> DEFINE v == acc["sortattrname"].value
    <3>1. /\ v = NoText => acc["sortattrname"].added
          /\ props["sortattrname"].value = IF v = NoText THEN <<>> ELSE <<v>>
      BY <1>1, <2>3 DEF Follows, Holds, Text, Kept, Refused, Limits
    <3> QED BY <1>1, <2>3, <3>1, GetOne
  <2> QED BY <2>1, <2>2, <2>3
<1>4. order = <<1>> <=> /\ "sortorder" \in w.found \cap DOMAIN acc
                        /\ acc["sortorder"].value = 1
  <2>1. CASE "sortorder" \notin w.found
    BY <1>1, <2>1, GetOne
  <2>2. CASE "sortorder" \in w.found /\ "sortorder" \notin DOMAIN acc
    <3>1. props["sortorder"].value = Preloaded["sortorder"]
      BY <1>1, <2>2 DEF Follows, Holds
    <3>2. props["sortorder"].value = <<0>>
      BY ONLY <3>1, PreloadedValues
    <3> QED BY <2>2, <3>2, GetOne
  <2>3. CASE "sortorder" \in w.found \cap DOMAIN acc
    <3>1. props["sortorder"].value = <<acc["sortorder"].value>>
      BY <1>1, <2>3 DEF Follows, Holds, Text, Kept, Limits
    <3> QED BY <1>1, <2>3, <3>1, GetOne
  <2> QED BY <2>1, <2>2, <2>3
<1>5. Carries(query.sortresultlimit, w, "sortresultlimit", 0, MaxInt, 0, 50)
  BY SMT, LimitsCarried
<1> HIDE DEF attribute, order, w, query
<1>6. /\ query.sortattrname = IF "sortattrname" \in w.found \cap DOMAIN acc
                              THEN acc["sortattrname"].value ELSE NoText
      /\ query.sortorder = 1 <=> /\ "sortorder" \in w.found \cap DOMAIN acc
                                 /\ acc["sortorder"].value = 1
  BY <1>2, <1>3, <1>4
<1>7. CarriesOrder(query, w)
  BY <1>1, <1>5, <1>6, Zenon DEF CarriesOrder
<1> QED BY <1>7 DEF w, query

\* Options follow what is accepted, by setters and as properties.
LEMMA OptionsFollow ==
    ASSUME QueriesAssumption, OptionInv, [QueriesNext]_queryVars
    PROVE  OptionInv'
<1> USE DEF OptionInv
<1>1. ASSUME NEW n \in Names, NEW v \in OptionValues[n], SetAnOption(n, v)
      PROVE  OptionInv'
  <2>1. v \in ValuesOf(n) /\ ~Refused(n, v)
    BY <1>1 DEF QueriesAssumption, SetAnOption
  <2>2. /\ accepted' = [m \in DOMAIN accepted \cup {n} |->
                          IF m = n THEN [value |-> v, added |-> FALSE] ELSE accepted[m]]
        /\ option' = IF n \in DOMAIN option
                     THEN [option EXCEPT ![n].value = <<Kept(n, v)>>] ELSE option
    BY <1>1 DEF SetAnOption, Accept, SetProperty, DoesPropertyExist
  <2>3. <<Kept(n, v)>> \in Texts
    BY <2>1 DEF ValuesOf, Kept, Limits, Texts
  <2>4. option' \in [DOMAIN option' -> [value : Texts, exact : BOOLEAN]]
    BY <2>2, <2>3
  <2>5. ASSUME NEW m \in DOMAIN option', option'[m].exact
        PROVE  Holds(option', accepted', m)
    <3>1. m \in DOMAIN option /\ option[m].exact
      BY <2>2, <2>5
    <3>2. CASE m = n
      <4>1. option'[m].value = <<Kept(n, v)>>
        BY <2>2, <3>1, <3>2
      <4> QED BY <2>1, <2>2, <3>2, <4>1 DEF Holds
    <3>3. CASE m # n
      <4>1. /\ option'[m] = option[m] /\ (m \in DOMAIN accepted' <=> m \in DOMAIN accepted)
            /\ m \in DOMAIN accepted => accepted'[m] = accepted[m]
        BY <2>2, <3>1, <3>3
      <4> QED BY <3>1, <4>1 DEF Holds, Follows
    <3> QED BY <3>2, <3>3
  <2> QED BY <2>4, <2>5 DEF Follows
<1>2. ASSUME NEW p \in Additions, AddAnOption(p) PROVE OptionInv'
  <2> DEFINE n == p.name
             x == p.exact \/ (n \in DOMAIN option /\ option[n].exact)
  <2>1. p.value \in ValuesOf(n) /\ p.exact \in BOOLEAN
    BY DEF QueriesAssumption
  <2>2. /\ accepted' = [m \in DOMAIN accepted \cup {n} |->
                          IF m = n THEN [value |-> p.value, added |-> TRUE]
                          ELSE accepted[m]]
        /\ option' = [m \in DOMAIN option \cup {n} |->
                        IF m = n THEN [value |-> Text(n, p.value), exact |-> x]
                        ELSE option[m]]
    BY <1>2 DEF AddAnOption, Accept, AddProperty, DoesPropertyExist
  <2>3. Text(n, p.value) \in Texts /\ x \in BOOLEAN
    BY <2>1 DEF ValuesOf, Text, Texts
  <2>4. option' \in [DOMAIN option' -> [value : Texts, exact : BOOLEAN]]
    BY <2>2, <2>3
  <2>5. ASSUME NEW m \in DOMAIN option', option'[m].exact
        PROVE  Holds(option', accepted', m)
    <3>1. CASE m = n
      <4>1. option'[m].value = Text(n, p.value)
        BY <2>2, <3>1
      <4> QED BY <2>1, <2>2, <3>1, <4>1 DEF Holds
    <3>2. CASE m # n
      <4>1. /\ m \in DOMAIN option /\ option'[m] = option[m]
            /\ (m \in DOMAIN accepted' <=> m \in DOMAIN accepted)
            /\ m \in DOMAIN accepted => accepted'[m] = accepted[m]
        BY <2>2, <3>2
      <4> QED BY <2>5, <4>1 DEF Holds, Follows
    <3> QED BY <3>1, <3>2
  <2> QED BY <2>4, <2>5 DEF Follows
<1>3. ASSUME UNCHANGED <<option, accepted>> PROVE OptionInv'
  BY <1>3 DEF Follows, Holds
<1> QED BY <1>1, <1>2, <1>3
    DEF QueriesNext, queryVars, optionVars, ExecuteQuery, GetEntity, CreateQuery,
        SetOption, Execute, CloseQuery

\* Every request carries the options that it is made with.
LEMMA RequestsCarry ==
    ASSUME OptionInv, LimitsSent, [QueriesNext]_queryVars
    PROVE  LimitsSent'
<1>1. /\ CarriesLimits(ConfigureQueryRequest(option), Options)
      /\ CarriesOrder(ConfigureQueryRequest(option), Options)
      /\ CarriesLimits(ConfigureGetRequest(option), Options)
  BY LimitsCarried, OrderCarried DEF OptionInv, Options
<1>2. /\ CarriesLimits(ConfigureQueryRequest(NewSortedProperties), Immutable)
      /\ CarriesOrder(ConfigureQueryRequest(NewSortedProperties), Immutable)
  <2>1. Follows(NewSortedProperties, NewSortedProperties)
    BY DEF Follows, NewSortedProperties
  <2> QED BY <2>1, LimitsCarried, OrderCarried DEF Immutable
<1>3. NoOptions.isNil
  BY DEF NoOptions, With
<1>4. ASSUME NEW command \in {"execute", "filter", "gremlin"}, NEW isNil \in BOOLEAN,
             ExecuteQuery(command, isNil)
      PROVE  LimitsSent'
  <2>1. CASE isNil
    BY <1>3, <1>4, <2>1 DEF ExecuteQuery, Send, LimitsSent
  <2>2. CASE ~isNil
    <3>1. /\ request'.sent = ConfigureQueryRequest(option)
          /\ request'.with = Options
      BY <1>4, <2>2 DEF ExecuteQuery, Send
    <3> QED BY <1>1, <3>1 DEF LimitsSent
  <2> QED BY <2>1, <2>2
<1>5. ASSUME NEW command \in {"entity", "entities"}, NEW isNil \in BOOLEAN,
             GetEntity(command, isNil)
      PROVE  LimitsSent'
  <2>1. CASE isNil
    BY <1>3, <1>5, <2>1 DEF GetEntity, Send, LimitsSent
  <2>2. CASE ~isNil
    <3>1. /\ request'.sent = ConfigureGetRequest(option)
          /\ request'.with = Options /\ request'.command = command
      BY <1>5, <2>2 DEF GetEntity, Send
    <3> QED BY <1>1, <3>1 DEF LimitsSent
  <2> QED BY <2>1, <2>2
<1>6. ASSUME CreateQuery \/ CloseQuery PROVE LimitsSent'
  <2>1. request'.with = NoOptions
    BY <1>6 DEF CreateQuery, CloseQuery, Send
  <2> QED BY <1>3, <2>1 DEF LimitsSent
<1>7. ASSUME Execute PROVE LimitsSent'
  <2>1. PICK q \in prepared :
           /\ request'.sent = ConfigureQueryRequest(
                                 IF q.shares THEN option ELSE DefaultQueryOption.option)
           /\ request'.with = IF q.shares THEN Options ELSE Immutable
    BY <1>7 DEF Execute, Send
  <2>2. DefaultQueryOption.option = NewSortedProperties
    BY DEF DefaultQueryOption
  <2>3. CASE q.shares
    BY <1>1, <2>1, <2>3 DEF LimitsSent
  <2>4. CASE ~q.shares
    BY <1>2, <2>1, <2>2, <2>4 DEF LimitsSent
  <2> QED BY <2>3, <2>4
<1>8. ASSUME request' = request PROVE LimitsSent'
  BY <1>8 DEF LimitsSent
<1> QED BY <1>4, <1>5, <1>6, <1>7, <1>8
    DEF QueriesNext, queryVars, SetAnOption, AddAnOption, SetOption

\* A request carries what was last accepted for its limits, where it is documented,
\* whatever is set and added before, in whatever order.
THEOREM LimitsAreSent ==
    ASSUME QueriesAssumption
    PROVE  QueriesSpec => []LimitsSent
<1>1. QueriesInit => LimitsSent
  BY DEF QueriesInit, LimitsSent
<1>2. QueriesInit => OptionInv
  <2> SUFFICES ASSUME QueriesInit PROVE OptionInv
    OBVIOUS
  <2>1. accepted = NewSortedProperties
    BY DEF QueriesInit
  <2>2. CASE option = NewSortedProperties
    <3>1. DOMAIN option = {} /\ option = [n \in {} |-> <<>>]
      BY <2>2 DEF NewSortedProperties
    <3>2. option \in [DOMAIN option -> [value : Texts, exact : BOOLEAN]]
      BY <3>1
    <3> QED BY <3>1, <3>2 DEF OptionInv, Follows
  <2>3. CASE option = NewQueryOption.option
    <3>1. /\ DOMAIN option = DOMAIN Preloaded
          /\ option = [n \in DOMAIN Preloaded |-> [value |-> Preloaded[n], exact |-> TRUE]]
      BY <2>3 DEF NewQueryOption
    <3>2. ASSUME NEW n \in DOMAIN Preloaded PROVE Preloaded[n] \in Texts
      <4>1. CASE n \in Limits
        <5>1. Missing(n) \in Int /\ Preloaded[n] = <<Missing(n)>>
          BY <4>1, PreloadedValues
        <5> QED BY <5>1, TextsOfNumbers
      <4>2. CASE n \in {"sortattrname", "sortorder"}
        <5>1. Preloaded[n] = <<>> \/ Preloaded[n] = <<0>>
          BY <4>2, PreloadedValues
        <5> QED BY <5>1, TextsOfNumbers
      <4> QED BY <4>1, <4>2, PreloadedValues DEF Names
    <3>3. Follows(option, accepted)
      BY <2>1, <3>1 DEF Follows, Holds, NewSortedProperties
    <3>4. option \in [DOMAIN option -> [value : Texts, exact : BOOLEAN]]
      BY <3>1, <3>2
    <3> QED BY <3>3, <3>4 DEF OptionInv
  <2> QED BY <2>2, <2>3 DEF QueriesInit, DefaultQueryOption
<1>3. OptionInv /\ LimitsSent /\ [QueriesNext]_queryVars => (OptionInv /\ LimitsSent)'
  BY OptionsFollow, RequestsCarry
<1> QED BY <1>1, <1>2, <1>3, PTL DEF QueriesSpec
=============================================================================
