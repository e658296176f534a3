---------------------------- MODULE EntityStream ----------------------------
(***************************************************************************)
(* How the entities in the answer of a query or of GetEntity become        *)
(* objects of the application (populateResultSet... of                     *)
(* client/goAPI/connection/ConnectionImpl.go, ReadExternal of Node and     *)
(* Edge), and the cursor of the result set (client/goAPI/query/            *)
(* ResultSetImpl.go).                                                      *)
(*                                                                         *)
(* An entity names others by their ids: the edges of a node, the ends of   *)
(* an edge.  The reference map has one object per id: the first mention    *)
(* of an entity makes it, as a shell without content, and its own bytes    *)
(* fill it.                                                                *)
(***************************************************************************)
EXTENDS Integers, Sequences, FiniteSets, SequencesExt

CONSTANTS
    NodeIds,     \* the ids of the server's nodes
    EdgeIds,     \* and edges
    EndsOf,      \* from the edges to sets of nodes
    MaxEntities  \* bound: entities in an answer

StreamAssumption ==
    /\ NodeIds \cap EdgeIds = {} /\ EndsOf \in [EdgeIds -> SUBSET NodeIds]
    /\ MaxEntities \in Nat

VARIABLES
    call,        \* "Query", "GetEntities" or "GetEntity"
    answer,      \* the entities in it, in order
    isResult,    \* those flagged as results, in an answer of GetEntities
    content,     \* whether the attributes of an entity can be read, or the
                 \* first that cannot
    next,        \* the place in the answer
    refMap,      \* the reference map: an object for each id mentioned
    resultList,  \* of the result set; of GetEntity, what it returns
    status,      \* "reading", "done"; "error", "panic"; "misread"
    currPos,     \* of the result set, from -1
    isOpen

responseVars == <<call, answer, isResult, content>>
cursorVars == <<currPos, isOpen>>
streamVars == <<responseVars, next, refMap, resultList, status, cursorVars>>

Calls == {"Query", "GetEntities", "GetEntity"}

\* Attributes that cannot be read: a null one, one whose descriptor is not in
\* the metadata of this client, and a timestamp without a zone.
Readability == {"readable", "null", "unknown", "zoneless"}

\* The entities an entity names: the edges of a node, the ends of an edge.
Named(id) ==
    IF id \in NodeIds THEN {e \in EdgeIds : id \in EndsOf[e]} ELSE EndsOf[id]

Shell  == [isInitialized |-> FALSE]
NoRefs == [id \in {} |-> Shell]

StreamInit ==
    /\ call \in Calls
    /\ answer \in {s \in SeqOf(NodeIds \cup EdgeIds, MaxEntities) : IsInjective(s)}
    /\ isResult \in IF call = "GetEntities" THEN SUBSET ToSet(answer) ELSE {{}}
    /\ content \in [ToSet(answer) -> Readability]
    /\ next = 1 /\ refMap = NoRefs /\ resultList = <<>>
    /\ status = "reading"
    /\ currPos = -1 /\ isOpen = TRUE

-----------------------------------------------------------------------------
(* Reading *)

\* Mutant: what is named gets a new object each time.
MentionedAnew(id) ==
    [i \in DOMAIN refMap \cup {id} \cup Named(id) |->
        IF i \in DOMAIN refMap \ Named(id) THEN refMap[i] ELSE Shell]

\* The object of the entity, and the shells that ReadExternal puts into the map.
Mentioned(id) ==
    [i \in DOMAIN refMap \cup {id} \cup Named(id) |->
        IF i \in DOMAIN refMap THEN refMap[i] ELSE Shell]

\* ReadExternal is called on a copy of the struct.  What is behind a pointer,
\* id, version, attributes and flags, is the object's; the edges of a node and
\* the ends of an edge are the copy's, which is thrown away: objects are not
\* linked to one another.
ReadInto(id) ==
    refMap' = [Mentioned(id) EXCEPT ![id].isInitialized = TRUE]

\* Mutant: a result that was named before is left out of any result set.
AddEntityToResultSetNew(id) ==
    LET new == id \notin DOMAIN refMap
    IN  CASE call = "Query" /\ new -> Append(resultList, id)
          [] call = "GetEntities" /\ id \in isResult /\ new -> Append(resultList, id)
          [] call = "GetEntity" /\ new /\ resultList = <<>> -> <<id>>
          [] OTHER -> resultList

\* An object that the map does not have is made: of a query's answer it is
\* then a result, all of them, as currResultCount is never increased; of
\* GetEntity's the first is what is found.  CreateEdgeWithDirection(nil, nil)
\* adds the edge to a nil node.
AddEntityToResultSet(id) ==
    LET new == id \notin DOMAIN refMap
    IN  CASE call = "Query" /\ new -> Append(resultList, id)
          [] call = "GetEntities" /\ id \in isResult -> Append(resultList, id)
          [] call = "GetEntity" /\ new /\ resultList = <<>> -> <<id>>
          [] OTHER -> resultList

\* Mutant: an edge is made also if the map has it.
CreateEdgePanicsAlways(id) == call # "Query" /\ id \in EdgeIds

CreateEdgePanics(id) ==
    call # "Query" /\ id \in EdgeIds /\ id \notin DOMAIN refMap

\* How ReadExternal of an entity ends.  No attribute is the struct as which a
\* null one is made nil; an unknown one is an error.  Two bytes that a
\* timestamp without a zone does not have are read for its zone: whatever
\* follows is read from the wrong place, and nothing is said of it here.
ReadExternalEnds(id) ==
    CASE content[id] = "readable" -> {"reading"}
      [] content[id] = "null"     -> {"panic"}
      [] content[id] = "unknown"  -> {"error"}
      [] content[id] = "zoneless" -> {"error", "panic", "misread"}

\* An entity that fails is the end of the call, which returns no result.
PopulateResultSet ==
    /\ status = "reading" /\ next <= Len(answer)
    /\ LET id   == answer[next]
           ends == IF CreateEdgePanics(id) THEN {"panic"} ELSE ReadExternalEnds(id)
       IN  /\ status' \in ends
           /\ IF status' = "reading"
              THEN /\ next' = next + 1
                   /\ ReadInto(id)
                   /\ resultList' = AddEntityToResultSet(id)
              ELSE UNCHANGED <<next, refMap, resultList>>
    /\ UNCHANGED <<responseVars, cursorVars>>

Return ==
    /\ status = "reading" /\ next > Len(answer)
    /\ status' = "done"
    /\ UNCHANGED <<responseVars, next, refMap, resultList, cursorVars>>

-----------------------------------------------------------------------------
(* The cursor.  A query without results returns a nil result set.          *)

HasResultSet ==
    status = "done" /\ call # "GetEntity" /\ (call = "Query" => answer # <<>>)

Moves(pos) ==
    /\ HasResultSet /\ isOpen
    /\ currPos' = pos
    /\ UNCHANGED <<responseVars, next, refMap, resultList, status, isOpen>>

\* Mutant: one more than there are.
HasNextOneMore == currPos < Len(resultList)

HasNext == currPos < Len(resultList) - 1

NextResult == HasNext /\ Moves(currPos + 1)

Prev == currPos > 0 /\ Moves(currPos - 1)

Skip(n) ==
    LET newPos == currPos + n
    IN  newPos >= 0 /\ newPos < Len(resultList) /\ Moves(newPos)

Close ==
    /\ HasResultSet
    /\ isOpen' = FALSE
    /\ UNCHANGED <<responseVars, next, refMap, resultList, status, currPos>>

StreamNext ==
    \/ PopulateResultSet \/ Return
    \/ NextResult \/ Prev \/ Close
    \/ \E n \in -2..2 : Skip(n)

StreamSpec == StreamInit /\ [][StreamNext]_streamVars

-----------------------------------------------------------------------------
(* Properties *)

\* Whatever the order of the answer, an entity of it ends as one object with
\* its content, the same that others named before or name later; what is only
\* named stays a shell.
OneObjectEach ==
    status = "done" =>
        \A id \in DOMAIN refMap :
            refMap[id].isInitialized <=> id \in ToSet(answer)

\* The results that an answer read to its end has: GetEntities returns what is
\* flagged, a query the entities that none before them has named.
Results ==
    CASE call = "GetEntities" -> {id \in ToSet(answer) : id \in isResult}
      [] call = "Query" ->
            {answer[p] : p \in {q \in DOMAIN answer :
                \A j \in 1..q - 1 : answer[q] \notin Named(answer[j])}}
      [] call = "GetEntity" -> {answer[p] : p \in DOMAIN answer \cap {1}}

\* The results have the order of the answer, none is there twice, and none
\* without its content; at the end they are what they should be.
ResultsOnce ==
    /\ \A i, j \in DOMAIN resultList, k, l \in DOMAIN answer :
          i < j /\ resultList[i] = answer[k] /\ resultList[j] = answer[l] => k < l
    /\ \A id \in ToSet(resultList) :
          id \in DOMAIN refMap \cap ToSet(answer) /\ refMap[id].isInitialized
    /\ status = "done" => ToSet(resultList) = Results

\* An answer whose edges come after their nodes is read to its end, unless an
\* attribute cannot be read: then that ends the program or the call.
NodesFirst ==
    \A i \in DOMAIN answer : answer[i] \in EdgeIds =>
        \E j \in 1..i - 1 : answer[j] \in EndsOf[answer[i]]

ReadToItsEnd ==
    NodesFirst /\ status \notin {"reading", "done"} =>
        /\ next \in DOMAIN answer
        /\ content[answer[next]] \in
              CASE status = "panic"   -> {"null", "zoneless"}
                [] status = "error"   -> {"unknown", "zoneless"}
                [] status = "misread" -> {"zoneless"}

\* However the cursor is moved, it is on a result, or before the first one if
\* it was never moved there.
CursorOnResult == currPos \in (-1)..(Len(resultList) - 1)
=============================================================================
