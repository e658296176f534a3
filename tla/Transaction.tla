---------------------------- MODULE Transaction ----------------------------
(***************************************************************************)
(* Transactions of the Go client (client/goAPI/connection,                 *)
(* client/goAPI/model): what a connection remembers of the entities an     *)
(* application inserts, updates and deletes, what Commit sends of them,    *)
(* and how the answer is brought back into the application's objects.      *)
(*                                                                         *)
(* An object is a node or an edge in the memory of the application.  An    *)
(* entity is what the server has stored; its id is its place in db.  Two   *)
(* objects may stand for the same entity: every GetEntity makes a new one. *)
(* SendRequest is what module RequestService says: the server executes a   *)
(* commit at most once, and an error tells nothing about whether it did.   *)
(***************************************************************************)
EXTENDS Integers, Sequences, FiniteSets

CONSTANTS
    Connections, \* connections, each used by one goroutine
    Nodes,       \* the objects, as positive numbers
    Edges,
    Ends,        \* the nodes of an edge
    NewValues,   \* values of an attribute
    Setters,     \* the ways in which applications change an object's attributes
    MaxStored,   \* bound: entities the server stores
    MaxVersion,  \* bound: versions of an entity
    MaxLost      \* bound: commits whose answer is lost

Objs == Nodes \cup Edges

ObjsAssumption ==
    /\ Objs \subseteq Nat \ {0} /\ Nodes \cap Edges = {}
    /\ Ends \in [Edges -> SUBSET Nodes]
BoundsAssumption ==
    /\ NewValues \subseteq Nat \ {0}
    /\ Setters \in [Objs -> SUBSET {"SetOrCreateAttribute", "SetValue",
                                    "SetAttribute"}]
    /\ MaxStored \in Nat /\ MaxVersion \in Nat \ {0} /\ MaxLost \in Nat

VARIABLES
    home,     \* the connection through which an object is used, for ever
    obj,      \* the fields of each object
    added, changed, removed,   \* the lists of a connection, by virtual id
    stage,    \* "idle", or where the Commit of a connection is
    reply,    \* the CommitTransactionResponse of a connection
    db,       \* the entities the server has stored
    lost      \* how many answers were lost

listVars == <<added, changed, removed>>
transactionVars == <<home, obj, listVars, stage, reply, db, lost>>

\* What the constructors of nodes and edges make.  val is the value of an
\* attribute, 0 when there is none; modified is its flag isModified, listed
\* says that it is among modifiedAttributes.
Created == [isNew |-> TRUE, id |-> 0, version |-> 0, isDeleted |-> FALSE,
            val |-> 0, modified |-> FALSE, listed |-> FALSE]

NoList  == <<>>
NoReply == [ids |-> NoList, versions |-> NoList]

TransactionInit ==
    /\ home \in [Objs -> Connections]
    /\ \A e \in Edges : \A n \in Ends[e] : home[n] = home[e]
    /\ obj = [o \in Objs |-> Created]
    /\ added = [c \in Connections |-> NoList]
    /\ changed = [c \in Connections |-> NoList]
    /\ removed = [c \in Connections |-> NoList]
    /\ stage = [c \in Connections |-> "idle"]
    /\ reply = [c \in Connections |-> NoReply]
    /\ db = <<>> /\ lost = 0

\* getVirtualId: a negative number of the client's until the object has an
\* id of the server's.
VirtualId(o) == IF obj[o].isNew THEN -o ELSE obj[o].id

\* The list after the entries of another were put into it.
Over(puts, list) ==
    [k \in DOMAIN puts \cup DOMAIN list |->
        IF k \in DOMAIN puts THEN puts[k] ELSE list[k]]

Put(list, o)  == Over([k \in {VirtualId(o)} |-> o], list)
Listed(list)  == {list[k] : k \in DOMAIN list}
OnLists(o)    == o \in UNION {Listed(added[home[o]]), Listed(changed[home[o]]),
                              Listed(removed[home[o]])}

\* The goroutine of o's connection may use o.  The application does not use
\* what is deleted, inserts what is new, and updates and deletes what is not:
\* the methods themselves refuse nothing.
Usable(o) == stage[home[o]] = "idle" /\ ~obj[o].isDeleted

-----------------------------------------------------------------------------
(* The application reads entities and sets attributes *)

\* A node in the answer of GetEntity or of a query.  ReadExternal adds its
\* attributes with SetAttribute, which lists them as modified attributes.
Fetch(o, i) ==
    /\ Usable(o) /\ o \in Nodes /\ obj[o] = Created /\ ~OnLists(o)
    /\ \A e \in Edges : o \in Ends[e] => obj[e].isNew /\ ~OnLists(e)
    /\ db[i].src \in Nodes /\ ~db[i].gone
    /\ obj' = [obj EXCEPT ![o] =
                 [isNew |-> FALSE, id |-> i, version |-> db[i].version,
                  isDeleted |-> FALSE, val |-> db[i].val, modified |-> FALSE,
                  listed |-> db[i].val # 0]]
    /\ UNCHANGED <<listVars, stage, reply, db, lost>>

Changed(o, v, m, l) ==
    /\ obj' = [obj EXCEPT ![o].val = v, ![o].modified = m, ![o].listed = l]
    /\ UNCHANGED <<listVars, stage, reply, db, lost>>

SetOrCreateAttribute(o, v) ==
    /\ "SetOrCreateAttribute" \in Setters[o] /\ Usable(o)
    /\ Changed(o, v, obj[o].modified \/ v # obj[o].val,
                     obj[o].listed \/ ~obj[o].modified)

\* entity.GetAttribute(name).SetValue(v): the entity does not hear of it.
SetValue(o, v) ==
    /\ "SetValue" \in Setters[o] /\ Usable(o) /\ obj[o].val # 0
    /\ Changed(o, v, obj[o].modified \/ v # obj[o].val, obj[o].listed)

\* entity.SetAttribute(NewAttributeWithDesc(..., v)): a new attribute, which
\* is listed but not flagged.
SetAttribute(o, v) ==
    /\ "SetAttribute" \in Setters[o] /\ Usable(o)
    /\ Changed(o, v, FALSE, TRUE)

-----------------------------------------------------------------------------
(* InsertEntity, UpdateEntity, DeleteEntity, Rollback *)

InsertEntity(o) ==
    /\ Usable(o) /\ obj[o].isNew
    /\ added' = [added EXCEPT ![home[o]] = Put(@, o)]
    /\ UNCHANGED <<obj, changed, removed, stage, reply, db, lost>>

UpdateEntity(o) ==
    /\ Usable(o) /\ ~obj[o].isNew
    /\ changed' = [changed EXCEPT ![home[o]] = Put(@, o)]
    /\ UNCHANGED <<obj, added, removed, stage, reply, db, lost>>

DeleteEntity(o) ==
    /\ Usable(o) /\ ~obj[o].isNew
    /\ removed' = [removed EXCEPT ![home[o]] = Put(@, o)]
    /\ UNCHANGED <<obj, added, changed, stage, reply, db, lost>>

ClearLists(c) ==
    /\ added' = [added EXCEPT ![c] = NoList]
    /\ changed' = [changed EXCEPT ![c] = NoList]
    /\ removed' = [removed EXCEPT ![c] = NoList]

\* resetModifiedAttributes: only listed attributes lose their flag.
Reset(r) == [r EXCEPT !.modified = @ /\ ~r.listed, !.listed = FALSE]

\* Mutant: what was rolled back no longer counts as modified.
RollbackResets(c) ==
    /\ stage[c] = "idle" /\ ClearLists(c)
    /\ obj' = [o \in Objs |-> IF o \in Listed(changed[c]) THEN Reset(obj[o])
                                                          ELSE obj[o]]
    /\ UNCHANGED <<stage, reply, db, lost>>

\* The lists are emptied; the objects keep what was done to them.
Rollback(c) ==
    /\ stage[c] = "idle" /\ ClearLists(c)
    /\ UNCHANGED <<obj, stage, reply, db, lost>>

-----------------------------------------------------------------------------
(* Commit *)

ExistingEnds(list) ==
    {n \in UNION {Ends[e] : e \in Listed(list) \cap Edges} : ~obj[n].isNew}

\* The lists that may come of putting ns into list, in any order: of two
\* objects for the same entity one replaces the other.
PutAll(list, ns) ==
    LET keys == {VirtualId(n) : n \in ns}
    IN  {Over(f, list) : f \in {g \in [keys -> ns] :
                                   \A k \in keys : VirtualId(g[k]) = k}}

\* The existing end nodes of the edges join the changed list: those of new
\* edges, of changed edges, and, unless they are being deleted, of deleted
\* edges.  Then the request is sent.
Commit(c) ==
    /\ stage[c] = "idle"
    /\ added[c] # NoList \/ changed[c] # NoList \/ removed[c] # NoList
    /\ \E l1 \in PutAll(changed[c], ExistingEnds(added[c])) :
       \E l2 \in PutAll(l1, ExistingEnds(l1)) :
       \E l3 \in PutAll(l2, {n \in ExistingEnds(removed[c]) :
                               VirtualId(n) \notin DOMAIN removed[c]}) :
          changed' = [changed EXCEPT ![c] = l3]
    /\ stage' = [stage EXCEPT ![c] = "sent"]
    /\ UNCHANGED <<obj, added, removed, reply, db, lost>>

\* Mutant: the new version is not stored in the object.
FixChangedNoVersion(o, c) == Reset(obj[o])

\* fixUpEntities and ResetModifiedAttributes.
FixAdded(o, c) ==
    LET i == reply[c].ids[VirtualId(o)]
    IN  Reset([obj[o] EXCEPT !.isNew = FALSE, !.id = i, !.version = 1])

FixChanged(o, c) ==
    LET k == VirtualId(o)
    IN  Reset(IF k \in DOMAIN reply[c].versions
                THEN [obj[o] EXCEPT !.version = reply[c].versions[k]]
                ELSE obj[o])

Fixed(o, c) ==
    LET r == CASE o \in Listed(added[c])   -> FixAdded(o, c)
               [] o \in Listed(changed[c]) -> FixChanged(o, c)
               [] OTHER                    -> obj[o]
    IN  [r EXCEPT !.isDeleted = @ \/ o \in Listed(removed[c])]

\* Mutant: the list of new entities is not emptied.
CommitReturnsKeepsAdded(c) ==
    /\ stage[c] = "applied" /\ stage' = [stage EXCEPT ![c] = "idle"]
    /\ obj' = [o \in Objs |-> Fixed(o, c)]
    /\ changed' = [changed EXCEPT ![c] = NoList]
    /\ removed' = [removed EXCEPT ![c] = NoList]
    /\ reply' = [reply EXCEPT ![c] = NoReply]
    /\ UNCHANGED <<added, db, lost>>

CommitReturns(c) ==
    /\ stage[c] = "applied" /\ stage' = [stage EXCEPT ![c] = "idle"]
    /\ obj' = [o \in Objs |-> Fixed(o, c)]
    /\ ClearLists(c)
    /\ reply' = [reply EXCEPT ![c] = NoReply]
    /\ UNCHANGED <<db, lost>>

\* SendRequest returns an error: the request did not reach the server, or
\* the server refused it, which breaks the channel.  The lists stay.
CommitFails(c) ==
    /\ stage[c] = "sent" /\ stage' = [stage EXCEPT ![c] = "idle"]
    /\ UNCHANGED <<obj, listVars, reply, db, lost>>

\* The answer is lost: the same error.
AnswerLost(c) ==
    /\ stage[c] = "applied" /\ stage' = [stage EXCEPT ![c] = "idle"]
    /\ lost < MaxLost /\ lost' = lost + 1
    /\ reply' = [reply EXCEPT ![c] = NoReply]
    /\ UNCHANGED <<obj, listVars, db>>

-----------------------------------------------------------------------------
(* The server: optimistic concurrency control *)

Current(list) ==
    \A k \in DOMAIN list :
        k \in DOMAIN db /\ ~db[k].gone /\ db[k].version = obj[list[k]].version

\* A new edge joins entities that exist or are new in the same transaction.
Joined(c) ==
    \A e \in Listed(added[c]) \cap Edges : \A n \in Ends[e] :
        IF obj[n].isNew THEN n \in Listed(added[c])
                        ELSE ~db[obj[n].id].gone

\* Only attributes that are flagged are in the request.
Sent(o, old) == IF obj[o].modified THEN obj[o].val ELSE old

\* src is the object an entity was stored from, by the object it was last
\* written or removed through.
NewEntity(o) ==
    [version |-> 1, val |-> Sent(o, 0), gone |-> FALSE, src |-> o, by |-> o]

Written(k, c) ==
    CASE k \in DOMAIN removed[c] ->
            [db[k] EXCEPT !.gone = TRUE, !.by = removed[c][k]]
      [] k \in DOMAIN changed[c] \ DOMAIN removed[c] ->
            [db[k] EXCEPT !.version = @ + 1, !.by = changed[c][k],
                          !.val = Sent(changed[c][k], @)]
      [] OTHER -> db[k]

ServerCommits(c) ==
    LET n    == Len(db)
        last == n + Cardinality(DOMAIN added[c])
    IN  /\ stage[c] = "sent" /\ stage' = [stage EXCEPT ![c] = "applied"]
        /\ Current(changed[c]) /\ Current(removed[c]) /\ Joined(c)
        /\ last <= MaxStored
        /\ \A k \in DOMAIN changed[c] : db[k].version < MaxVersion
        /\ \E place \in [n + 1 .. last -> DOMAIN added[c]] :
             /\ \A k \in DOMAIN added[c] : \E i \in n + 1 .. last : place[i] = k
             /\ db' = [i \in 1 .. last |-> IF i <= n THEN Written(i, c)
                                           ELSE NewEntity(added[c][place[i]])]
             /\ reply' = [reply EXCEPT ![c] =
                  [ids |-> [k \in DOMAIN added[c] |->
                              CHOOSE i \in n + 1 .. last : place[i] = k],
                   versions |-> [k \in DOMAIN changed[c] \ DOMAIN removed[c] |->
                                   db[k].version + 1]]]
        /\ UNCHANGED <<obj, listVars, lost>>

-----------------------------------------------------------------------------
AppStep(o) ==
    \/ \E i \in DOMAIN db : Fetch(o, i)
    \/ \E v \in NewValues :
          SetOrCreateAttribute(o, v) \/ SetValue(o, v) \/ SetAttribute(o, v)
    \/ InsertEntity(o) \/ UpdateEntity(o) \/ DeleteEntity(o)

ConnStep(c) ==
    \/ Rollback(c) \/ Commit(c) \/ CommitReturns(c) \/ CommitFails(c)
    \/ AnswerLost(c) \/ ServerCommits(c)

TransactionNext ==
    /\ (\E o \in Objs : AppStep(o)) \/ (\E c \in Connections : ConnStep(c))
    /\ UNCHANGED home

TransactionSpec == TransactionInit /\ [][TransactionNext]_transactionVars

-----------------------------------------------------------------------------
(* Properties *)

\* "Entity.setAttribute calls make the entity dirty.  If it is dirty, then
\* the object is send to the server for update" (ConnectionImpl.go:1291): an
\* object at the version of its entity, which exists, and without modified
\* attributes, has the values of the entity, whatever was committed, rolled
\* back, refused or lost, through this object or another.  An object whose
\* attributes were replaced with SetAttribute has no such promise: what it
\* was given is never sent.
Coherent ==
    \A o \in Objs : LET r == obj[o] IN
        "SetAttribute" \notin Setters[o] /\ ~r.isNew /\ ~r.modified /\ ~db[r.id].gone
          /\ r.version = db[r.id].version
            => r.val = db[r.id].val

\* The object through which an entity was last written knows it: it has the
\* entity's id and version, so that its next update is no conflict, and is
\* deleted if the entity is; as long as no answer was lost.
WriterIsCurrent ==
    lost = 0 => \A i \in DOMAIN db : LET r == obj[db[i].by] IN
        stage[home[db[i].by]] = "idle" =>
            /\ ~r.isNew /\ r.id = i
            /\ r.version = db[i].version
            /\ r.isDeleted = db[i].gone

\* An object is stored once, however often its transaction is refused, fails
\* and is committed again; as long as no answer was lost.
StoredOnce ==
    lost = 0 => \A i, j \in DOMAIN db : db[i].src = db[j].src => i = j

\* "UpdateEntity marks an ENTITY for update operation.  Upon commit, the
\* entity will be updated in the database" (ConnectionImpl.go:1290): what is
\* marked when Commit is called is in what Commit sends.
UpdatesAreSent ==
    [][\A c \in Connections : stage[c] = "idle" /\ stage'[c] = "sent"
          => Listed(changed[c]) \subseteq Listed(changed'[c])]_transactionVars
=============================================================================
