-------------------------- MODULE TransactionProofs --------------------------
(***************************************************************************)
(* Proofs about Transaction, for any connections, objects, values and      *)
(* bounds.                                                                 *)
(*                                                                         *)
(* Between the commit at the server and the return of Commit an object is  *)
(* behind its entity.  The invariant therefore speaks of an object as it   *)
(* is and as it is Settled: as it will be when the answer that is on its   *)
(* way has been brought into it.  In both forms it keeps the promise of    *)
(* Coherent; settled, the object an entity was stored from, and the one it *)
(* was last written through, have the entity's id.                         *)
(***************************************************************************)
EXTENDS Transaction, FiniteSetTheorems, FunctionTheorems, TLAPS

ObjType ==
    [isNew : BOOLEAN, id : Nat, version : Nat, isDeleted : BOOLEAN, val : Nat,
     modified : BOOLEAN, listed : BOOLEAN]

EntityType ==
    [version : Nat, val : Nat, gone : BOOLEAN, src : Objs, by : Objs]

TransactionType ==
    /\ home \in [Objs -> Connections] /\ obj \in [Objs -> ObjType]
    /\ DOMAIN added = Connections /\ DOMAIN changed = Connections /\ DOMAIN removed = Connections
    /\ DOMAIN reply = Connections
    /\ stage \in [Connections -> {"idle", "sent", "applied"}]
    /\ db \in Seq(EntityType) /\ lost \in Nat

\* On a list of c are objects of c: new ones, each under its virtual id, or
\* those that have an entity, under its id.
OnlyNew(list, c) ==
    \A k \in DOMAIN list : LET o == list[k] IN
        o \in Objs /\ home[o] = c /\ obj[o].isNew /\ k = -o
OnlyOld(list, c) ==
    \A k \in DOMAIN list : LET o == list[k] IN
        o \in Objs /\ home[o] = c /\ ~obj[o].isNew /\ k = obj[o].id

ListsKeyed ==
    \A c \in Connections :
        /\ OnlyNew(added[c], c) /\ IsFiniteSet(DOMAIN added[c])
        /\ OnlyOld(changed[c], c) /\ OnlyOld(removed[c], c)

\* An edge and its nodes are used through one connection.
EndsAtHome == \A e \in Edges : \A n \in Ends[e] : home[n] = home[e]

\* The answer to a commit has a new id for each object that was added.
RepliesFit ==
    \A c \in Connections : stage[c] = "applied" =>
        /\ \A k \in DOMAIN added[c] : reply[c].ids[k] \in DOMAIN db
        /\ \A k \in DOMAIN reply[c].versions :
              reply[c].versions[k] \in Nat

\* What the object will be when the answer that is on its way has come.
Settled(o) == IF stage[home[o]] = "applied" THEN Fixed(o, home[o]) ELSE obj[o]

Replaced(o) == "SetAttribute" \in Setters[o]

\* What holds of an object that is, or will be, r.
Promise(o, r) ==
    /\ r.isNew =>
          ~r.isDeleted /\ (~Replaced(o) /\ ~r.modified => r.val = 0)
    /\ ~r.isNew => LET e == db[r.id] IN
          /\ r.id \in DOMAIN db /\ r.version <= e.version
          /\ r.isDeleted => e.gone
          /\ ~Replaced(o) /\ ~r.modified /\ ~e.gone /\ r.version = e.version
                => r.val = e.val

PromisesKept == \A o \in Objs : Promise(o, obj[o]) /\ Promise(o, Settled(o))

\* The object r has the id of the entity i, and its version.
Is(r, i)        == ~r.isNew /\ r.id = i
IsCurrent(r, i) ==
    Is(r, i) /\ r.version = db[i].version /\ (r.isDeleted <=> db[i].gone)

SourcesKnown ==
    lost = 0 => \A i \in DOMAIN db : Is(Settled(db[i].src), i)
WritersKnown ==
    lost = 0 => \A i \in DOMAIN db : IsCurrent(Settled(db[i].by), i)

TransactionInv ==
    /\ TransactionType /\ ListsKeyed /\ EndsAtHome /\ RepliesFit
    /\ PromisesKept /\ SourcesKnown /\ WritersKnown

-----------------------------------------------------------------------------
(* What is done to an object *)

\* Reset takes a flag and the listing, and nothing else.
LEMMA ResetKeeps ==
    ASSUME NEW r \in ObjType
    PROVE  /\ Reset(r) \in ObjType
           /\ Reset(r).isNew = r.isNew /\ Reset(r).id = r.id
           /\ Reset(r).version = r.version /\ Reset(r).val = r.val
           /\ Reset(r).isDeleted = r.isDeleted
           /\ Reset(r).modified => r.modified
<1>1. Reset(r).modified = (r.modified /\ ~r.listed)
  BY DEF Reset, ObjType
<1>2. Reset(r) \in ObjType
  BY DEF Reset, ObjType
<1> QED BY <1>1, <1>2 DEF Reset, ObjType

\* f is the object s after its flags were reset, perhaps, and it was removed,
\* if gone.
Answered(f, s, gone) ==
    /\ f \in ObjType /\ f.val = s.val /\ (f.modified => s.modified)
    /\ f.isDeleted = (s.isDeleted \/ gone)
    /\ f.isNew = s.isNew /\ f.id = s.id /\ f.version = s.version

\* Marking an object as removed gives one that was answered, with its flags
\* reset or not.
LEMMA AnsweredFields ==
    ASSUME NEW s \in ObjType, NEW gone \in BOOLEAN
    PROVE  /\ Answered([s EXCEPT !.isDeleted = @ \/ gone], s, gone)
           /\ Answered([Reset(s) EXCEPT !.isDeleted = @ \/ gone], s, gone)
           /\ [s EXCEPT !.isDeleted = @ \/ gone].modified = s.modified
<1>1. ASSUME NEW r \in ObjType
      PROVE  /\ Answered([r EXCEPT !.isDeleted = @ \/ gone], r, gone)
             /\ [r EXCEPT !.isDeleted = @ \/ gone].modified = r.modified
  BY DEF ObjType, Answered
<1>2. Answered([Reset(s) EXCEPT !.isDeleted = @ \/ gone], Reset(s), gone)
  BY <1>1, ResetKeeps
<1> QED BY <1>1, <1>2, ResetKeeps DEF Answered

\* What the answer of the commit of c makes f of the object r: a new one gets
\* an id, a changed one the version that came for it, and one that was
\* removed says so.
AnswerMakes(f, r, o, c) ==
    /\ f \in ObjType /\ f.val = r.val
    /\ f.modified => r.modified
    /\ f.isDeleted <=> r.isDeleted \/ o \in Listed(removed[c])
    /\ o \notin Listed(added[c]) \cup Listed(changed[c])
          => f.modified = r.modified
    /\ o \in Listed(added[c]) =>
          ~f.isNew /\ f.id = reply[c].ids[VirtualId(o)] /\ f.version = 1
    /\ o \notin Listed(added[c]) =>
          /\ f.isNew = r.isNew /\ f.id = r.id
          /\ f.version = IF /\ o \in Listed(changed[c])
                            /\ VirtualId(o) \in DOMAIN reply[c].versions
                         THEN reply[c].versions[VirtualId(o)] ELSE r.version

\* That is what Fixed computes.
LEMMA FixedFields ==
    ASSUME TransactionType, ListsKeyed, RepliesFit, NEW o \in Objs, NEW c \in Connections,
           stage[c] = "applied"
    PROVE  AnswerMakes(Fixed(o, c), obj[o], o, c)
<1>0. obj[o] \in ObjType
  BY DEF TransactionType
<1>1. PICK gone \in BOOLEAN : gone = (o \in Listed(removed[c]))
  <2>1. (o \in Listed(removed[c])) \in BOOLEAN
    OBVIOUS
  <2> QED BY <2>1
<1>2. CASE o \in Listed(added[c])
  <2>1. o \notin Listed(changed[c])
    BY <1>2 DEF ListsKeyed, OnlyNew, OnlyOld, Listed
  <2>2. PICK i \in Nat : i = reply[c].ids[VirtualId(o)]
    <3>1. PICK k \in DOMAIN added[c] : added[c][k] = o
      BY <1>2 DEF Listed
    <3>2. VirtualId(o) = k
      BY <3>1 DEF ListsKeyed, OnlyNew, VirtualId
    <3> QED BY <3>1, <3>2 DEF RepliesFit, TransactionType
  <2>3. PICK s : s = [obj[o] EXCEPT !.isNew = FALSE, !.id = i, !.version = 1]
    OBVIOUS
  <2>4. /\ s \in ObjType /\ s.val = obj[o].val /\ s.modified = obj[o].modified
        /\ s.isDeleted = obj[o].isDeleted
        /\ ~s.isNew /\ s.id = i /\ s.version = 1
    BY <1>0, <2>3 DEF ObjType
  <2>5. Fixed(o, c) = [Reset(s) EXCEPT !.isDeleted = @ \/ gone]
    BY <1>1, <1>2, <2>1, <2>2, <2>3 DEF Fixed, FixAdded
  <2>6. Answered(Fixed(o, c), s, gone)
    BY <2>4, <2>5, AnsweredFields
  <2> QED BY <1>1, <1>2, <2>2, <2>4, <2>6 DEF AnswerMakes, Answered
<1>3. CASE o \notin Listed(added[c]) /\ o \in Listed(changed[c])
  <2>1. PICK v \in Nat : v = IF VirtualId(o) \in DOMAIN reply[c].versions
                            THEN reply[c].versions[VirtualId(o)]
                            ELSE obj[o].version
    BY <1>0 DEF RepliesFit, ObjType
  <2>2. PICK s : s = [obj[o] EXCEPT !.version = v]
    OBVIOUS
  <2>3. /\ s \in ObjType /\ s.val = obj[o].val /\ s.modified = obj[o].modified
        /\ s.isDeleted = obj[o].isDeleted /\ s.isNew = obj[o].isNew
        /\ s.id = obj[o].id /\ s.version = v
    BY <1>0, <2>2 DEF ObjType
  <2>4. s = IF VirtualId(o) \in DOMAIN reply[c].versions
            THEN [obj[o] EXCEPT !.version = reply[c].versions[VirtualId(o)]]
            ELSE obj[o]
    BY <1>0, <2>1, <2>2 DEF ObjType
  <2>5. Fixed(o, c) = [Reset(s) EXCEPT !.isDeleted = @ \/ gone]
    BY <1>1, <1>3, <2>4 DEF Fixed, FixChanged
  <2>6. Answered(Fixed(o, c), s, gone)
    BY <2>3, <2>5, AnsweredFields
  <2> QED BY <1>1, <1>3, <2>1, <2>3, <2>6 DEF AnswerMakes, Answered
<1>4. CASE o \notin Listed(added[c]) /\ o \notin Listed(changed[c])
  <2>1. Fixed(o, c) = [obj[o] EXCEPT !.isDeleted = @ \/ gone]
    BY <1>1, <1>4 DEF Fixed
  <2>2. Answered(Fixed(o, c), obj[o], gone)
    BY <1>0, <2>1, AnsweredFields
  <2>3. Fixed(o, c).modified = obj[o].modified
    BY <1>0, <2>1, AnsweredFields
  <2> QED BY <1>1, <1>4, <2>2, <2>3 DEF AnswerMakes, Answered
<1> QED BY <1>2, <1>3, <1>4

\* What an object will be when the answer has come does not change while
\* nothing happens to it, to the lists and to the answer.
LEMMA SettledKept ==
    ASSUME NEW o \in Objs, home' = home, obj'[o] = obj[o],
           stage'[home[o]] = "applied" <=> stage[home[o]] = "applied",
           stage[home[o]] = "applied" =>
               /\ added'[home[o]] = added[home[o]]
               /\ changed'[home[o]] = changed[home[o]]
               /\ removed'[home[o]] = removed[home[o]]
               /\ reply'[home[o]] = reply[home[o]]
    PROVE  Settled(o)' = Settled(o)
<1>1. CASE stage[home[o]] # "applied"
  BY <1>1 DEF Settled
<1>2. CASE stage[home[o]] = "applied"
  <2>1. VirtualId(o)' = VirtualId(o)
    BY DEF VirtualId
  <2>2. FixAdded(o, home[o])' = FixAdded(o, home[o])
    BY <1>2, <2>1 DEF FixAdded, Reset
  <2>3. FixChanged(o, home[o])' = FixChanged(o, home[o])
    BY <1>2, <2>1 DEF FixChanged, Reset
  <2>4. Fixed(o, home[o])' = Fixed(o, home[o])
    BY <1>2, <2>2, <2>3, SMTT(30) DEF Fixed, Listed
  <2> QED BY <1>2, <2>4 DEF Settled
<1> QED BY <1>1, <1>2

\* What the server stores.
LEMMA EntityFields ==
    ASSUME TransactionType, NEW i \in DOMAIN db
    PROVE  /\ i \in Nat /\ i \in 1..Len(db) /\ db[i] \in EntityType
           /\ db[i].version \in Nat /\ db[i].val \in Nat
           /\ db[i].src \in Objs /\ db[i].by \in Objs
<1>1. db \in Seq(EntityType)
  BY DEF TransactionType
<1>2. i \in 1..Len(db) /\ Len(db) \in Nat
  BY <1>1
<1>3. db[i] \in EntityType
  BY <1>1, <1>2
<1> QED BY <1>2, <1>3 DEF EntityType

-----------------------------------------------------------------------------
(* The application *)

\* A step on one object, whose connection is not committing, keeps the
\* invariant if it keeps the types, the lists and the promise of the object,
\* and does not turn it into another entity.
LEMMA StepOnObject ==
    ASSUME TransactionInv, NEW o \in Objs, Usable(o),
           UNCHANGED <<home, stage, reply, db, lost>>,
           \A x \in Objs : x # o => obj'[x] = obj[x],
           \A c \in Connections : c # home[o] => /\ added'[c] = added[c]
                                                 /\ changed'[c] = changed[c]
                                                 /\ removed'[c] = removed[c],
           TransactionType', ListsKeyed', Promise(o, obj[o])',
           obj[o].isNew \/ /\ obj'[o].isNew = obj[o].isNew
                           /\ obj'[o].id = obj[o].id
                           /\ obj'[o].version = obj[o].version
                           /\ obj'[o].isDeleted = obj[o].isDeleted
    PROVE  TransactionInv'
<1> USE DEF TransactionInv
<1>1. \A x \in Objs : x # o => Settled(x)' = Settled(x)
  BY SettledKept DEF Usable, TransactionType
<1>2. Settled(o) = obj[o] /\ Settled(o)' = obj'[o]
  BY DEF Settled, Usable
<1>3. RepliesFit' /\ EndsAtHome'
  BY DEF RepliesFit, EndsAtHome, Usable
<1>4. PromisesKept'
  <2> SUFFICES ASSUME NEW x \in Objs
               PROVE  Promise(x, obj[x])' /\ Promise(x, Settled(x))'
    BY DEF PromisesKept
  <2>1. CASE x = o
    BY <1>2, <2>1
  <2>2. CASE x # o
    BY <1>1, <2>2 DEF PromisesKept, Promise, Replaced
  <2> QED BY <2>1, <2>2
<1>5. SourcesKnown' /\ WritersKnown'
  <2> SUFFICES ASSUME lost = 0, NEW i \in DOMAIN db
               PROVE  Is(Settled(db[i].src), i)' /\ IsCurrent(Settled(db[i].by), i)'
    BY DEF SourcesKnown, WritersKnown
  <2>1. db[i].src \in Objs /\ db[i].by \in Objs
    BY EntityFields
  <2>2. Is(Settled(db[i].src), i) /\ IsCurrent(Settled(db[i].by), i)
    BY DEF SourcesKnown, WritersKnown
  <2>3. Is(Settled(db[i].src), i)'
    BY <1>1, <1>2, <2>1, <2>2 DEF Is
  <2>4. IsCurrent(Settled(db[i].by), i)'
    BY <1>1, <1>2, <2>1, <2>2 DEF Is, IsCurrent
  <2> QED BY <2>3, <2>4
<1> QED BY <1>3, <1>4, <1>5

\* An attribute that is set keeps the invariant, if it is flagged when it
\* gets another value, or the object is one whose attributes are replaced.
LEMMA ChangedInv ==
    ASSUME TransactionInv, home' = home, NEW o \in Objs, Usable(o),
           NEW v \in Nat, NEW m \in BOOLEAN, NEW l \in BOOLEAN, Changed(o, v, m, l),
           Replaced(o) \/ m \/ (~obj[o].modified /\ v = obj[o].val)
    PROVE  TransactionInv'
<1> USE DEF TransactionInv
<1>1. obj[o] \in ObjType
  BY DEF TransactionType
<1>2. /\ obj'[o] = [obj[o] EXCEPT !.val = v, !.modified = m, !.listed = l]
      /\ \A x \in Objs : x # o => obj'[x] = obj[x]
      /\ DOMAIN obj' = Objs
  BY DEF Changed, TransactionType
<1>3. /\ obj'[o] \in ObjType /\ obj'[o].val = v /\ obj'[o].modified = m
      /\ obj'[o].isNew = obj[o].isNew /\ obj'[o].id = obj[o].id
      /\ obj'[o].version = obj[o].version /\ obj'[o].isDeleted = obj[o].isDeleted
  BY <1>1, <1>2 DEF ObjType
<1>4. TransactionType'
  BY <1>2, <1>3 DEF TransactionType, Changed, listVars
<1>5. ListsKeyed'
  BY <1>2, <1>3, SMTT(30) DEF ListsKeyed, OnlyNew, OnlyOld, Changed, listVars
<1>6. Promise(o, obj[o])'
  <2>1. Promise(o, obj[o])
    BY DEF PromisesKept
  <2> QED BY <1>3, <2>1 DEF Promise, Replaced, Changed
<1> QED BY <1>2, <1>3, <1>4, <1>5, <1>6, StepOnObject DEF Changed, listVars

\* The application reads an entity or sets an attribute.
LEMMA AttributesInv ==
    ASSUME BoundsAssumption, TransactionInv, home' = home, NEW o \in Objs,
           \/ \E i \in DOMAIN db : Fetch(o, i)
           \/ \E v \in NewValues :
                 SetOrCreateAttribute(o, v) \/ SetValue(o, v) \/ SetAttribute(o, v)
    PROVE  TransactionInv'
<1> USE DEF TransactionInv
<1>0. obj[o] \in ObjType
  BY DEF TransactionType
<1>1. ASSUME NEW i \in DOMAIN db, Fetch(o, i)
      PROVE  TransactionInv'
  <2> USE <1>1
  <2>1. /\ db[i] \in EntityType /\ i \in Nat
        /\ \A x \in Objs : x # o => obj'[x] = obj[x]
        /\ DOMAIN obj' = Objs
        /\ obj'[o] = [isNew |-> FALSE, id |-> i, version |-> db[i].version,
                      isDeleted |-> FALSE, val |-> db[i].val, modified |-> FALSE,
                      listed |-> db[i].val # 0]
    BY EntityFields DEF Fetch, TransactionType
  <2>2. obj'[o] \in ObjType
    BY <2>1 DEF ObjType, EntityType
  <2>3. TransactionType'
    BY <2>1, <2>2 DEF Fetch, listVars, TransactionType
  <2>4. ListsKeyed'
    BY <2>1, SMTT(30) DEF Fetch, listVars, ListsKeyed, OnlyNew, OnlyOld, OnLists, Listed
  <2>5. Promise(o, obj[o])'
    BY <2>1, EntityFields DEF Fetch, Promise
  <2>6. /\ Usable(o) /\ obj[o].isNew
        /\ UNCHANGED <<home, added, changed, removed, stage, reply, db, lost>>
    BY DEF Fetch, listVars, Created
  <2> QED BY <2>1, <2>3, <2>4, <2>5, <2>6, StepOnObject
<1>2. ASSUME NEW v \in NewValues,
             SetOrCreateAttribute(o, v) \/ SetValue(o, v) \/ SetAttribute(o, v)
      PROVE  TransactionInv'
  <2>0. v \in Nat /\ obj[o].modified \in BOOLEAN /\ obj[o].listed \in BOOLEAN
    BY <1>0 DEF BoundsAssumption, ObjType
  <2>1. CASE SetOrCreateAttribute(o, v)
    <3>1. (obj[o].modified \/ v # obj[o].val) \in BOOLEAN
      OBVIOUS
    <3>2. (obj[o].listed \/ ~obj[o].modified) \in BOOLEAN
      OBVIOUS
    <3> QED BY <2>0, <2>1, <3>1, <3>2, ChangedInv DEF SetOrCreateAttribute
  <2>2. CASE SetValue(o, v)
    <3>1. (obj[o].modified \/ v # obj[o].val) \in BOOLEAN
      OBVIOUS
    <3> QED BY <2>0, <2>2, <3>1, ChangedInv DEF SetValue
  <2>3. CASE SetAttribute(o, v)
    BY <2>0, <2>3, ChangedInv DEF SetAttribute, Replaced
  <2> QED BY <1>2, <2>1, <2>2, <2>3
<1> QED BY <1>1, <1>2

-----------------------------------------------------------------------------
(* The lists *)

\* Putting o into a list.
LEMMA PutFields ==
    ASSUME NEW list, NEW o
    PROVE  /\ DOMAIN Put(list, o) = DOMAIN list \cup {VirtualId(o)}
           /\ \A k \in DOMAIN Put(list, o) :
                 \/ k = VirtualId(o) /\ Put(list, o)[k] = o
                 \/ k \in DOMAIN list /\ Put(list, o)[k] = list[k]
BY DEF Put, Over

\* An object may be put on the list that is for it.
LEMMA PutKeyed ==
    ASSUME NEW c \in Connections, NEW o \in Objs, home[o] = c, NEW list
    PROVE  /\ OnlyNew(list, c) /\ obj[o].isNew => OnlyNew(Put(list, o), c)
           /\ OnlyOld(list, c) /\ ~obj[o].isNew => OnlyOld(Put(list, o), c)
<1>1. ASSUME OnlyNew(list, c), obj[o].isNew, NEW k \in DOMAIN Put(list, o)
      PROVE  LET x == Put(list, o)[k] IN
             x \in Objs /\ home[x] = c /\ obj[x].isNew /\ k = -x
  <2>1. VirtualId(o) = -o
    BY <1>1 DEF VirtualId
  <2>2. CASE k = VirtualId(o) /\ Put(list, o)[k] = o
    BY <1>1, <2>1, <2>2
  <2>3. CASE k \in DOMAIN list /\ Put(list, o)[k] = list[k]
    BY <1>1, <2>3 DEF OnlyNew
  <2> QED BY <1>1, <2>2, <2>3, PutFields
<1>2. ASSUME OnlyOld(list, c), ~obj[o].isNew, NEW k \in DOMAIN Put(list, o)
      PROVE  LET x == Put(list, o)[k] IN
             x \in Objs /\ home[x] = c /\ ~obj[x].isNew /\ k = obj[x].id
  <2>1. VirtualId(o) = obj[o].id
    BY <1>2 DEF VirtualId
  <2>2. CASE k = VirtualId(o) /\ Put(list, o)[k] = o
    BY <1>2, <2>1, <2>2
  <2>3. CASE k \in DOMAIN list /\ Put(list, o)[k] = list[k]
    BY <1>2, <2>3 DEF OnlyOld
  <2> QED BY <1>2, <2>2, <2>3, PutFields
<1> QED BY <1>1, <1>2 DEF OnlyNew, OnlyOld

\* While the objects stay what they are, lists may become others that are in
\* order.
LEMMA ListsKept ==
    ASSUME UNCHANGED <<home, obj>>,
           \A c \in Connections :
               /\ OnlyNew(added'[c], c) /\ IsFiniteSet(DOMAIN added'[c])
               /\ OnlyOld(changed'[c], c) /\ OnlyOld(removed'[c], c)
    PROVE  ListsKeyed'
BY DEF ListsKeyed, OnlyNew, OnlyOld

\* Objects are put on the list that is for them: new ones under minus their
\* number, others under their id.
LEMMA ListedInv ==
    ASSUME TransactionInv, home' = home, NEW o \in Objs,
           InsertEntity(o) \/ UpdateEntity(o) \/ DeleteEntity(o)
    PROVE  TransactionInv'
<1> USE DEF TransactionInv
<1>1. home[o] \in Connections /\ Usable(o)
  BY DEF TransactionType, InsertEntity, UpdateEntity, DeleteEntity
<1>2. UNCHANGED <<home, obj, stage, reply, db, lost>>
  BY DEF InsertEntity, UpdateEntity, DeleteEntity
<1>3. TransactionType'
  BY DEF TransactionType, InsertEntity, UpdateEntity, DeleteEntity
<1>4. ASSUME NEW c \in Connections
      PROVE  /\ OnlyNew(added'[c], c) /\ IsFiniteSet(DOMAIN added'[c])
             /\ OnlyOld(changed'[c], c) /\ OnlyOld(removed'[c], c)
             /\ c # home[o] => /\ added'[c] = added[c]
                               /\ changed'[c] = changed[c]
                               /\ removed'[c] = removed[c]
  <2>0. /\ OnlyNew(added[c], c) /\ IsFiniteSet(DOMAIN added[c])
        /\ OnlyOld(changed[c], c) /\ OnlyOld(removed[c], c)
    BY DEF ListsKeyed
  <2>1. CASE InsertEntity(o)
    <3>1. /\ changed'[c] = changed[c] /\ removed'[c] = removed[c] /\ obj[o].isNew
          /\ added'[c] = IF c = home[o] THEN Put(added[c], o) ELSE added[c]
      BY <2>1 DEF InsertEntity, TransactionType
    <3>2. IsFiniteSet(DOMAIN added'[c])
      <4>1. IsFiniteSet(DOMAIN added[c] \cup {VirtualId(o)})
        BY <2>0, FS_AddElement
      <4>2. DOMAIN Put(added[c], o) = DOMAIN added[c] \cup {VirtualId(o)}
        BY PutFields
      <4> QED BY <2>0, <3>1, <4>1, <4>2
    <3> QED BY <2>0, <3>1, <3>2, PutKeyed
  <2>2. CASE UpdateEntity(o)
    <3>1. /\ added'[c] = added[c] /\ removed'[c] = removed[c] /\ ~obj[o].isNew
          /\ changed'[c] = IF c = home[o] THEN Put(changed[c], o) ELSE changed[c]
      BY <2>2 DEF UpdateEntity, TransactionType
    <3> QED BY <2>0, <3>1, PutKeyed
  <2>3. CASE DeleteEntity(o)
    <3>1. /\ added'[c] = added[c] /\ changed'[c] = changed[c] /\ ~obj[o].isNew
          /\ removed'[c] = IF c = home[o] THEN Put(removed[c], o) ELSE removed[c]
      BY <2>3 DEF DeleteEntity, TransactionType
    <3> QED BY <2>0, <3>1, PutKeyed
  <2> QED BY <2>1, <2>2, <2>3
<1>5. ListsKeyed'
  BY <1>2, <1>4, ListsKept
<1>6. Promise(o, obj[o])'
  BY <1>2 DEF PromisesKept, Promise, Replaced
<1> QED BY <1>1, <1>2, <1>3, <1>4, <1>5, <1>6, StepOnObject

-----------------------------------------------------------------------------
(* The steps of a connection but for the server's *)

\* While the objects, the server and the answers stay what they are, a
\* connection without an answer on its way may move to another such place,
\* and have other lists that are in order.
LEMMA StepOfConnection ==
    ASSUME TransactionInv, NEW c \in Connections,
           UNCHANGED <<home, obj, reply, db, lost>>,
           stage[c] # "applied", stage'[c] # "applied",
           \A d \in Connections : d # c => /\ stage'[d] = stage[d]
                                           /\ added'[d] = added[d]
                                           /\ changed'[d] = changed[d]
                                           /\ removed'[d] = removed[d],
           TransactionType', ListsKeyed'
    PROVE  TransactionInv'
<1> USE DEF TransactionInv
<1>1. \A x \in Objs : Settled(x)' = Settled(x)
  BY SettledKept DEF TransactionType
<1>2. RepliesFit' /\ EndsAtHome'
  BY DEF RepliesFit, EndsAtHome
<1>3. PromisesKept'
  BY <1>1 DEF PromisesKept, Promise, Replaced
<1>4. SourcesKnown' /\ WritersKnown'
  <2>1. \A i \in DOMAIN db : db[i].src \in Objs /\ db[i].by \in Objs
    BY EntityFields
  <2> QED BY <1>1, <2>1 DEF SourcesKnown, WritersKnown, Is, IsCurrent
<1> QED BY <1>2, <1>3, <1>4

\* The objects on lists, and the nodes that their edges bring.
LEMMA EndsFields ==
    ASSUME ObjsAssumption, EndsAtHome, NEW c \in Connections, NEW list,
           OnlyNew(list, c) \/ OnlyOld(list, c)
    PROVE  \A n \in ExistingEnds(list) : n \in Objs /\ home[n] = c /\ ~obj[n].isNew
<1> SUFFICES ASSUME NEW n \in ExistingEnds(list)
             PROVE  n \in Objs /\ home[n] = c /\ ~obj[n].isNew
  OBVIOUS
<1>1. PICK e \in Listed(list) \cap Edges : n \in Ends[e] /\ ~obj[n].isNew
  BY DEF ExistingEnds
<1>2. home[e] = c
  BY <1>1 DEF Listed, OnlyNew, OnlyOld
<1> QED BY <1>1, <1>2 DEF EndsAtHome, ObjsAssumption, Objs

\* The changed list stays one of stored objects of c under their ids when the
\* stored end nodes of edges are put into it.
LEMMA PutAllKeyed ==
    ASSUME NEW c \in Connections, NEW list, OnlyOld(list, c), NEW ns,
           \A n \in ns : n \in Objs /\ home[n] = c /\ ~obj[n].isNew,
           NEW l \in PutAll(list, ns)
    PROVE  OnlyOld(l, c)
<1>1. PICK f \in [{VirtualId(n) : n \in ns} -> ns] :
         /\ \A k \in DOMAIN f : VirtualId(f[k]) = k
         /\ l = Over(f, list)
  BY DEF PutAll
<1>2. ASSUME NEW k \in DOMAIN l
      PROVE  l[k] \in Objs /\ home[l[k]] = c /\ ~obj[l[k]].isNew /\ k = obj[l[k]].id
  <2>1. CASE k \in DOMAIN f
    <3>1. l[k] = f[k] /\ f[k] \in ns /\ VirtualId(f[k]) = k
      BY <1>1, <2>1 DEF Over
    <3> QED BY <3>1 DEF VirtualId
  <2>2. CASE k \notin DOMAIN f
    <3>1. k \in DOMAIN list /\ l[k] = list[k]
      BY <1>1, <1>2, <2>2 DEF Over
    <3> QED BY <3>1 DEF OnlyOld
  <2> QED BY <2>1, <2>2
<1> QED BY <1>2 DEF OnlyOld

\* Rollback, the beginning of Commit, and a commit that fails.
LEMMA QuietInv ==
    ASSUME ObjsAssumption, TransactionInv, home' = home, NEW c \in Connections,
           Rollback(c) \/ Commit(c) \/ CommitFails(c)
    PROVE  TransactionInv'
<1> USE DEF TransactionInv
<1>0. /\ OnlyNew(added[c], c) /\ IsFiniteSet(DOMAIN added[c])
      /\ OnlyOld(changed[c], c) /\ OnlyOld(removed[c], c)
  BY DEF ListsKeyed
<1>1. CASE Rollback(c)
  <2>1. ASSUME NEW d \in Connections
        PROVE  /\ d = c => added'[d] = <<>> /\ changed'[d] = <<>> /\ removed'[d] = <<>>
               /\ d # c => /\ added'[d] = added[d] /\ changed'[d] = changed[d]
                           /\ removed'[d] = removed[d]
    BY <1>1 DEF Rollback, ClearLists, NoList, TransactionType
  <2>2. DOMAIN <<>> = {} /\ IsFiniteSet({})
    BY FS_EmptySet
  <2>3. ListsKeyed'
    <3>1. ASSUME NEW d \in Connections
          PROVE  /\ OnlyNew(added'[d], d) /\ IsFiniteSet(DOMAIN added'[d])
                 /\ OnlyOld(changed'[d], d) /\ OnlyOld(removed'[d], d)
      BY <2>1, <2>2 DEF ListsKeyed, OnlyNew, OnlyOld
    <3> QED BY <1>1, <3>1, ListsKept DEF Rollback
  <2>4. TransactionType'
    BY <1>1 DEF Rollback, ClearLists, TransactionType
  <2>5. stage[c] = "idle" /\ UNCHANGED <<home, obj, stage, reply, db, lost>>
    BY <1>1 DEF Rollback
  <2> QED BY <2>1, <2>3, <2>4, <2>5, StepOfConnection
<1>2. CASE Commit(c)
  <2>1. PICK l1 \in PutAll(changed[c], ExistingEnds(added[c])) :
        \E l2 \in PutAll(l1, ExistingEnds(l1)) :
        \E l3 \in PutAll(l2, {n \in ExistingEnds(removed[c]) :
                                VirtualId(n) \notin DOMAIN removed[c]}) :
           changed' = [changed EXCEPT ![c] = l3]
    BY <1>2 DEF Commit
  <2>2. PICK l2 \in PutAll(l1, ExistingEnds(l1)) :
        \E l3 \in PutAll(l2, {n \in ExistingEnds(removed[c]) :
                                VirtualId(n) \notin DOMAIN removed[c]}) :
           changed' = [changed EXCEPT ![c] = l3]
    BY <2>1
  <2>3. PICK l3 \in PutAll(l2, {n \in ExistingEnds(removed[c]) :
                                  VirtualId(n) \notin DOMAIN removed[c]}) :
           changed' = [changed EXCEPT ![c] = l3]
    BY <2>2
  <2>4. OnlyOld(l1, c)
    BY <1>0, <2>1, EndsFields, PutAllKeyed
  <2>5. OnlyOld(l2, c)
    BY <2>2, <2>4, EndsFields, PutAllKeyed
  <2>6. OnlyOld(l3, c)
    <3> DEFINE ns == {n \in ExistingEnds(removed[c]) :
                        VirtualId(n) \notin DOMAIN removed[c]}
    <3>1. \A n \in ns : n \in Objs /\ home[n] = c /\ ~obj[n].isNew
      BY <1>0, EndsFields
    <3>2. l3 \in PutAll(l2, ns)
      BY <2>3
    <3> HIDE DEF ns
    <3> QED BY <2>5, <3>1, <3>2, PutAllKeyed
  <2>7. /\ stage[c] = "idle" /\ stage' = [stage EXCEPT ![c] = "sent"]
        /\ UNCHANGED <<home, obj, added, removed, reply, db, lost>>
    BY <1>2 DEF Commit
  <2>8. ASSUME NEW d \in Connections
        PROVE  /\ d = c => changed'[d] = l3 /\ stage'[d] = "sent"
               /\ d # c => changed'[d] = changed[d] /\ stage'[d] = stage[d]
    BY <2>3, <2>7 DEF TransactionType
  <2>9. TransactionType'
    BY <2>3, <2>7 DEF TransactionType
  <2>10. ASSUME NEW d \in Connections
         PROVE  /\ OnlyNew(added'[d], d) /\ IsFiniteSet(DOMAIN added'[d])
                /\ OnlyOld(changed'[d], d) /\ OnlyOld(removed'[d], d)
    BY <2>6, <2>7, <2>8 DEF ListsKeyed
  <2>11. ListsKeyed'
    BY <2>7, <2>10, ListsKept
  <2> QED BY <2>7, <2>8, <2>9, <2>11, StepOfConnection
<1>3. CASE CommitFails(c)
  <2>1. /\ stage[c] = "sent" /\ stage' = [stage EXCEPT ![c] = "idle"]
        /\ UNCHANGED <<home, obj, added, changed, removed, reply, db, lost>>
    BY <1>3 DEF CommitFails, listVars
  <2>2. TransactionType' /\ ListsKeyed'
    BY <2>1 DEF TransactionType, ListsKeyed, OnlyNew, OnlyOld
  <2>3. ASSUME NEW d \in Connections
        PROVE  /\ d = c => stage'[d] = "idle"
               /\ d # c => stage'[d] = stage[d]
    BY <2>1 DEF TransactionType
  <2> QED BY <2>1, <2>2, <2>3, StepOfConnection
<1> QED BY <1>1, <1>2, <1>3

-----------------------------------------------------------------------------
(* The answer *)

\* An object that is on no list of c is none of the answer's business.
LEMMA FixedElsewhere ==
    ASSUME TransactionType, NEW o \in Objs, NEW c \in Connections,
           o \notin Listed(added[c]), o \notin Listed(changed[c]),
           o \notin Listed(removed[c])
    PROVE  Fixed(o, c) = obj[o]
<1>1. obj[o] \in ObjType
  BY DEF TransactionType
<1>2. Fixed(o, c) = [obj[o] EXCEPT !.isDeleted = @ \/ o \in Listed(removed[c])]
  BY DEF Fixed
<1>3. (obj[o].isDeleted \/ o \in Listed(removed[c])) = obj[o].isDeleted
  BY <1>1 DEF ObjType
<1>4. Fixed(o, c) = [obj[o] EXCEPT !.isDeleted = obj[o].isDeleted]
  BY <1>2, <1>3
<1> QED BY <1>1, <1>4 DEF ObjType

\* The objects on the lists of c are objects of c.
LEMMA ListedAtHome ==
    ASSUME ListsKeyed, NEW c \in Connections
    PROVE  /\ \A o \in Listed(added[c]) :
                 o \in Objs /\ home[o] = c /\ obj[o].isNew /\ added[c][-o] = o
                 /\ -o \in DOMAIN added[c]
           /\ \A o \in Listed(changed[c]) :
                 o \in Objs /\ home[o] = c /\ ~obj[o].isNew
                 /\ changed[c][obj[o].id] = o /\ obj[o].id \in DOMAIN changed[c]
           /\ \A o \in Listed(removed[c]) :
                 o \in Objs /\ home[o] = c /\ ~obj[o].isNew
                 /\ removed[c][obj[o].id] = o /\ obj[o].id \in DOMAIN removed[c]
<1>1. /\ OnlyNew(added[c], c) /\ OnlyOld(changed[c], c) /\ OnlyOld(removed[c], c)
  BY DEF ListsKeyed
<1> QED BY <1>1 DEF Listed, OnlyNew, OnlyOld

\* FixedElsewhere, of the next state.
LEMMA ElsewhereNext ==
    ASSUME NEW o \in Objs, NEW c \in Connections
    PROVE  (TransactionType /\ o \notin Listed(added[c]) /\ o \notin Listed(changed[c])
              /\ o \notin Listed(removed[c]) => Fixed(o, c) = obj[o])'
<1>1. TransactionType /\ o \notin Listed(added[c]) /\ o \notin Listed(changed[c])
        /\ o \notin Listed(removed[c]) => Fixed(o, c) = obj[o]
  BY FixedElsewhere
<1> QED BY <1>1, PTL

\* After the return of Commit the objects are what they were going to be.
LEMMA ReturnsInv ==
    ASSUME TransactionInv, home' = home, NEW c \in Connections, CommitReturns(c)
    PROVE  TransactionInv'
<1> USE DEF TransactionInv
<1>1. /\ stage[c] = "applied" /\ UNCHANGED <<home, db, lost>>
      /\ \A o \in Objs : obj'[o] = Fixed(o, c)
      /\ DOMAIN obj' = Objs
  BY DEF CommitReturns
<1>2. ASSUME NEW d \in Connections
      PROVE  /\ d = c => /\ stage'[d] = "idle" /\ added'[d] = <<>>
                         /\ changed'[d] = <<>> /\ removed'[d] = <<>>
             /\ d # c => /\ stage'[d] = stage[d] /\ added'[d] = added[d]
                         /\ changed'[d] = changed[d] /\ removed'[d] = removed[d]
                         /\ reply'[d] = reply[d]
  BY DEF CommitReturns, ClearLists, NoList, TransactionType
<1>3. ASSUME NEW o \in Objs
      PROVE  home[o] # c => obj'[o] = obj[o]
  BY <1>1, FixedElsewhere, ListedAtHome
<1>4. ASSUME NEW o \in Objs
      PROVE  obj'[o] \in ObjType
  BY <1>1, FixedFields DEF AnswerMakes
<1>5. TransactionType'
  <2>1. obj' \in [Objs -> ObjType]
    BY <1>4 DEF CommitReturns
  <2> QED BY <2>1 DEF CommitReturns, ClearLists, TransactionType
<1>6. ASSUME NEW o \in Objs
      PROVE  Settled(o)' = Settled(o) /\ (home[o] = c => obj'[o] = Settled(o))
  <2>1. CASE home[o] = c
    BY <1>1, <1>2, <2>1 DEF Settled
  <2>2. CASE home[o] # c
    BY <1>1, <1>2, <1>3, <2>2, SettledKept DEF TransactionType
  <2> QED BY <2>1, <2>2
<1>7. ListsKeyed'
  <2> SUFFICES ASSUME NEW d \in Connections
               PROVE  /\ OnlyNew(added[d], d)' /\ IsFiniteSet(DOMAIN added'[d])
                      /\ OnlyOld(changed[d], d)' /\ OnlyOld(removed[d], d)'
    BY DEF ListsKeyed
  <2>1. CASE d = c
    <3>1. DOMAIN <<>> = {} /\ IsFiniteSet({})
      BY FS_EmptySet
    <3> QED BY <1>2, <2>1, <3>1 DEF OnlyNew, OnlyOld
  <2>2. CASE d # c
    BY <1>1, <1>2, <1>3, <2>2 DEF ListsKeyed, OnlyNew, OnlyOld
  <2> QED BY <2>1, <2>2
<1>8. EndsAtHome' /\ RepliesFit'
  BY <1>1, <1>2 DEF EndsAtHome, RepliesFit
<1>9. PromisesKept'
  <2> SUFFICES ASSUME NEW o \in Objs
               PROVE  Promise(o, obj[o])' /\ Promise(o, Settled(o))'
    BY DEF PromisesKept
  <2> QED BY <1>1, <1>3, <1>6 DEF PromisesKept, Promise, Replaced
<1>10. SourcesKnown' /\ WritersKnown'
  <2>1. \A i \in DOMAIN db : db[i].src \in Objs /\ db[i].by \in Objs
    BY EntityFields
  <2> QED BY <1>1, <1>6, <2>1 DEF SourcesKnown, WritersKnown, Is, IsCurrent
<1> QED BY <1>5, <1>7, <1>8, <1>9, <1>10

\* When the answer is lost they stay what they are.
LEMMA LostInv ==
    ASSUME TransactionInv, home' = home, NEW c \in Connections, AnswerLost(c)
    PROVE  TransactionInv'
<1> USE DEF TransactionInv
<1>1. /\ stage[c] = "applied" /\ lost' = lost + 1
      /\ UNCHANGED <<home, obj, added, changed, removed, db>>
  BY DEF AnswerLost, listVars
<1>2. \A d \in Connections : /\ d = c => stage'[d] = "idle"
                             /\ d # c => stage'[d] = stage[d] /\ reply'[d] = reply[d]
  BY DEF AnswerLost, TransactionType
<1>3. TransactionType' /\ lost' # 0
  BY <1>1 DEF AnswerLost, TransactionType
<1>4. ASSUME NEW o \in Objs
      PROVE  Settled(o)' = IF home[o] = c THEN obj[o] ELSE Settled(o)
  <2>1. CASE home[o] = c
    BY <1>1, <1>2, <2>1 DEF Settled
  <2>2. CASE home[o] # c
    BY <1>1, <1>2, <2>2, SettledKept DEF TransactionType
  <2> QED BY <2>1, <2>2
<1>5. ListsKeyed' /\ EndsAtHome' /\ RepliesFit'
  BY <1>1, <1>2 DEF ListsKeyed, OnlyNew, OnlyOld, EndsAtHome, RepliesFit
<1>6. PromisesKept'
  BY <1>1, <1>4 DEF PromisesKept, Promise, Replaced
<1>7. SourcesKnown' /\ WritersKnown'
  BY <1>3 DEF SourcesKnown, WritersKnown
<1> QED BY <1>3, <1>5, <1>6, <1>7

-----------------------------------------------------------------------------
(* The server *)

\* What a commit writes to an entity: of what is removed, that it is gone; a
\* new version of what is changed, with its value if it is flagged.
LEMMA WrittenFields ==
    ASSUME TransactionType, ListsKeyed, NEW c \in Connections, NEW k \in DOMAIN db
    PROVE  LET w == Written(k, c) IN
           /\ w \in EntityType /\ w.src = db[k].src
           /\ k \in DOMAIN removed[c] =>
                 /\ w.version = db[k].version /\ w.val = db[k].val
                 /\ w.gone /\ w.by = removed[c][k]
           /\ k \in DOMAIN changed[c] \ DOMAIN removed[c] =>
                 /\ w.version = db[k].version + 1 /\ w.gone = db[k].gone
                 /\ w.by = changed[c][k]
                 /\ w.val = Sent(changed[c][k], db[k].val)
           /\ k \notin DOMAIN changed[c] \cup DOMAIN removed[c] => w = db[k]
<1>1. db[k] \in EntityType
  BY EntityFields
<1>2. CASE k \in DOMAIN removed[c]
  <2>1. removed[c][k] \in Objs
    BY <1>2 DEF ListsKeyed, OnlyOld
  <2>2. Written(k, c) = [db[k] EXCEPT !.gone = TRUE, !.by = removed[c][k]]
    BY <1>2 DEF Written
  <2> QED BY <1>1, <1>2, <2>1, <2>2 DEF EntityType
<1>3. CASE k \in DOMAIN changed[c] \ DOMAIN removed[c]
  <2>1. changed[c][k] \in Objs
    BY <1>3 DEF ListsKeyed, OnlyOld
  <2>2. PICK v \in Nat : v = Sent(changed[c][k], db[k].val)
    <3>1. obj[changed[c][k]] \in ObjType
      BY <2>1 DEF TransactionType
    <3> QED BY <1>1, <3>1 DEF Sent, ObjType, EntityType
  <2>3. Written(k, c) = [db[k] EXCEPT !.version = @ + 1, !.by = changed[c][k],
                                      !.val = v]
    BY <1>3, <2>2 DEF Written
  <2>4. db[k].version + 1 \in Nat
    BY <1>1 DEF EntityType
  <2>5. PICK x \in Nat : x = db[k].version + 1
    BY <2>4
  <2>6. Written(k, c) = [db[k] EXCEPT !.version = x, !.by = changed[c][k], !.val = v]
    BY <2>3, <2>5
  <2>7. Written(k, c) = [version |-> x, val |-> v, gone |-> db[k].gone,
                         src |-> db[k].src, by |-> changed[c][k]]
    BY <1>1, <2>6 DEF EntityType
  <2>8. db[k].gone \in BOOLEAN /\ db[k].src \in Objs
    BY <1>1 DEF EntityType
  <2> QED BY <1>3, <2>1, <2>2, <2>5, <2>7, <2>8 DEF EntityType
<1>4. CASE k \notin DOMAIN changed[c] \cup DOMAIN removed[c]
  BY <1>1, <1>4 DEF Written
<1> QED BY <1>2, <1>3, <1>4

\* What the server does for the commit of c: the entities it had are written,
\* every object that was added becomes one entity, and the answer says which,
\* and the new versions of those that were changed.
Applies(c) ==
    LET ids == reply'[c].ids
        versions == reply'[c].versions
        new == Len(db) + 1 .. Len(db')
    IN  /\ DOMAIN db = 1 .. Len(db) /\ DOMAIN db' = 1 .. Len(db')
        /\ Len(db) \in Nat /\ Len(db') \in Nat /\ Len(db) <= Len(db')
        /\ \A i \in DOMAIN db : db'[i] = Written(i, c)
        /\ \A i \in new : \E k \in DOMAIN added[c] :
              db'[i] = NewEntity(added[c][k]) /\ ids[k] = i
        /\ \A k \in DOMAIN added[c] :
              ids[k] \in new /\ db'[ids[k]] = NewEntity(added[c][k])
        /\ DOMAIN versions = DOMAIN changed[c] \ DOMAIN removed[c]
        /\ \A k \in DOMAIN versions : versions[k] = db[k].version + 1

\* A commit that the server executes is one.
LEMMA ServerApplies ==
    ASSUME TransactionType, ListsKeyed, NEW c \in Connections, ServerCommits(c)
    PROVE  Applies(c)
<1> DEFINE n == Len(db)
           A == DOMAIN added[c]
           last == n + Cardinality(A)
<1>1. IsFiniteSet(A)
  BY DEF ListsKeyed
<1>2. n \in Nat /\ Cardinality(A) \in Nat /\ last \in Nat /\ n <= last
  BY <1>1, FS_CardinalityType DEF TransactionType
<1>3. DOMAIN db = 1 .. n
  BY DEF TransactionType
<1>4. PICK place \in [n + 1 .. last -> A] :
        /\ \A k \in A : \E i \in n + 1 .. last : place[i] = k
        /\ db' = [i \in 1 .. last |-> IF i <= n THEN Written(i, c)
                                      ELSE NewEntity(added[c][place[i]])]
        /\ reply' = [reply EXCEPT ![c] =
             [ids |-> [k \in A |-> CHOOSE i \in n + 1 .. last : place[i] = k],
              versions |-> [k \in DOMAIN changed[c] \ DOMAIN removed[c] |->
                              db[k].version + 1]]]
  BY DEF ServerCommits
<1> HIDE DEF n, A, last
<1>5. DOMAIN db' = 1 .. last /\ Len(db') = last
  BY <1>2, <1>4
<1>6. reply'[c] = [ids |-> [k \in A |-> CHOOSE i \in n + 1 .. last : place[i] = k],
                   versions |-> [k \in DOMAIN changed[c] \ DOMAIN removed[c] |->
                                   db[k].version + 1]]
  BY <1>4 DEF TransactionType
<1>7. \A i, j \in n + 1 .. last : place[i] = place[j] => i = j
  <2>1. place \in Surjection(n + 1 .. last, A)
    BY <1>4 DEF Surjection
  <2>2. IsFiniteSet(n + 1 .. last) /\ Cardinality(n + 1 .. last) = last - n
    <3>1. n + 1 \in Int /\ last \in Int
      BY <1>2
    <3>2. Cardinality(n + 1 .. last) = IF n + 1 > last THEN 0 ELSE last - (n + 1) + 1
      BY <3>1, FS_Interval
    <3>3. IsFiniteSet(n + 1 .. last)
      BY <3>1, FS_Interval
    <3> QED BY <1>2, <3>2, <3>3
  <2>3. Cardinality(n + 1 .. last) = Cardinality(A)
    BY <1>2, <2>2 DEF last
  <2>4. place \in Injection(n + 1 .. last, A)
    <3> DEFINE S == n + 1 .. last
    <3>1. IsFiniteSet(S) /\ Cardinality(S) = Cardinality(A) /\ place \in Surjection(S, A)
      BY <2>1, <2>2, <2>3
    <3> HIDE DEF S
    <3>2. place \in Injection(S, A)
      BY <3>1, FS_SurjSameCardinalityImpliesInj
    <3> QED BY <3>2 DEF S
  <2> QED BY <1>4, <2>4 DEF Injection, IsInjective
<1>8. ASSUME NEW k \in A
      PROVE  /\ reply'[c].ids[k] \in n + 1 .. last
             /\ place[reply'[c].ids[k]] = k
  BY <1>4, <1>6, SMTT(30)
<1>9. ASSUME NEW i \in n + 1 .. last
      PROVE  /\ place[i] \in A /\ reply'[c].ids[place[i]] = i
             /\ db'[i] = NewEntity(added[c][place[i]])
  <2>1. place[i] \in A
    BY <1>4
  <2>2. reply'[c].ids[place[i]] = i
    BY <1>7, <1>8, <2>1
  <2>3. db'[i] = NewEntity(added[c][place[i]])
    BY <1>2, <1>4
  <2> QED BY <2>1, <2>2, <2>3
<1>10. \A i \in DOMAIN db : db'[i] = Written(i, c)
  BY <1>2, <1>3, <1>4
<1>11. /\ DOMAIN reply'[c].versions = DOMAIN changed[c] \ DOMAIN removed[c]
       /\ \A k \in DOMAIN reply'[c].versions :
             reply'[c].versions[k] = db[k].version + 1
  BY <1>6
<1>12. ASSUME NEW k \in A
       PROVE  db'[reply'[c].ids[k]] = NewEntity(added[c][k])
  BY <1>8, <1>9
<1> QED BY <1>2, <1>3, <1>5, <1>8, <1>9, <1>10, <1>11, <1>12 DEF Applies, n, A

\* FixedFields, of the next state.
LEMMA FixedNext ==
    ASSUME NEW o \in Objs, NEW c \in Connections
    PROVE  (TransactionType /\ ListsKeyed /\ RepliesFit /\ stage[c] = "applied"
              => AnswerMakes(Fixed(o, c), obj[o], o, c))'
<1>1. TransactionType /\ ListsKeyed /\ RepliesFit /\ stage[c] = "applied"
        => AnswerMakes(Fixed(o, c), obj[o], o, c)
  BY FixedFields
<1> QED BY <1>1, PTL

\* What holds of an object that no commit of its own touches goes on to hold:
\* an entity it agrees with is gone, or has a new version, or is unchanged.
LEMMA PromiseOfOthers ==
    ASSUME TransactionType, ListsKeyed, NEW c \in Connections, Applies(c),
           NEW o \in Objs, NEW r \in ObjType, Promise(o, r)
    PROVE  Promise(o, r)'
<1>1. ASSUME ~r.isNew
      PROVE  LET e == db'[r.id] IN
             /\ r.id \in DOMAIN db' /\ r.version <= e.version
             /\ r.isDeleted => e.gone
             /\ ~Replaced(o) /\ ~r.modified /\ ~e.gone /\ r.version = e.version
                   => r.val = e.val
  <2>1. r.id \in DOMAIN db /\ db'[r.id] = Written(r.id, c) /\ r.id \in DOMAIN db'
    BY <1>1 DEF Promise, Applies
  <2>2. db[r.id].version \in Nat /\ r.version \in Nat
    BY <2>1, EntityFields DEF ObjType
  <2>3. CASE r.id \in DOMAIN removed[c]
    BY <1>1, <2>1, <2>2, <2>3, WrittenFields DEF Promise
  <2>4. CASE r.id \in DOMAIN changed[c] \ DOMAIN removed[c]
    BY <1>1, <2>1, <2>2, <2>4, WrittenFields DEF Promise
  <2>5. CASE r.id \notin DOMAIN changed[c] \cup DOMAIN removed[c]
    BY <1>1, <2>1, <2>2, <2>5, WrittenFields DEF Promise
  <2> QED BY <2>3, <2>4, <2>5
<1> QED BY <1>1 DEF Promise, Replaced

\* What an object is going to be is an object.
LEMMA SettledType ==
    ASSUME TransactionType, ListsKeyed, RepliesFit, NEW o \in Objs
    PROVE  Settled(o) \in ObjType
<1>1. home[o] \in Connections /\ obj[o] \in ObjType
  BY DEF TransactionType
<1> QED BY <1>1, FixedFields DEF Settled, AnswerMakes

\* The server commits.
LEMMA ServerInv ==
    ASSUME ObjsAssumption, TransactionInv, home' = home, NEW c \in Connections,
           ServerCommits(c)
    PROVE  TransactionInv'
<1> USE DEF TransactionInv
<1>1. Applies(c)
  BY ServerApplies
<1>2. /\ stage[c] = "sent" /\ stage' = [stage EXCEPT ![c] = "applied"]
      /\ UNCHANGED <<home, obj, added, changed, removed, lost>>
      /\ Current(changed[c]) /\ Current(removed[c])
  BY DEF ServerCommits, listVars
<1>3. /\ stage'[c] = "applied"
      /\ \A d \in Connections : d # c => stage'[d] = stage[d] /\ reply'[d] = reply[d]
  BY <1>2 DEF ServerCommits, TransactionType
<1>4. ASSUME NEW o \in Objs
      PROVE  NewEntity(o) \in EntityType
  <2>1. obj[o] \in ObjType
    BY DEF TransactionType
  <2> QED BY <2>1 DEF NewEntity, Sent, EntityType, ObjType
<1>5. TransactionType'
  <2>1. ASSUME NEW i \in DOMAIN db'
        PROVE  db'[i] \in EntityType
    <3>1. CASE i \in DOMAIN db
      BY <1>1, <3>1, WrittenFields DEF Applies
    <3>2. CASE i \in Len(db) + 1 .. Len(db')
      <4>1. PICK k \in DOMAIN added[c] : db'[i] = NewEntity(added[c][k])
        BY <1>1, <3>2 DEF Applies
      <4>2. added[c][k] \in Objs
        BY DEF ListsKeyed, OnlyNew
      <4> QED BY <1>4, <4>1, <4>2
    <3> QED BY <1>1, <3>1, <3>2 DEF Applies
  <2>2. PICK n \in Nat : db' = [i \in 1 .. n |-> db'[i]]
    <3>1. Len(db) \in Nat /\ IsFiniteSet(DOMAIN added[c])
      BY DEF TransactionType, ListsKeyed
    <3>2. Len(db) + Cardinality(DOMAIN added[c]) \in Nat
      BY <3>1, FS_CardinalityType
    <3> QED BY <3>2 DEF ServerCommits
  <2>3. db' \in Seq(EntityType)
    BY <2>1, <2>2
  <2>4. DOMAIN reply' = Connections
    BY DEF ServerCommits, TransactionType
  <2> QED BY <1>2, <2>3, <2>4 DEF TransactionType
<1>6. ListsKeyed' /\ EndsAtHome'
  BY <1>2 DEF ListsKeyed, OnlyNew, OnlyOld, EndsAtHome
<1>7. RepliesFit'
  <2> SUFFICES ASSUME NEW d \in Connections, stage'[d] = "applied"
               PROVE  /\ \A k \in DOMAIN added'[d] : reply'[d].ids[k] \in DOMAIN db'
                      /\ \A k \in DOMAIN reply'[d].versions :
                            reply'[d].versions[k] \in Nat
    BY DEF RepliesFit
  <2>1. CASE d = c
    <3>1. \A k \in DOMAIN added'[c] : reply'[c].ids[k] \in DOMAIN db'
      BY <1>1, <1>2 DEF Applies
    <3>2. ASSUME NEW k \in DOMAIN reply'[c].versions
          PROVE  reply'[c].versions[k] \in Nat
      <4>1. reply'[c].versions[k] = db[k].version + 1 /\ k \in DOMAIN changed[c]
        BY <1>1 DEF Applies
      <4>2. k \in DOMAIN db
        BY <1>2, <4>1 DEF Current
      <4> QED BY <4>1, <4>2, EntityFields
    <3> QED BY <2>1, <3>1, <3>2
  <2>2. CASE d # c
    BY <1>1, <1>2, <1>3, <2>2 DEF RepliesFit, Applies
  <2> QED BY <2>1, <2>2
<1>8. ASSUME NEW o \in Objs
      PROVE  /\ home[o] # c => Settled(o)' = Settled(o)
             /\ home[o] = c => /\ Settled(o) = obj[o]
                               /\ Settled(o)' = Fixed(o, c)'
                               /\ AnswerMakes(Fixed(o, c), obj[o], o, c)'
  <2>1. CASE home[o] = c
    BY <1>2, <1>3, <1>5, <1>6, <1>7, <2>1, FixedNext DEF Settled
  <2>2. CASE home[o] # c
    BY <1>2, <1>3, <2>2, SettledKept DEF TransactionType
  <2> QED BY <2>1, <2>2
<1>9. ASSUME NEW o \in Objs, home[o] = c
      PROVE  /\ obj[o].isNew /\ o \notin Listed(added[c]) => Settled(o)' = obj[o]
             /\ ~obj[o].isNew =>
                   /\ Settled(o)'.isNew = FALSE /\ Settled(o)'.id = obj[o].id
                   /\ Settled(o)'.isDeleted <=>
                         obj[o].isDeleted \/ o \in Listed(removed[c])
                   /\ Settled(o)'.version =
                         IF /\ o \in Listed(changed[c])
                            /\ obj[o].id \notin DOMAIN removed[c]
                         THEN db[obj[o].id].version + 1 ELSE obj[o].version
  <2>1. CASE obj[o].isNew /\ o \notin Listed(added[c])
    <3>1. o \notin Listed(changed[c]) /\ o \notin Listed(removed[c])
      BY <2>1, ListedAtHome
    <3>2. (TransactionType /\ o \notin Listed(added[c]) /\ o \notin Listed(changed[c])
             /\ o \notin Listed(removed[c]) => Fixed(o, c) = obj[o])'
      BY ElsewhereNext
    <3> QED BY <1>2, <1>5, <1>8, <1>9, <2>1, <3>1, <3>2 DEF Listed
  <2>2. CASE ~obj[o].isNew
    <3>1. o \notin Listed(added[c])
      BY <2>2, ListedAtHome
    <3>2. VirtualId(o)' = obj[o].id
      BY <1>2, <2>2 DEF VirtualId
    <3>3. o \in Listed(changed[c]) => obj[o].id \in DOMAIN changed[c]
      BY ListedAtHome
    <3>4. AnswerMakes(Settled(o), obj[o], o, c)'
      BY <1>8, <1>9
    <3> QED BY <1>1, <1>2, <2>2, <3>1, <3>2, <3>3, <3>4
            DEF AnswerMakes, Applies, Listed
  <2> QED BY <2>1, <2>2
<1>10. ASSUME NEW o \in Objs, home[o] = c, o \in Listed(added[c])
       PROVE  LET s == Settled(o)' IN
              /\ ~s.isNew /\ ~s.isDeleted /\ s.version = 1 /\ s.val = obj[o].val
              /\ s.id = reply'[c].ids[-o]
              /\ s.id \in Len(db) + 1 .. Len(db') /\ db'[s.id] = NewEntity(o)
  <2>1. obj[o].isNew /\ added[c][-o] = o /\ -o \in DOMAIN added[c]
    BY <1>10, ListedAtHome
  <2>2. VirtualId(o)' = -o /\ obj'[o] = obj[o]
    BY <1>2, <2>1 DEF VirtualId
  <2>3. o \notin Listed(removed[c]) /\ ~obj[o].isDeleted
    BY <2>1, ListedAtHome DEF PromisesKept, Promise
  <2>4. AnswerMakes(Settled(o), obj[o], o, c)'
    BY <1>8, <1>10
  <2>5. Listed(added[c])' = Listed(added[c]) /\ Listed(removed[c])' = Listed(removed[c])
    BY <1>2 DEF Listed
  <2> QED BY <1>1, <1>10, <2>1, <2>2, <2>3, <2>4, <2>5 DEF AnswerMakes, Applies
<1>11. ASSUME NEW o \in Objs
       PROVE  Promise(o, obj[o])'
  <2>1. PICK r \in ObjType : r = obj[o] /\ r = obj'[o]
    BY <1>2 DEF TransactionType
  <2>2. Promise(o, r)
    BY <2>1 DEF PromisesKept
  <2>3. Promise(o, r)'
    BY <1>1, <2>2, PromiseOfOthers
  <2> QED BY <2>1, <2>3
<1>12. ASSUME NEW o \in Objs
       PROVE  Promise(o, Settled(o))'
  <2>1. CASE home[o] # c
    <3>1. PICK r \in ObjType : r = Settled(o) /\ r = Settled(o)'
      BY <1>8, <2>1, SettledType
    <3>2. Promise(o, r)
      BY <3>1 DEF PromisesKept
    <3>3. Promise(o, r)'
      BY <1>1, <3>2, PromiseOfOthers
    <3> QED BY <3>1, <3>3
  <2>2. CASE home[o] = c /\ obj[o].isNew /\ o \notin Listed(added[c])
    BY <1>9, <1>2, <1>11, <2>2
  <2>3. CASE home[o] = c /\ o \in Listed(added[c])
    <3>1. obj[o].isNew /\ (~Replaced(o) /\ ~obj[o].modified => obj[o].val = 0)
      BY <2>3, ListedAtHome DEF PromisesKept, Promise
    <3>2. /\ NewEntity(o).version = 1 /\ ~NewEntity(o).gone
          /\ NewEntity(o).val = IF obj[o].modified THEN obj[o].val ELSE 0
      BY DEF NewEntity, Sent
    <3>3. 1 <= 1 /\ Len(db) + 1 .. Len(db') \subseteq DOMAIN db'
      BY <1>1 DEF Applies
    <3> QED BY <1>10, <2>3, <3>1, <3>2, <3>3 DEF Promise, Replaced
  <2>4. CASE home[o] = c /\ ~obj[o].isNew
    <3> DEFINE k == obj[o].id
    <3>1. /\ k \in DOMAIN db /\ k \in DOMAIN db' /\ db'[k] = Written(k, c)
          /\ db[k].version \in Nat /\ obj[o].version \in Nat
          /\ obj[o].modified \in BOOLEAN
      BY <1>1, <2>4, EntityFields
         DEF PromisesKept, Promise, Applies, TransactionType, ObjType
    <3>2. /\ obj[o].version <= db[k].version /\ (obj[o].isDeleted => db[k].gone)
          /\ ~Replaced(o) /\ ~obj[o].modified /\ ~db[k].gone
                /\ obj[o].version = db[k].version => obj[o].val = db[k].val
      BY <2>4 DEF PromisesKept, Promise
    <3>3. /\ Settled(o)'.isNew = FALSE /\ Settled(o)'.id = k
          /\ Settled(o)'.isDeleted <=> obj[o].isDeleted \/ o \in Listed(removed[c])
          /\ Settled(o)'.version =
                IF o \in Listed(changed[c]) /\ k \notin DOMAIN removed[c]
                THEN db[k].version + 1 ELSE obj[o].version
      BY <1>9, <2>4
    <3>4. /\ Settled(o)'.val = obj[o].val
          /\ o \notin Listed(changed[c]) => Settled(o)'.modified = obj[o].modified
      <4>1. o \notin Listed(added[c]) /\ UNCHANGED <<obj, added, changed>>
        BY <1>2, <2>4, ListedAtHome
      <4>2. AnswerMakes(Settled(o), obj[o], o, c)'
        BY <1>8, <2>4
      <4> QED BY <4>1, <4>2 DEF AnswerMakes, Listed
    <3>5. /\ o \in Listed(changed[c]) =>
                k \in DOMAIN changed[c] /\ changed[c][k] = o
          /\ o \in Listed(removed[c]) =>
                k \in DOMAIN removed[c] /\ removed[c][k] = o
      BY ListedAtHome
    <3>6. k \in DOMAIN changed[c] =>
             /\ ~db[k].gone /\ db[k].version = obj[changed[c][k]].version
      BY <1>2 DEF Current
    <3> HIDE DEF k
    <3>7. PICK s : s = Settled(o)'
      OBVIOUS
    <3>8. PICK w : w = db'[k]
      OBVIOUS
    <3>9. /\ s.version <= w.version /\ (s.isDeleted => w.gone)
          /\ ~Replaced(o) /\ ~s.modified /\ ~w.gone /\ s.version = w.version
                => s.val = w.val
      <4>1. CASE k \in DOMAIN removed[c]
        BY <3>1, <3>2, <3>3, <3>7, <3>8, <4>1, WrittenFields
      <4>2. CASE k \in DOMAIN changed[c] \ DOMAIN removed[c]
        <5>1. CASE o \in Listed(changed[c])
          BY <3>1, <3>2, <3>3, <3>4, <3>5, <3>6, <3>7, <3>8, <4>2, <5>1, WrittenFields
             DEF Sent
        <5>2. CASE o \notin Listed(changed[c])
          BY <3>1, <3>2, <3>3, <3>5, <3>7, <3>8, <4>2, <5>2, WrittenFields
        <5> QED BY <5>1, <5>2
      <4>3. CASE k \notin DOMAIN changed[c] \cup DOMAIN removed[c]
        BY <3>1, <3>2, <3>3, <3>4, <3>5, <3>7, <3>8, <4>3, WrittenFields
      <4> QED BY <4>1, <4>2, <4>3
    <3>10. ~s.isNew /\ s.id = k
      BY <3>3, <3>7
    <3> QED BY <3>1, <3>7, <3>8, <3>9, <3>10 DEF Promise, Replaced
  <2> QED BY <2>1, <2>2, <2>3, <2>4
<1>13. PromisesKept'
  BY <1>11, <1>12 DEF PromisesKept
<1>14. ASSUME NEW i \in DOMAIN db
       PROVE  /\ i \in DOMAIN db' /\ db'[i] = Written(i, c)
              /\ db'[i].src = db[i].src /\ db[i].src \in Objs /\ db[i].by \in Objs
  BY <1>1, WrittenFields, EntityFields DEF Applies
<1>15. ASSUME NEW i \in Len(db) + 1 .. Len(db')
       PROVE  \E o \in Objs : /\ o \in Listed(added[c]) /\ home[o] = c
                              /\ db'[i] = NewEntity(o) /\ Settled(o)'.id = i
  <2>1. PICK k \in DOMAIN added[c] :
           db'[i] = NewEntity(added[c][k]) /\ reply'[c].ids[k] = i
    BY <1>1 DEF Applies
  <2>2. /\ added[c][k] \in Objs /\ home[added[c][k]] = c
        /\ k = -added[c][k] /\ added[c][k] \in Listed(added[c])
    BY DEF ListsKeyed, OnlyNew, Listed
  <2> QED BY <1>10, <2>1, <2>2
<1>16. SourcesKnown'
  <2> SUFFICES ASSUME lost = 0, NEW i \in DOMAIN db'
               PROVE  Is(Settled(db[i].src), i)'
    BY <1>2 DEF SourcesKnown
  <2>1. CASE i \in DOMAIN db
    <3>1. PICK o \in Objs : o = db[i].src /\ o = db'[i].src
      BY <1>14, <2>1
    <3>2. Is(Settled(o), i)
      BY <2>1, <3>1 DEF SourcesKnown
    <3>3. ~Settled(o)'.isNew /\ Settled(o)'.id = i
      BY <1>8, <1>9, <3>2 DEF Is
    <3> QED BY <3>1, <3>3 DEF Is
  <2>2. CASE i \in Len(db) + 1 .. Len(db')
    <3>1. PICK o \in Objs : /\ o \in Listed(added[c]) /\ home[o] = c
                            /\ db'[i] = NewEntity(o) /\ Settled(o)'.id = i
      BY <1>15, <2>2
    <3>2. db'[i].src = o
      BY <3>1 DEF NewEntity
    <3> QED BY <1>10, <3>1, <3>2 DEF Is
  <2> QED BY <1>1, <2>1, <2>2 DEF Applies
<1>17. WritersKnown'
  <2> SUFFICES ASSUME lost = 0, NEW i \in DOMAIN db'
               PROVE  IsCurrent(Settled(db[i].by), i)'
    BY <1>2 DEF WritersKnown
  <2>1. CASE i \in DOMAIN removed[c]
    <3>1. PICK o \in Objs : o = removed[c][i]
      BY <2>1 DEF ListsKeyed, OnlyOld
    <3>2. /\ home[o] = c /\ ~obj[o].isNew /\ obj[o].id = i
          /\ o \in Listed(removed[c])
      BY <2>1, <3>1 DEF ListsKeyed, OnlyOld, Listed
    <3>3. i \in DOMAIN db /\ ~db[i].gone /\ db[i].version = obj[o].version
      BY <1>2, <2>1, <3>1 DEF Current
    <3>4. db'[i].by = o /\ db'[i].version = db[i].version /\ db'[i].gone
      BY <1>14, <2>1, <3>1, <3>3, WrittenFields
    <3> QED BY <1>9, <2>1, <3>2, <3>3, <3>4 DEF IsCurrent, Is
  <2>2. CASE i \in DOMAIN changed[c] \ DOMAIN removed[c]
    <3>1. PICK o \in Objs : o = changed[c][i]
      BY <2>2 DEF ListsKeyed, OnlyOld
    <3>2. /\ home[o] = c /\ ~obj[o].isNew /\ obj[o].id = i
          /\ o \in Listed(changed[c])
      BY <2>2, <3>1 DEF ListsKeyed, OnlyOld, Listed
    <3>3. i \in DOMAIN db /\ ~db[i].gone
      BY <1>2, <2>2 DEF Current
    <3>4. /\ db'[i].by = o /\ db'[i].version = db[i].version + 1
          /\ db'[i].gone = db[i].gone
      BY <1>14, <2>2, <3>1, <3>3, WrittenFields
    <3>5. o \notin Listed(removed[c]) /\ ~obj[o].isDeleted
      BY <2>2, <3>2, <3>3, ListedAtHome DEF PromisesKept, Promise
    <3> QED BY <1>9, <2>2, <3>2, <3>3, <3>4, <3>5 DEF IsCurrent, Is
  <2>3. CASE i \in DOMAIN db /\ i \notin DOMAIN changed[c] \cup DOMAIN removed[c]
    <3>1. PICK o \in Objs : o = db[i].by
      BY <1>14, <2>3
    <3>2. db'[i] = db[i] /\ IsCurrent(Settled(o), i)
      BY <1>14, <2>3, <3>1, WrittenFields DEF WritersKnown
    <3>3. CASE home[o] # c
      BY <1>8, <3>1, <3>2, <3>3 DEF IsCurrent, Is
    <3>4. CASE home[o] = c
      <4>1. IsCurrent(obj[o], i)
        BY <1>8, <3>2, <3>4
      <4>2. o \notin Listed(changed[c]) /\ o \notin Listed(removed[c])
        BY <2>3, <4>1, ListedAtHome DEF IsCurrent, Is
      <4> QED BY <1>9, <3>1, <3>2, <3>4, <4>1, <4>2 DEF IsCurrent, Is
    <3> QED BY <3>3, <3>4
  <2>4. CASE i \in Len(db) + 1 .. Len(db')
    <3>1. PICK o \in Objs : /\ o \in Listed(added[c]) /\ home[o] = c
                            /\ db'[i] = NewEntity(o) /\ Settled(o)'.id = i
      BY <1>15, <2>4
    <3>2. db'[i].by = o /\ db'[i].version = 1 /\ ~db'[i].gone
      BY <3>1 DEF NewEntity
    <3> QED BY <1>10, <3>1, <3>2 DEF IsCurrent, Is
  <2> QED BY <1>1, <2>1, <2>2, <2>3, <2>4 DEF Applies
<1> QED BY <1>5, <1>6, <1>7, <1>13, <1>16, <1>17

-----------------------------------------------------------------------------
(* The specification *)

\* At first every object is new and on no list.
LEMMA TransactionInvInit == TransactionInit => TransactionInv
<1> SUFFICES ASSUME TransactionInit PROVE TransactionInv
  OBVIOUS
<1> USE DEF TransactionInit
<1>1. Created \in ObjType /\ Created.isNew /\ ~Created.isDeleted /\ Created.val = 0
  BY DEF Created, ObjType
<1>2. TransactionType
  BY <1>1 DEF TransactionType
<1>3. DOMAIN <<>> = {} /\ IsFiniteSet({})
  BY FS_EmptySet
<1>4. ListsKeyed
  BY <1>3 DEF ListsKeyed, OnlyNew, OnlyOld, NoList
<1>5. EndsAtHome /\ RepliesFit
  BY DEF EndsAtHome, RepliesFit
<1>6. \A o \in Objs : Settled(o) = Created /\ obj[o] = Created
  BY <1>2 DEF Settled, TransactionType
<1>7. PromisesKept
  BY <1>1, <1>6 DEF PromisesKept, Promise
<1>8. SourcesKnown /\ WritersKnown
  BY <1>3 DEF SourcesKnown, WritersKnown
<1> QED BY <1>2, <1>4, <1>5, <1>7, <1>8 DEF TransactionInv

\* Every step keeps the invariant.
LEMMA TransactionInvNext ==
    ASSUME ObjsAssumption, BoundsAssumption
    PROVE  TransactionInv /\ [TransactionNext]_transactionVars => TransactionInv'
<1> SUFFICES ASSUME TransactionInv, [TransactionNext]_transactionVars PROVE TransactionInv'
  OBVIOUS
<1>1. CASE UNCHANGED transactionVars
  <2>1. UNCHANGED <<home, obj, added, changed, removed, stage, reply, db, lost>>
    BY <1>1 DEF transactionVars, listVars
  <2>2. \A o \in Objs : Settled(o)' = Settled(o)
    BY <2>1, SettledKept
  <2>3. TransactionType' /\ ListsKeyed' /\ EndsAtHome' /\ RepliesFit'
    BY <2>1 DEF TransactionInv, TransactionType, ListsKeyed, OnlyNew, OnlyOld,
                EndsAtHome, RepliesFit
  <2>4. PromisesKept'
    BY <2>1, <2>2 DEF TransactionInv, PromisesKept, Promise, Replaced
  <2>5. \A i \in DOMAIN db : db[i].src \in Objs /\ db[i].by \in Objs
    BY EntityFields DEF TransactionInv
  <2>6. SourcesKnown' /\ WritersKnown'
    BY <2>1, <2>2, <2>5 DEF TransactionInv, SourcesKnown, WritersKnown, Is, IsCurrent
  <2> QED BY <2>3, <2>4, <2>6 DEF TransactionInv
<1>2. ASSUME home' = home, NEW o \in Objs, AppStep(o)
      PROVE  TransactionInv'
  BY <1>2, AttributesInv, ListedInv DEF AppStep
<1>3. ASSUME home' = home, NEW c \in Connections, ConnStep(c)
      PROVE  TransactionInv'
  BY <1>3, QuietInv, ReturnsInv, LostInv, ServerInv DEF ConnStep
<1> QED BY <1>1, <1>2, <1>3 DEF TransactionNext

\* The invariant holds always.
LEMMA TransactionInvAlways ==
    ASSUME ObjsAssumption, BoundsAssumption
    PROVE  TransactionSpec => []TransactionInv
<1>1. TransactionInit => TransactionInv
  BY TransactionInvInit
<1>2. TransactionInv /\ [TransactionNext]_transactionVars => TransactionInv'
  BY TransactionInvNext
<1> QED BY <1>1, <1>2, PTL DEF TransactionSpec

\* An object at the version of its entity, which exists, and without modified
\* attributes has the values of the entity, whatever was committed, rolled
\* back, refused or lost, by any number of connections (Commit, Rollback and
\* fixUpEntities of ConnectionImpl.go).
THEOREM UnmodifiedAgrees ==
    ASSUME ObjsAssumption, BoundsAssumption
    PROVE  TransactionSpec => []Coherent
<1>1. TransactionInv => Coherent
  BY DEF TransactionInv, PromisesKept, Promise, Replaced, Coherent
<1> QED BY <1>1, TransactionInvAlways, PTL

\* As long as no answer was lost, no object is stored as two entities, however
\* often its transaction is refused, fails and is committed again.
THEOREM NeverStoredTwice ==
    ASSUME ObjsAssumption, BoundsAssumption
    PROVE  TransactionSpec => []StoredOnce
<1>1. TransactionInv => StoredOnce
  BY DEF TransactionInv, SourcesKnown, Is, StoredOnce
<1> QED BY <1>1, TransactionInvAlways, PTL

\* As long as no answer was lost, the object through which an entity was last
\* written or removed has its id and version, and knows whether it is gone, as
\* soon as its connection is not committing.
THEOREM WriterKnows ==
    ASSUME ObjsAssumption, BoundsAssumption
    PROVE  TransactionSpec => []WriterIsCurrent
<1>1. TransactionInv => WriterIsCurrent
  <2> SUFFICES ASSUME TransactionInv, lost = 0, NEW i \in DOMAIN db,
                      stage[home[db[i].by]] = "idle"
               PROVE  LET r == obj[db[i].by] IN
                      /\ ~r.isNew /\ r.id = i /\ r.version = db[i].version
                      /\ r.isDeleted = db[i].gone
    BY DEF WriterIsCurrent
  <2>1. PICK o \in Objs : o = db[i].by
    BY EntityFields DEF TransactionInv
  <2>2. IsCurrent(obj[o], i)
    BY <2>1 DEF TransactionInv, WritersKnown, Settled
  <2>3. obj[o].isDeleted \in BOOLEAN /\ db[i].gone \in BOOLEAN
    BY <2>1, EntityFields DEF TransactionInv, TransactionType, ObjType, EntityType
  <2> QED BY <2>1, <2>2, <2>3 DEF IsCurrent, Is
<1> QED BY <1>1, TransactionInvAlways, PTL
=============================================================================
