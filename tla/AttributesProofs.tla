--------------------------- MODULE AttributesProofs ---------------------------
(***************************************************************************)
(* Proofs about the attributes of an entity, for all values of all kinds   *)
(* and all sizes of numbers: a commit can write what is flagged, what is   *)
(* not flagged is what the server has, and a flag that stays was set past  *)
(* the entity.                                                             *)
(*                                                                         *)
(* The argument is about what SetValue may return.  It is either what was  *)
(* there, value and flag, or a new value with the flag; and a new value is *)
(* of a kind that WriteValue of the same class can write, which is a       *)
(* matter of the fourteen tables and the fifteen types.                    *)
(***************************************************************************)
EXTENDS Attributes, TLAPS

Kept == [kind : Kinds \cup {"Nil"}, v : Int]

\* What a commit can write without ending the program.
Writable(t, value) == WriteExternal(t, value) # "panic"

\* The types of the variables; of an attribute that is not there nothing is
\* known.
AttType ==
    /\ type \in Types
    /\ att \in [value : Kept, modified : BOOLEAN, there : BOOLEAN]
    /\ ~att.there => att.value = Null /\ ~att.modified
    /\ listed \in BOOLEAN /\ byHand \in BOOLEAN
    /\ server \in Int

AttInv == AttType /\ CommitCanWrite /\ NothingUnsent /\ ResentIsByHand

\* What a class stores it can write.
Fits(t, set, writes) ==
    \A k \in DOMAIN set :
       /\ set[k] \in Kinds \cup {"panic"}
       /\ set[k] = "panic" \/ set[k] \in writes \/ t \in Large

\* The tables of the classes: what is stored can be written by the same
\* class, large objects aside, and only some keep their first value.
LEMMA ClassFacts ==
    ASSUME NEW t \in Types
    PROVE  /\ \/ CreateAttribute(t).reads \in Kinds
              \/ CreateAttribute(t).reads = "Nil" /\ t \in Large
           /\ CreateAttribute(t).once => t \in {2} \cup 11..14
           /\ Fits(t, CreateAttribute(t).set, CreateAttribute(t).writes)
<1>1. CASE t = 1
  <2>1. CreateAttribute(t) = BooleanAttribute
    BY <1>1 DEF CreateAttribute
  <2>2. Fits(t, BooleanSetValue, BooleanAttribute.writes)
    BY <1>1 DEF BooleanAttribute, BooleanSetValue, Attribute, Fits, Stores, Kinds,
       SignedInts, Floats, Large
  <2>3. BooleanAttribute.set = BooleanSetValue
    BY DEF BooleanAttribute, Attribute
  <2> QED BY <1>1, <2>1, <2>2, <2>3 DEF BooleanAttribute, Attribute, Kinds, Large
<1>2. CASE t = 2
  <2>1. CreateAttribute(t) = ByteAttribute
    BY <1>2 DEF CreateAttribute
  <2>2. Fits(t, ByteSetValue, ByteAttribute.writes)
    BY <1>2 DEF ByteAttribute, ByteSetValue, Attribute, Fits, Stores, Kinds,
       SignedInts, Floats, Large
  <2>3. ByteAttribute.set = ByteSetValue
    BY DEF ByteAttribute, Attribute
  <2> QED BY <1>2, <2>1, <2>2, <2>3 DEF ByteAttribute, Attribute, Kinds, Large
<1>3. CASE t = 3
  <2>1. CreateAttribute(t) = CharAttribute
    BY <1>3 DEF CreateAttribute
  <2>2. Fits(t, CharSetValue, CharAttribute.writes)
    BY <1>3 DEF CharAttribute, CharSetValue, Attribute, Fits, Stores, Kinds,
       SignedInts, Floats, Large
  <2>3. CharAttribute.set = CharSetValue
    BY DEF CharAttribute, Attribute
  <2> QED BY <1>3, <2>1, <2>2, <2>3 DEF CharAttribute, Attribute, Kinds, Large
<1>4. CASE t = 4
  <2>1. CreateAttribute(t) = ShortAttribute
    BY <1>4 DEF CreateAttribute
  <2>2. Fits(t, ShortSetValue, ShortAttribute.writes)
    BY <1>4 DEF ShortAttribute, ShortSetValue, Attribute, Fits, Stores, Kinds,
       SignedInts, Floats, Large
  <2>3. ShortAttribute.set = ShortSetValue
    BY DEF ShortAttribute, Attribute
  <2> QED BY <1>4, <2>1, <2>2, <2>3 DEF ShortAttribute, Attribute, Kinds, Large
<1>5. CASE t = 5
  <2>1. CreateAttribute(t) = IntegerAttribute
    BY <1>5 DEF CreateAttribute
  <2>2. Fits(t, IntegerSetValue, IntegerAttribute.writes)
    BY <1>5 DEF IntegerAttribute, IntegerSetValue, Attribute, Fits, Stores, Kinds,
       SignedInts, Floats, Large
  <2>3. IntegerAttribute.set = IntegerSetValue
    BY DEF IntegerAttribute, Attribute
  <2> QED BY <1>5, <2>1, <2>2, <2>3 DEF IntegerAttribute, Attribute, Kinds, Large
<1>6. CASE t = 6
  <2>1. CreateAttribute(t) = LongAttribute
    BY <1>6 DEF CreateAttribute
  <2>2. Fits(t, LongSetValue, LongAttribute.writes)
    BY <1>6 DEF LongAttribute, LongSetValue, Attribute, Fits, Stores, Kinds,
       SignedInts, Floats, Large
  <2>3. LongAttribute.set = LongSetValue
    BY DEF LongAttribute, Attribute
  <2> QED BY <1>6, <2>1, <2>2, <2>3 DEF LongAttribute, Attribute, Kinds, Large
<1>7. CASE t = 7
  <2>1. CreateAttribute(t) = FloatAttribute
    BY <1>7 DEF CreateAttribute
  <2>2. Fits(t, FloatSetValue, FloatAttribute.writes)
    BY <1>7 DEF FloatAttribute, FloatSetValue, Attribute, Fits, Stores, Kinds,
       SignedInts, Floats, Large
  <2>3. FloatAttribute.set = FloatSetValue
    BY DEF FloatAttribute, Attribute
  <2> QED BY <1>7, <2>1, <2>2, <2>3 DEF FloatAttribute, Attribute, Kinds, Large
<1>8. CASE t = 8
  <2>1. CreateAttribute(t) = DoubleAttribute
    BY <1>8 DEF CreateAttribute
  <2>2. Fits(t, DoubleSetValue, DoubleAttribute.writes)
    BY <1>8 DEF DoubleAttribute, DoubleSetValue, Attribute, Fits, Stores, Kinds,
       SignedInts, Floats, Large
  <2>3. DoubleAttribute.set = DoubleSetValue
    BY DEF DoubleAttribute, Attribute
  <2> QED BY <1>8, <2>1, <2>2, <2>3 DEF DoubleAttribute, Attribute, Kinds, Large
<1>9. CASE t = 9
  <2>1. CreateAttribute(t) = NumberAttribute
    BY <1>9 DEF CreateAttribute
  <2>2. Fits(t, NumberSetValue, NumberAttribute.writes)
    BY <1>9 DEF NumberAttribute, NumberSetValue, Attribute, Fits, Stores, Kinds,
       SignedInts, Floats, Large
  <2>3. NumberAttribute.set = NumberSetValue
    BY DEF NumberAttribute, Attribute
  <2> QED BY <1>9, <2>1, <2>2, <2>3 DEF NumberAttribute, Attribute, Kinds, Large
<1>10. CASE t = 10
  <2>1. CreateAttribute(t) = StringAttribute
    BY <1>10 DEF CreateAttribute
  <2>2. Fits(t, StringSetValue, StringAttribute.writes)
    BY <1>10 DEF StringAttribute, StringSetValue, Attribute, Fits, Stores, Kinds,
       SignedInts, Floats, Large
  <2>3. StringAttribute.set = StringSetValue
    BY DEF StringAttribute, Attribute
  <2> QED BY <1>10, <2>1, <2>2, <2>3 DEF StringAttribute, Attribute, Kinds, Large
<1>11. CASE t \in 11..13
  <2>1. CreateAttribute(t) = TimestampAttribute
    BY <1>11 DEF CreateAttribute
  <2>2. Fits(t, TimestampSetValue, TimestampAttribute.writes)
    BY <1>11 DEF TimestampAttribute, TimestampSetValue, Attribute, Fits, Stores, Kinds,
       SignedInts, Floats, Large
  <2>3. TimestampAttribute.set = TimestampSetValue
    BY DEF TimestampAttribute, Attribute
  <2> QED BY <1>11, <2>1, <2>2, <2>3 DEF TimestampAttribute, Attribute, Kinds, Large
<1>12. CASE t = 14
  <2>1. CreateAttribute(t) = BlobAttribute
    BY <1>12 DEF CreateAttribute
  <2>2. Fits(t, BlobSetValue, BlobAttribute.writes)
    BY <1>12 DEF BlobAttribute, BlobSetValue, Attribute, Fits, Stores, Kinds,
       SignedInts, Floats, Large
  <2>3. BlobAttribute.set = BlobSetValue
    BY DEF BlobAttribute, Attribute
  <2> QED BY <1>12, <2>1, <2>2, <2>3 DEF BlobAttribute, Attribute, Kinds, Large
<1>13. CASE t = 15
  <2>1. CreateAttribute(t) = ClobAttribute
    BY <1>13 DEF CreateAttribute
  <2>2. Fits(t, ClobSetValue, ClobAttribute.writes)
    BY <1>13 DEF ClobAttribute, ClobSetValue, Attribute, Fits, Stores, Kinds,
       SignedInts, Floats, Large
  <2>3. ClobAttribute.set = ClobSetValue
    BY DEF ClobAttribute, Attribute
  <2> QED BY <1>13, <2>1, <2>2, <2>3 DEF ClobAttribute, Attribute, Kinds, Large
<1> QED BY <1>1, <1>2, <1>3, <1>4, <1>5, <1>6, <1>7, <1>8, <1>9, <1>10, <1>11, <1>12, <1>13 DEF Types
\* SetValue returns what was there, value and flag, or something new with the
\* flag.  For an attribute without a value it never returns that it is done
\* and has changed nothing.
LEMMA SetValueReturns ==
    ASSUME AttributesAssumption, NEW t \in Types, NEW value \in Values \cup {Null},
           NEW old, old.value \in Kept, NEW r, r = SetAttributeValue(t, old, value)
    PROVE  \/ /\ r.value = old.value /\ r.modified = old.modified
              /\ r.outcome = "done" => old.value # Null
           \/ /\ r.modified = TRUE /\ r.outcome = "done"
              /\ r.value \in Kept /\ Writable(t, r.value)
<1> DEFINE class == CreateAttribute(t)
           kind  == class.set[value.kind]
           new   == [kind |-> kind, v |-> Converted(t, value)]
           same  == [outcome |-> "done", value |-> old.value, modified |-> old.modified]
<1>1. CASE value = Null
  <2>1. \/ r = [same EXCEPT !.outcome = "panic"]
        \/ r = [outcome |-> "done", value |-> Null, modified |-> TRUE]
    BY <1>1 DEF SetAttributeValue
  <2> QED BY <2>1 DEF Kept, Writable, WriteExternal, Null
<1>2. CASE value # Null
  <2>1. value.kind \in Kinds /\ value.v \in Int
    BY <1>2 DEF AttributesAssumption
  <2>2. \/ r = [same EXCEPT !.outcome = "panic"] \/ r = [same EXCEPT !.outcome = "error"]
        \/ r = same /\ old.value # Null
        \/ /\ value.kind \in DOMAIN class.set /\ kind # "panic"
           /\ r = [outcome |-> "done", value |-> new, modified |-> TRUE]
    <3>1. CASE t = 14 /\ old.value # Null
      BY <1>2, <3>1 DEF SetAttributeValue
    <3>2. CASE ~(t = 14 /\ old.value # Null)
      <4> HIDE DEF kind
      <4>1. kind \in Kinds => new # Null
        BY DEF Null, Kinds
      <4>2. value.kind \in DOMAIN class.set /\ kind # "panic" => kind \in Kinds
        BY ClassFacts DEF Fits, kind
      <4> HIDE DEF new, class, same
      <4> QED BY <1>2, <3>2, <4>1, <4>2 DEF kind, new, class, same, SetAttributeValue
    <3> QED BY <3>1, <3>2
  <2>3. Converted(t, value) \in Int
    BY <2>1 DEF Converted, AttributesAssumption
  <2>4. ASSUME value.kind \in DOMAIN class.set, kind # "panic"
        PROVE  new \in Kept /\ Writable(t, new)
    <3>1. kind \in Kinds /\ (kind \in class.writes \/ t \in Large)
      BY <2>4, ClassFacts DEF Fits
    <3>2. new.kind = kind
      OBVIOUS
    <3> HIDE DEF kind
    <3>3. new \in Kept
      BY <2>3, <3>1 DEF Kept
    <3> HIDE DEF new
    <3> QED BY <3>1, <3>2, <3>3 DEF Writable, WriteExternal
  <2> HIDE DEF new, kind
  <2>5. same.value = old.value /\ same.modified = old.modified
    OBVIOUS
  <2> QED BY <2>2, <2>4, <2>5
<1> QED BY <1>1, <1>2
\* An attribute with a value and a flag.
LEMMA AfterIs ==
    ASSUME att \in [value : Kept, modified : BOOLEAN, there : BOOLEAN],
           NEW v \in Kept, NEW m \in BOOLEAN, NEW r, r.value = v, r.modified = m
    PROVE  /\ After(r) \in [value : Kept, modified : BOOLEAN, there : BOOLEAN]
           /\ After(r).value = v /\ (After(r).modified <=> m) /\ After(r).there
<1>1. After(r) = [att EXCEPT !.value = v, !.modified = m, !.there = TRUE]
  BY DEF After
<1> QED BY <1>1

\* At first the attribute is not there.
LEMMA AttributesTypeInit == AttributesInit => AttInv
<1> SUFFICES ASSUME AttributesInit PROVE AttInv
  OBVIOUS
<1>1. Null \in Kept /\ NoNumber \in Int
  BY DEF Null, Kept, NoNumber
<1>2. /\ att = [value |-> Null, modified |-> FALSE, there |-> FALSE]
      /\ type \in Types /\ listed = FALSE /\ byHand = FALSE /\ server = NoNumber
  BY DEF AttributesInit, Absent
<1>3. /\ att \in [value : Kept, modified : BOOLEAN, there : BOOLEAN]
      /\ att.value = Null /\ ~att.there /\ ~att.modified
  BY <1>1, <1>2
<1>4. AttType
  BY <1>1, <1>2, <1>3 DEF AttType
<1> QED BY <1>3, <1>4 DEF AttInv, CommitCanWrite, NothingUnsent, ResentIsByHand

\* A step that leaves value and flag of an attribute that is there keeps the
\* invariant, and so does one that sets both.
LEMMA AfterKeeps ==
    ASSUME AttributesAssumption, AttInv, NEW r,
           \/ r.value = att.value /\ r.modified = att.modified /\ att.there
           \/ r.modified = TRUE /\ r.value \in Kept /\ Writable(type, r.value),
           att' = After(r), UNCHANGED <<type, server>>,
           listed' \in BOOLEAN, byHand' \in BOOLEAN,
           ~r.modified /\ byHand => byHand',
           r.modified /\ ~listed' => byHand'
    PROVE  AttInv'
<1>1. r.value \in Kept /\ r.modified \in BOOLEAN
  BY DEF AttInv, AttType
<1>2. /\ att' \in [value : Kept, modified : BOOLEAN, there : BOOLEAN]
      /\ att'.value = r.value /\ (att'.modified <=> r.modified) /\ att'.there
  BY <1>1, AfterIs DEF AttInv, AttType
<1>3. AttType'
  BY <1>2 DEF AttInv, AttType
<1>4. CommitCanWrite'
  BY <1>2 DEF AttInv, CommitCanWrite, Writable, WriteExternal
<1>5. NothingUnsent'
  BY <1>2 DEF AttInv, NothingUnsent
<1>6. ResentIsByHand'
  BY <1>2 DEF ResentIsByHand
<1> QED BY <1>3, <1>4, <1>5, <1>6 DEF AttInv

\* Every operation on the attribute keeps the invariant.
LEMMA AttributesKept ==
    ASSUME AttributesAssumption, AttInv, [AttributesNext]_attributesVars
    PROVE  AttInv'
<1>0. att.value \in Kept /\ type \in Types
  BY DEF AttInv, AttType
<1>1. ASSUME NEW value \in Values, SetOrCreateEntityAttribute(value) PROVE AttInv'
  <2> DEFINE r == SetAttributeValue(type, att, value)
  <2>1. \/ /\ r.value = att.value /\ r.modified = att.modified
           /\ r.outcome = "done" => att.value # Null
        \/ /\ r.modified = TRUE /\ r.outcome = "done"
           /\ r.value \in Kept /\ Writable(type, r.value)
    BY <1>0, SetValueReturns
  <2>2. /\ att' = IF r.outcome = "done" THEN After(r) ELSE att
        /\ listed' = (listed \/ ~att.modified)
        /\ byHand' = (byHand /\ ~(~att.modified /\ r.modified))
        /\ UNCHANGED <<type, server>>
    BY <1>1 DEF SetOrCreateEntityAttribute
  <2> HIDE DEF r
  <2>3. listed' \in BOOLEAN /\ byHand' \in BOOLEAN
    BY <2>2
  <2>4. CASE r.outcome = "done"
    <3>1. att.value # Null => att.there
      BY DEF AttInv, AttType
    <3>2. ~r.modified /\ byHand => byHand'
      BY <2>2
    <3>3. r.modified /\ ~listed' => byHand'
      <4>1. att.modified => att.there
        BY DEF AttInv, AttType
      <4> QED BY <2>2, <4>1 DEF AttInv, AttType, ResentIsByHand
    <3> QED BY <2>1, <2>2, <2>3, <2>4, <3>1, <3>2, <3>3, AfterKeeps
  <2>5. CASE r.outcome # "done"
    <3>1. att' = att /\ (att.modified => (byHand' <=> byHand))
      BY <2>2, <2>5
    <3>2. ~att.modified => listed' /\ ~r.modified
      BY <2>1, <2>2, <2>5
    <3> QED BY <2>2, <2>3, <3>1, <3>2 DEF AttInv, AttType, CommitCanWrite,
               NothingUnsent, ResentIsByHand, WriteExternal
  <2> QED BY <2>4, <2>5
<1>2. ASSUME NEW value \in Values \cup {Null}, SetValueByHand(value) PROVE AttInv'
  <2> DEFINE r == SetAttributeValue(type, att, value)
  <2>1. \/ r.value = att.value /\ r.modified = att.modified
        \/ r.modified = TRUE /\ r.value \in Kept /\ Writable(type, r.value)
    BY <1>0, SetValueReturns
  <2>2. /\ att' = After(r) /\ att.there
        /\ byHand' = (byHand \/ (r.modified /\ ~listed))
        /\ UNCHANGED <<type, listed, server>>
    BY <1>2 DEF SetValueByHand
  <2> HIDE DEF r
  <2>3. listed' \in BOOLEAN /\ byHand' \in BOOLEAN
    BY <2>2 DEF AttInv, AttType
  <2> QED BY <2>1, <2>2, <2>3, AfterKeeps
<1>3. ASSUME NEW value \in Values \cup {Null}, SetEntityAttribute(value) PROVE AttInv'
  <2>0. PICK r \in {CreateAttributeWithDesc(value),
                    SetAttributeValue(type, Fresh, value)} :
           /\ r.outcome = "done" /\ att' = After(r) /\ byHand' = TRUE
           /\ listed' = ~r.modified
           /\ UNCHANGED <<type, server>>
    BY <1>3 DEF SetEntityAttribute
  <2>1. Fresh.value = Null /\ Null \in Kept /\ value \in Kept
    BY DEF Fresh, Absent, Null, Kept, AttributesAssumption
  <2>3. CASE r = CreateAttributeWithDesc(value)
    <3>1. r.value = value /\ r.modified = FALSE
      BY <2>3 DEF CreateAttributeWithDesc
    <3>2. /\ att' \in [value : Kept, modified : BOOLEAN, there : BOOLEAN]
          /\ ~att'.modified /\ att'.there
      BY <2>0, <2>1, <3>1, AfterIs DEF AttInv, AttType
    <3> QED BY <2>0, <3>1, <3>2 DEF AttInv, AttType, CommitCanWrite,
               NothingUnsent, ResentIsByHand
  <2>4. CASE r = SetAttributeValue(type, Fresh, value)
    <3>1. r.modified = TRUE /\ r.value \in Kept /\ Writable(type, r.value)
      BY <1>0, <2>0, <2>1, <2>4, SetValueReturns
    <3> QED BY <2>0, <3>1, AfterKeeps
  <2> QED BY <2>0, <2>3, <2>4
<1>4. CASE CommitEntity
  <2> DEFINE w == IF att.there /\ att.modified THEN WriteExternal(type, att.value)
                  ELSE "done"
  <2>1. CASE w = "done"
    <3>1. /\ server' = IF ~att.modified THEN server
                       ELSE IF att.value = Null THEN NoNumber ELSE att.value.v
          /\ att' = [att EXCEPT !.modified = att.modified /\ ~listed]
          /\ byHand' = (byHand /\ ~(att.modified /\ listed))
          /\ listed' = FALSE /\ type' = type
      BY <1>4, <2>1 DEF CommitEntity
    <3> HIDE DEF w
    <3>2. PICK m \in BOOLEAN : m <=> att.modified /\ ~listed
      OBVIOUS
    <3>3. (att.modified /\ ~listed) = m
      BY <3>2 DEF AttInv, AttType
    <3>4. att' = [att EXCEPT !.modified = m]
      BY <3>1, <3>3
    <3>5. /\ att' \in [value : Kept, modified : BOOLEAN, there : BOOLEAN]
          /\ att'.value = att.value /\ att'.there = att.there
          /\ att'.modified = m
      BY <3>4 DEF AttInv, AttType
    <3>6. AttType'
      <4>1. server' \in Int
        <5>1. att.value.v \in Int /\ NoNumber \in Int /\ server \in Int
          BY DEF AttInv, AttType, Kept, NoNumber
        <5> QED BY <3>1, <5>1
      <4>2. ~att'.there => att'.value = Null /\ ~att'.modified
        BY <3>2, <3>5 DEF AttInv, AttType
      <4>3. listed' \in BOOLEAN /\ byHand' \in BOOLEAN /\ type' \in Types
        BY <1>0, <3>1
      <4> QED BY <3>5, <4>1, <4>2, <4>3 DEF AttType
    <3>7. CommitCanWrite'
      BY <3>1, <3>2, <3>5 DEF AttInv, CommitCanWrite, WriteExternal
    <3>8. NothingUnsent'
      BY <3>1, <3>2, <3>5 DEF AttInv, AttType, NothingUnsent
    <3>9. ResentIsByHand'
      BY <3>1, <3>2, <3>5 DEF AttInv, ResentIsByHand
    <3> QED BY <3>6, <3>7, <3>8, <3>9 DEF AttInv
  <2>2. CASE w # "done"
    <3>1. UNCHANGED <<type, att, server, listed, byHand>>
      BY <1>4, <2>2 DEF CommitEntity
    <3> QED BY <3>1 DEF AttInv, AttType, CommitCanWrite, NothingUnsent,
               ResentIsByHand, WriteExternal
  <2> QED BY <2>1, <2>2
<1>5. CASE FetchEntity
  <2>1. CASE server = NoNumber \/ type \in 11..13
    <3>1. UNCHANGED <<type, att, server, listed, byHand>>
      BY <1>5, <2>1 DEF FetchEntity
    <3> QED BY <3>1 DEF AttInv, AttType, CommitCanWrite, NothingUnsent,
               ResentIsByHand, WriteExternal
  <2>2. CASE ~(server = NoNumber \/ type \in 11..13)
    <3> DEFINE v == IF type \in Large THEN Null
                    ELSE [kind |-> CreateAttribute(type).reads,
                          v |-> AsRead(type, server)]
    <3>1. /\ att' = [Fresh EXCEPT !.value = v]
          /\ listed' = TRUE /\ byHand' = FALSE /\ UNCHANGED <<type, server>>
      BY <1>5, <2>2 DEF FetchEntity
    <3>2. AsRead(type, server) \in Int
      BY DEF AsRead, AttInv, AttType, AttributesAssumption
    <3>3. v \in Kept
      BY <1>0, <3>2, ClassFacts DEF Kept, Null
    <3>4. \/ v = Null /\ type \in Large
          \/ v.v = server
          \/ type = 5 /\ v.v = server % IntSize
      BY DEF AsRead
    <3>5. v = Null => type \in Large
      BY <1>0, ClassFacts DEF Null, Kinds
    <3> HIDE DEF v
    <3>6. /\ att' \in [value : Kept, modified : BOOLEAN, there : BOOLEAN]
          /\ att'.value = v /\ ~att'.modified /\ att'.there
      BY <3>1, <3>3 DEF Fresh, Absent
    <3> QED BY <3>1, <3>4, <3>5, <3>6 DEF AttInv, AttType, CommitCanWrite,
               NothingUnsent, ResentIsByHand
  <2> QED BY <2>1, <2>2
<1>6. CASE UNCHANGED attributesVars
  BY <1>6 DEF attributesVars, AttInv, AttType, CommitCanWrite, NothingUnsent,
     ResentIsByHand, WriteExternal
<1> QED BY <1>1, <1>2, <1>3, <1>4, <1>5, <1>6 DEF AttributesNext

\* The invariant holds always.
LEMMA AttributesAlways ==
    ASSUME AttributesAssumption PROVE AttributesSpec => []AttInv
BY AttributesTypeInit, AttributesKept, PTL DEF AttributesSpec

\* A commit never ends the program over an attribute, whatever values of
\* whatever kinds were set, fetched and set again before it: what SetValue
\* stores, WriteValue of the same class can write.
THEOREM CommitNeverPanics ==
    ASSUME AttributesAssumption PROVE AttributesSpec => []CommitCanWrite
BY AttributesAlways, PTL DEF AttInv

\* What has no flag is what the server has, but for large objects, ints that
\* lost their sign and attributes that the application put in as it made them.
THEOREM UnflaggedIsSent ==
    ASSUME AttributesAssumption PROVE AttributesSpec => []NothingUnsent
BY AttributesAlways, PTL DEF AttInv

\* A flag that commits do not reset is one of an attribute that was set past
\* its entity.
THEOREM ForgottenFlagsAreByHand ==
    ASSUME AttributesAssumption PROVE AttributesSpec => []ResentIsByHand
BY AttributesAlways, PTL DEF AttInv

\* What SetValue does with a value that it accepts.
LEMMA SetValueTakes ==
    ASSUME AttributesAssumption, NEW t \in Types, NEW value \in Values, NEW old,
           NEW r, r = SetAttributeValue(t, old, value), r.outcome = "done"
    PROVE  \/ r.value.v = Converted(t, value)
           \/ t \in {2} \cup 11..14 /\ r.value = old.value /\ old.value # Null
<1> DEFINE class == CreateAttribute(t)
           kind  == class.set[value.kind]
           new   == [kind |-> kind, v |-> Converted(t, value)]
           same  == [outcome |-> "done", value |-> old.value, modified |-> old.modified]
<1>1. value # Null
  BY DEF AttributesAssumption, Null, Kinds
<1>2. class.once => t \in {2} \cup 11..14
  BY ClassFacts
<1>3. new.v = Converted(t, value)
  OBVIOUS
<1> HIDE DEF class, kind, new, same
<1>4. \/ r = same /\ t = 14 /\ old.value # Null
      \/ r = same /\ old.value = value
      \/ r = same /\ class.once /\ old.value # Null
      \/ r = same /\ old.value = new
      \/ r.value = new
      \/ r.outcome # "done"
  BY <1>1 DEF SetAttributeValue, class, kind, new, same
<1>5. same.value = old.value
  BY DEF same
<1>6. value.v = Converted(t, value) \/ t = 2
  BY DEF Converted
<1> QED BY <1>1, <1>2, <1>3, <1>4, <1>5, <1>6
\* A value that SetOrCreateAttribute accepts takes the place of the old one,
\* except that bytes, timestamps and blobs keep the first they were given.
THEOREM AcceptedReplaces ==
    ASSUME AttributesAssumption PROVE AttributesSpec => AcceptedTakes
<1>1. ASSUME AttInv, NEW value \in Values, SetOrCreateEntityAttribute(value),
             outcome' = "done"
      PROVE  \/ att'.value.v = Converted(type, value)
             \/ type \in {2} \cup 11..14 /\ att'.value = att.value /\ att.value # Null
  <2> DEFINE r == SetAttributeValue(type, att, value)
  <2>1. /\ r.outcome = "done" /\ att' = After(r)
    BY <1>1 DEF SetOrCreateEntityAttribute
  <2>2. type \in Types /\ att.value \in Kept
    BY <1>1 DEF AttInv, AttType
  <2>3. \/ r.value.v = Converted(type, value)
        \/ type \in {2} \cup 11..14 /\ r.value = att.value /\ att.value # Null
    BY <2>1, <2>2, SetValueTakes
  <2>4. r.value \in Kept /\ r.modified \in BOOLEAN
    BY <1>1, <2>2, SetValueReturns DEF AttInv, AttType
  <2> HIDE DEF r
  <2>5. att'.value = r.value
    BY <1>1, <2>1, <2>4, AfterIs DEF AttInv, AttType
  <2> QED BY <2>3, <2>5
<1>2. AttInv => AcceptedStep
  BY <1>1 DEF AcceptedStep, Takes
<1> QED BY <1>2, AttributesAlways, PTL DEF AcceptedTakes
=============================================================================
