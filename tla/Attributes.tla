----------------------------- MODULE Attributes -----------------------------
(***************************************************************************)
(* The attributes of an entity (client/goAPI/model): the values that each  *)
(* class accepts and what it keeps of them, the flag that says that it has *)
(* to be written, and the list of the entity by which the flags are reset. *)
(* Attribute types are numbered as in Externals.tla.                       *)
(*                                                                         *)
(* A value is a number and the kind of Go value it is given as.  A String  *)
(* holds the numeral of its number; a Text is a string that is not a       *)
(* numeral.  A failed type assertion, "panic", ends the program.           *)
(***************************************************************************)
EXTENDS Integers, Sequences

CONSTANTS
    Values,      \* the values that are set
    ByteSize,    \* 256
    ShortSize,   \* 2^16
    IntSize,     \* 2^32
    MaxString    \* the highest number whose numeral a string attribute holds

Kinds == {"Bool", "Uint8", "Uint16", "Int16", "Int32", "Int", "Int64",
          "Float32", "Float64", "String", "Text", "Time", "Decimal", "Slice",
          "Array"}

AttributesAssumption ==
    /\ {ByteSize, ShortSize, IntSize} \subseteq Nat \ {0}
    /\ Values \subseteq [kind : Kinds, v : Int]

Null == [kind |-> "Nil", v |-> 0]

\* The kinds that are stored as the one that is kept, and those that panic.
Stores(kinds, kept, panics) ==
    [k \in kinds \cup panics |-> IF k \in kinds THEN kept ELSE "panic"]

-----------------------------------------------------------------------------
(* SetValue: for each kind that is not refused, the kind that is stored.   *)

BooleanSetValue == Stores({"Bool", "String"}, "Bool", {})

ByteSetValue ==
    Stores({"Bool", "Uint8", "Uint16", "String", "Text"}, "Uint8",
           {"Float32", "Float64"})

CharSetValue == Stores({"Int32", "String"}, "Int32", {"Float32"})

ShortSetValue == Stores({"Int16", "String"}, "Int16", {"Float32"})

IntegerSetValue == Stores({"Int", "String"}, "Int", {"Int32", "Float32", "Float64"})

LongSetValue == Stores({"Int64", "String"}, "Int64", {"Float32", "Float64"})

FloatSetValue == Stores({"Float32", "String"}, "Float32", {})

DoubleSetValue == Stores({"Float64", "String"}, "Float64", {"Float32"})

\* Mutant: a decimal is kept as it is.
NumberSetValueDecimal ==
    [k \in {"Float64", "Int64", "Decimal", "String", "Float32", "Int32", "Time"} |->
        IF k \in {"Float32", "Int32", "Time"} THEN "panic"
        ELSE IF k = "Decimal" THEN k ELSE "String"]

NumberSetValue ==
    Stores({"Float64", "Int64", "Decimal", "String"}, "String",
           {"Float32", "Int32", "Time"})

StringSetValue ==
    [k \in Kinds |-> IF k \in {"String", "Text"} THEN k ELSE "panic"]

TimestampSetValue == Stores({"Int64", "String"}, "Time", {"Int32"})

BlobSetValue ==
    [k \in {"Float32", "Float64", "String", "Text", "Array", "Time", "Decimal"} |->
        IF k \in {"Time", "Decimal"} THEN "panic"
        ELSE IF k = "Array" THEN k ELSE "Slice"]

ClobSetValue == Stores({"String", "Text"}, "Slice", Kinds)

-----------------------------------------------------------------------------
(* The classes.  reads is the kind ReadValue stores ("Nil": only the id of *)
(* a large object is read), writes those WriteValue can write.  The value  *)
(* of once is never replaced by another.                                   *)

Attribute(set, reads, writes, once) ==
    [set |-> set, reads |-> reads, writes |-> writes, once |-> once]

SignedInts == {"Int", "Int16", "Int32", "Int64"}
Floats == {"Float32", "Float64"}

BooleanAttribute   == Attribute(BooleanSetValue, "Bool", {"Bool"}, FALSE)
ByteAttribute      == Attribute(ByteSetValue, "Uint8", {"Uint8"}, TRUE)
CharAttribute      == Attribute(CharSetValue, "Text", SignedInts, FALSE)
ShortAttribute     == Attribute(ShortSetValue, "Int16", SignedInts, FALSE)
\* Mutant: the first value stays.
IntegerAttributeOnce == Attribute(IntegerSetValue, "Int", SignedInts, TRUE)

IntegerAttribute   == Attribute(IntegerSetValue, "Int", SignedInts, FALSE)
LongAttribute      == Attribute(LongSetValue, "Int64", SignedInts, FALSE)
FloatAttribute     == Attribute(FloatSetValue, "Float32", Floats, FALSE)
DoubleAttribute    == Attribute(DoubleSetValue, "Float64", Floats, FALSE)
NumberAttribute    == Attribute(NumberSetValue, "Decimal", {"String"}, FALSE)
StringAttribute    == Attribute(StringSetValue, "String", {"String", "Text"}, FALSE)
TimestampAttribute == Attribute(TimestampSetValue, "Time", {"Time"}, TRUE)
BlobAttribute      == Attribute(BlobSetValue, "Nil", {"Slice"}, TRUE)
ClobAttribute      == Attribute(ClobSetValue, "Nil", {"Slice"}, FALSE)

Types == 1..15

\* CreateAttribute and CreateAttributeWithDesc.
CreateAttribute(t) ==
    CASE t = 1 -> BooleanAttribute  [] t = 2 -> ByteAttribute
      [] t = 3 -> CharAttribute     [] t = 4 -> ShortAttribute
      [] t = 5 -> IntegerAttribute  [] t = 6 -> LongAttribute
      [] t = 7 -> FloatAttribute    [] t = 8 -> DoubleAttribute
      [] t = 9 -> NumberAttribute   [] t = 10 -> StringAttribute
      [] t \in 11..13 -> TimestampAttribute
      [] t = 14 -> BlobAttribute    [] t = 15 -> ClobAttribute

Large == {14, 15}

-----------------------------------------------------------------------------
(* Values *)

\* The numbers whose string a class refuses.
TooLarge(type, v) ==
    CASE type = 1 -> v \notin {0, 1}
      [] type = 4 -> v \notin (-(ShortSize \div 2))..(ShortSize \div 2 - 1)
      [] type = 10 -> v > MaxString
      [] OTHER -> FALSE

\* What is kept of a number.  A text is no error for a byte: it is zero.
Converted(type, value) ==
    IF type # 2 THEN value.v
    ELSE IF value.kind = "Text" THEN 0 ELSE value.v % ByteSize

\* An int comes back without its sign.
AsRead(type, v) == IF type = 5 THEN v % IntSize ELSE v

\* [outcome, value, modified] after SetValue, for an attribute with the value
\* and the flag.  The same value again changes nothing; comparing a slice
\* with one, before anything else, ends the program.  So does asking for the
\* kind of nil, and for the value of a Boolean that was made with another.
SetAttributeValue(type, att, value) ==
    LET class == CreateAttribute(type)
        same == [outcome |-> "done", value |-> att.value, modified |-> att.modified]
        kind == class.set[value.kind]
        new  == [kind |-> kind, v |-> Converted(type, value)]
    IN  CASE value = Null ->
                IF type \in {2, 3, 9} THEN [same EXCEPT !.outcome = "panic"]
                ELSE [outcome |-> "done", value |-> Null, modified |-> TRUE]
          [] value # Null /\ type = 14 /\ att.value # Null -> same
          [] value # Null /\ ~(type = 14 /\ att.value # Null) ->
                IF att.value.kind = "Slice" /\ value.kind = "Slice"
                THEN [same EXCEPT !.outcome = "panic"]
                ELSE IF att.value = value THEN same
                ELSE IF value.kind \notin DOMAIN class.set
                THEN [same EXCEPT !.outcome = "error"]
                ELSE IF kind = "panic" THEN [same EXCEPT !.outcome = "panic"]
                ELSE IF value.kind \in {"String", "Text"} /\ TooLarge(type, value.v)
                THEN [same EXCEPT !.outcome = "error"]
                ELSE IF type = 1 /\ att.value.kind \notin {"Nil", "Bool"}
                THEN [same EXCEPT !.outcome = "panic"]
                ELSE IF class.once /\ att.value # Null THEN same
                ELSE IF att.value = new /\ type \notin {9, 15} THEN same
                ELSE [outcome |-> "done", value |-> new, modified |-> TRUE]

\* WriteExternal: "done", or how it fails.  An array is no slice to the
\* decoder of a blob.
WriteExternal(type, value) ==
    IF value = Null \/ value.kind \in CreateAttribute(type).writes THEN "done"
    ELSE IF type \in Large THEN "error" ELSE "panic"

-----------------------------------------------------------------------------
(* An attribute of an entity of this client, and what the server has of it *)

VARIABLES
    type,        \* its type
    att,         \* [value, modified], or Absent
    listed,      \* it is in the entity's modifiedAttributes
    byHand,      \* the application has put it in, or set it while not listed,
                 \* and neither the entity nor a commit has flagged or reset it
    server,      \* the number the server has, or NoNumber
    outcome      \* of the last operation

attributesVars == <<type, att, listed, byHand, server, outcome>>

Absent == [value |-> Null, modified |-> FALSE, there |-> FALSE]
Fresh  == [Absent EXCEPT !.there = TRUE]
NoNumber == -99

AttributesInit ==
    /\ type \in Types
    /\ att = Absent
    /\ listed = FALSE /\ byHand = FALSE
    /\ server = NoNumber
    /\ outcome = "done"

Running == outcome # "panic"

After(r) == [att EXCEPT !.value = r.value, !.modified = r.modified, !.there = TRUE]

\* Mutant: the attribute is not listed.
SetOrCreateAttributeUnlisted(value) ==
    LET r == SetAttributeValue(type, att, value)
    IN  /\ Running
        /\ outcome' = r.outcome
        /\ att' = IF r.outcome = "done" THEN After(r) ELSE att
        /\ byHand' = (byHand /\ ~(~att.modified /\ r.modified))
        /\ UNCHANGED <<type, listed, server>>

\* The entity lists an attribute without the flag, then sets the value; one
\* that is new is kept only if that succeeds.  A nil value is refused.
SetOrCreateEntityAttribute(value) ==
    LET r == SetAttributeValue(type, att, value)
    IN  /\ Running
        /\ outcome' = r.outcome
        /\ att' = IF r.outcome = "done" THEN After(r) ELSE att
        /\ listed' = (listed \/ ~att.modified)
        /\ byHand' = (byHand /\ ~(~att.modified /\ r.modified))
        /\ UNCHANGED <<type, server>>

\* The application sets the value of an attribute it got from the entity.
SetValueByHand(value) ==
    LET r == SetAttributeValue(type, att, value)
    IN  /\ Running /\ att.there
        /\ outcome' = r.outcome
        /\ att' = After(r)
        /\ byHand' = (byHand \/ (r.modified /\ ~listed))
        /\ UNCHANGED <<type, listed, server>>

\* An attribute as it is made: of any value, or none, as it is given.
CreateAttributeWithDesc(value) ==
    [outcome |-> "done", value |-> value, modified |-> FALSE]

\* SetAttribute: one that the application has made, and perhaps set, takes
\* the place of the old one.  The list gets it if it is not modified.
SetEntityAttribute(value) ==
    \E r \in {CreateAttributeWithDesc(value), SetAttributeValue(type, Fresh, value)} :
        /\ Running
        /\ r.outcome = "done"
        /\ outcome' = "done"
        /\ att' = After(r)
        /\ listed' = ~r.modified
        /\ byHand' = TRUE
        /\ UNCHANGED <<type, server>>

\* Mutant: the flag is taken although nothing was written.
CommitResetsAnyway ==
    LET w == IF att.there /\ att.modified THEN WriteExternal(type, att.value)
             ELSE "done"
    IN  /\ Running
        /\ outcome' = w
        /\ server' = IF w # "done" \/ ~att.modified THEN server
                     ELSE IF att.value = Null THEN NoNumber ELSE att.value.v
        /\ att' = [att EXCEPT !.modified = @ /\ ~listed]
        /\ byHand' = (byHand /\ ~(att.modified /\ listed))
        /\ listed' = FALSE
        /\ UNCHANGED type

\* Commit: AbstractEntityWriteExternal writes the modified attribute, and
\* ResetModifiedAttributes takes the flag of what is listed.
CommitEntity ==
    LET w == IF att.there /\ att.modified THEN WriteExternal(type, att.value)
             ELSE "done"
    IN  /\ Running
        /\ outcome' = w
        /\ IF w = "done"
           THEN /\ server' = IF ~att.modified THEN server
                             ELSE IF att.value = Null THEN NoNumber
                             ELSE att.value.v
                /\ att' = [att EXCEPT !.modified = @ /\ ~listed]
                /\ byHand' = (byHand /\ ~(att.modified /\ listed))
                /\ listed' = FALSE
           ELSE UNCHANGED <<server, att, listed, byHand>>
        /\ UNCHANGED type

\* Another client reads the entity, and goes on with it.  SetAttribute lists
\* what is read.  A null attribute ends the program, and of a timestamp more
\* is read than there is.
FetchEntity ==
    /\ Running /\ att.there /\ ~att.modified
    /\ IF server = NoNumber \/ type \in 11..13
       THEN /\ outcome' = IF server = NoNumber THEN "panic" ELSE "error"
            /\ UNCHANGED <<att, listed, byHand>>
       ELSE /\ outcome' = "done"
            /\ att' = [Fresh EXCEPT !.value =
                          IF type \in Large THEN Null
                          ELSE [kind |-> CreateAttribute(type).reads,
                                v |-> AsRead(type, server)]]
            /\ listed' = TRUE
            /\ byHand' = FALSE
    /\ UNCHANGED <<type, server>>

AttributesNext ==
    \/ \E value \in Values : SetOrCreateEntityAttribute(value)
    \/ \E value \in Values \cup {Null} :
           SetValueByHand(value) \/ SetEntityAttribute(value)
    \/ CommitEntity
    \/ FetchEntity

AttributesSpec == AttributesInit /\ [][AttributesNext]_attributesVars

-----------------------------------------------------------------------------
(* Properties *)

\* What is flagged can be written: a commit never ends the program, whatever
\* was set, read and set again before.
CommitCanWrite ==
    att.there /\ att.modified => WriteExternal(type, att.value) # "panic"

\* What is not flagged is what the server has, so that nothing is lost by not
\* sending it, unless the application put it in as it was made: the value of
\* such an attribute is never sent.  Large objects are read without their
\* content, and an int may have lost its sign.
NothingUnsent ==
    att.there /\ ~att.modified /\ ~byHand =>
        \/ server = (IF att.value = Null THEN NoNumber ELSE att.value.v)
        \/ att.value = Null /\ type \in Large
        \/ type = 5 /\ att.value.v = server % IntSize

\* A flag that a commit does not reset, so that the value is sent again with
\* every later commit of the entity, over what others have written since, is
\* one of an attribute that the application set past the entity.
ResentIsByHand == att.there /\ att.modified /\ ~listed => byHand

\* A value that SetOrCreateAttribute accepts takes the place of the old one,
\* except that bytes, timestamps and blobs keep the first they were given.
Takes(value) ==
    outcome' = "done" =>
        \/ att'.value.v = Converted(type, value)
        \/ type \in {2} \cup 11..14 /\ att'.value = att.value /\ att.value # Null

AcceptedStep ==
    ~UNCHANGED attributesVars =>
        \A value \in Values : SetOrCreateEntityAttribute(value) => Takes(value)

AcceptedTakes == [][AcceptedStep]_attributesVars
=============================================================================
