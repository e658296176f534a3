----------------------------- MODULE Externals -----------------------------
(***************************************************************************)
(* The external form of client/goAPI/model: what WriteExternal and         *)
(* WriteValue write, and ReadExternal and ReadValue read, of attributes    *)
(* and their descriptors, of entities and their types, and of keys.        *)
(*                                                                         *)
(* The bits of a float are an int, those of a double a long.  Attribute    *)
(* types have the numbers of types/TGAttributeType.go: 1 boolean, 2 byte,  *)
(* 3 char, 4 short, 5 integer, 6 long, 7 float, 8 double, 9 number, 10     *)
(* string, 11 date, 12 time, 13 timestamp, 14 blob, 15 clob.               *)
(***************************************************************************)
EXTENDS Layouts

Scalar(kind) == <<F("value", kind)>>

(* WriteValue *)

WriteBooleanValue == Scalar("Boolean")
WriteByteValue    == Scalar("Byte")
WriteCharValue    == Scalar("Char")
WriteShortValue   == Scalar("Short")
WriteIntegerValue == Scalar("Int")
WriteLongValue    == Scalar("Long")
WriteFloatValue   == Scalar("Int")
WriteDoubleValue  == Scalar("Long")
WriteStringValue  == Scalar("UTF")
WriteNumberValue  == <<F("precision", "Short"), F("scale", "Short"),
                       F("value", "UTF")>>

\* TGNoZone, -1, ends it.  A date has no time of the day, a time no day.
WriteTimestampValue ==
    <<Const("Boolean", TRUE),
      If("attrType", {12}, <<Const("Short", 0), Const("Byte", 0), Const("Byte", 0)>>),
      Unless("attrType", {12},
             <<F("year", "Short"), F("month", "Byte"), F("day", "Byte")>>),
      If("attrType", {11}, <<Const("Byte", 0), Const("Byte", 0), Const("Byte", 0),
                             Const("Short", 0)>>),
      Unless("attrType", {11},
             <<F("hour", "Byte"), F("minute", "Byte"), F("second", "Byte"),
               F("micros", "Short")>>),
      Const("Byte", -1)>>

\* attrValue is not nil here: isNull is asked first.
WriteBlobValue == <<F("entityId", "Long"), Const("Boolean", TRUE),
                    F("value", "Bytes")>>
WriteClobValue == <<Const("Boolean", TRUE), F("value", "Bytes")>>

WriteValue ==
    (1 :> WriteBooleanValue) @@ (2 :> WriteByteValue) @@ (3 :> WriteCharValue)
    @@ (4 :> WriteShortValue) @@ (5 :> WriteIntegerValue) @@ (6 :> WriteLongValue)
    @@ (7 :> WriteFloatValue) @@ (8 :> WriteDoubleValue) @@ (9 :> WriteNumberValue)
    @@ (10 :> WriteStringValue) @@ [t \in 11..13 |-> WriteTimestampValue]
    @@ (14 :> WriteBlobValue) @@ (15 :> WriteClobValue)

(* ReadValue *)

ReadBooleanValue == Scalar("Boolean")
ReadByteValue    == Scalar("Byte")
ReadCharValue    == Scalar("Char")
ReadShortValue   == Scalar("Short")
ReadIntegerValue == Scalar("Int")
ReadLongValue    == Scalar("Long")
ReadFloatValue   == Scalar("Int")
ReadDoubleValue  == Scalar("Long")
ReadStringValue  == Scalar("UTF")
ReadNumberValue  == <<F("precision", "Short"), F("scale", "Short"),
                      F("value", "UTF")>>

\* The zone is a byte, and never the int -1: a short is always read after it.
ReadTimestampValue ==
    <<F("era", "Boolean"), F("year", "Short"), F("month", "Byte"),
      F("day", "Byte"), F("hour", "Byte"), F("minute", "Byte"),
      F("second", "Byte"), F("micros", "Char"), F("zone", "Byte"),
      Unless("zone", {-1}, <<Skip("Short")>>)>>

\* The content of large objects is fetched later.
ReadBlobValue == <<F("entityId", "Long")>>
ReadClobValue == <<F("entityId", "Long")>>

ReadValue ==
    (1 :> ReadBooleanValue) @@ (2 :> ReadByteValue) @@ (3 :> ReadCharValue)
    @@ (4 :> ReadShortValue) @@ (5 :> ReadIntegerValue) @@ (6 :> ReadLongValue)
    @@ (7 :> ReadFloatValue) @@ (8 :> ReadDoubleValue) @@ (9 :> ReadNumberValue)
    @@ (10 :> ReadStringValue) @@ [t \in 11..13 |-> ReadTimestampValue]
    @@ (14 :> ReadBlobValue) @@ (15 :> ReadClobValue)

-----------------------------------------------------------------------------
(* Attributes.  gmd maps the ids of the descriptors a client knows to      *)
(* their attribute types.  The encrypted ones are left out: their bytes    *)
(* come from the crypto grapher or another request.                        *)

\* AbstractAttributeWriteExternal.
AttributeWrites(gmd) ==
    <<F("attrId", "Int"), F("isNull", "Boolean"),
      If("isNull", {FALSE},
         <<Switch("attrId", [i \in DOMAIN gmd |-> WriteValue[gmd[i]]], "none")>>)>>

\* ReadExternalForEntity makes the attribute that the descriptor says;
\* AbstractAttributeReadExternal asserts that a null attribute, which has a
\* class of its own, is an AbstractAttribute, and ends the program.
AttributeReads(gmd) ==
    <<F("attrId", "Int"),
      Switch("attrId",
             [i \in DOMAIN gmd |->
                 <<F("isNull", "Boolean"), Refuse("isNull", {FALSE}, "panic")>>
                 \o ReadValue[gmd[i]]],
             "IOException")>>

\* The descriptor, with precision and scale of a number.
AttributeDescriptorWrites ==
    <<Const("Byte", 0), F("attributeId", "Int"), F("name", "UTF"),
      F("attrType", "Byte"), F("isArray", "Boolean"), F("isEncrypted", "Boolean"),
      If("attrType", {9}, <<F("precision", "Short"), F("scale", "Short")>>)>>

\* Mutant: precision and scale exchanged.
AttributeDescriptorReadsSwapped ==
    <<F("sysType", "Byte"), Refuse("sysType", {0}, "IOException"),
      F("attributeId", "Int"), F("name", "UTF"),
      F("attrType", "Byte"), F("isArray", "Boolean"), F("isEncrypted", "Boolean"),
      If("attrType", {9}, <<F("scale", "Short"), F("precision", "Short")>>)>>

AttributeDescriptorReads ==
    <<F("sysType", "Byte"), Refuse("sysType", {0}, "IOException"),
      F("attributeId", "Int"), F("name", "UTF"),
      F("attrType", "Byte"), F("isArray", "Boolean"), F("isEncrypted", "Boolean"),
      If("attrType", {9}, <<F("precision", "Short"), F("scale", "Short")>>)>>

-----------------------------------------------------------------------------
(* Types of entities; they are never written.  Their attributes are read   *)
(* by name.                                                                *)

Named == <<F("name", "UTF")>>

EntityTypeReads ==
    <<F("sysType", "Byte"), F("id", "Int"), F("name", "UTF"), Skip("Int"),
      Many("attributes", "Short", Named)>>

NodeTypeReads ==
    EntityTypeReads
    \o <<Many("pKeys", "Short", Named),
         Many("idxIds", "Short", <<F("idx", "Int")>>),
         F("numEntries", "Long")>>

EdgeTypeReads ==
    EntityTypeReads
    \o <<F("fromTypeId", "Int"), F("toTypeId", "Int"), F("direction", "Byte"),
         F("numEntries", "Long")>>

-----------------------------------------------------------------------------
(* Entities.  A body of one has its attributes; those that are modified    *)
(* are written.  Entity kinds: 2 node, 3 edge.                             *)

EntityWrites(gmd) ==
    <<F("isNew", "Boolean"), F("kind", "Byte"), F("virtualId", "Long"),
      F("version", "Int"), F("typeId", "Int"),
      Many("modified", "Int", AttributeWrites(gmd))>>

\* A flag isNew is not refused; a type that is not known stays nil.
EntityReads(kind, gmd) ==
    <<F("isNew", "Boolean"), F("kind", "Byte"),
      Refuse("kind", {kind}, "IOException"), F("entityId", "Long"),
      F("version", "Int"), F("typeId", "Int"),
      Many("attributes", "Int", AttributeReads(gmd))>>

\* The node's own id is written once for each of its edges that are new.
NodeWrites(gmd) ==
    <<Sized(EntityWrites(gmd) \o <<Many("newEdges", "Int", <<F("nodeId", "Long")>>)>>)>>

NodeReads(gmd) ==
    <<Sized(EntityReads(2, gmd)
            \o <<Many("edges", "Int", <<F("edgeId", "Long")>>)>>)>>

EdgeWrites(gmd) ==
    <<Sized(EntityWrites(gmd)
            \o <<F("direction", "Byte"), F("from", "Long"), F("to", "Long")>>)>>

EdgeReads(gmd) ==
    <<Sized(EntityReads(3, gmd)
            \o <<F("direction", "Byte"), F("from", "Long"), F("to", "Long")>>)>>

\* The key of GetEntity; the server reads it, the client never does.
CompositeKeyWrites(gmd) ==
    <<If("keyName", {<<>>}, <<Const("Boolean", FALSE)>>),
      Unless("keyName", {<<>>}, <<Const("Boolean", TRUE), F("keyName", "UTF")>>),
      Many("attributes", "Short", AttributeWrites(gmd))>>

=============================================================================
