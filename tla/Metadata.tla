------------------------------ MODULE Metadata ------------------------------
(***************************************************************************)
(* The attribute descriptors of a connection (client/goAPI/model/          *)
(* GraphMetadataImpl.go, AttributeDescriptorImpl.go): where the id of a    *)
(* descriptor comes from, and which id an attribute is written with.  On   *)
(* the wire an attribute has no name: the server knows it by its id.       *)
(***************************************************************************)
EXTENDS Integers, FiniteSets, TLC

CONSTANTS
    Names,      \* of attributes
    Types,      \* Go types of values: "typed", or "untyped" if GetAttribute-
                \* TypeFromName has no attribute type for it
    MaxLocal,   \* bound: descriptors this process makes
    MaxServer   \* bound: descriptors of the server

VARIABLES
    localId,      \* LocalAttributeId, of the process
    descriptors,  \* of this connection's GraphMetadata, by name
    descriptorsById,
    initialized,
    attributes,   \* of an entity that was not committed yet: their descriptors
    server,       \* the descriptors of the server, from ids to names
    written       \* the last CommitTransactionRequest

metadataVars == <<localId, descriptors, descriptorsById, initialized, attributes,
                  server, written>>

Nowhere == <<>>
NoCommit == [new |-> {}, attributes |-> {}]

MetadataInit ==
    /\ localId = 0
    /\ descriptors = Nowhere /\ descriptorsById = Nowhere /\ initialized = FALSE
    /\ attributes = {}
    /\ server = Nowhere
    /\ written = NoCommit

\* DefaultAttributeDescriptor: the id of a new descriptor.
NewAttributeId == localId + 1

Descriptor(id, name, type) == [id |-> id, name |-> name, type |-> type]

-----------------------------------------------------------------------------
(* Metadata read from the server.  Reading makes a descriptor for each,    *)
(* with an id of this process that the server's id then replaces.          *)

UpdateMetadata ==
    LET read == [i \in DOMAIN server |-> Descriptor(i, server[i], "typed")]
        named == [n \in {server[i] : i \in DOMAIN server} |->
                    CHOOSE d \in {read[i] : i \in DOMAIN server} : d.name = n]
    IN  /\ localId + Cardinality(DOMAIN server) <= MaxLocal
        /\ localId' = localId + Cardinality(DOMAIN server)
        /\ descriptors' = named @@ descriptors
        /\ descriptorsById' = read @@ descriptorsById
        /\ initialized' = TRUE
        /\ UNCHANGED <<attributes, server, written>>

\* GetGraphObjectFactory reads it once.  If that fails, it reports no error:
\* the application goes on without.
InitMetadata == ~initialized /\ UpdateMetadata

\* GetGraphMetadata(true)
GetGraphMetadata == initialized /\ UpdateMetadata

-----------------------------------------------------------------------------
(* The application *)

CreateAttributeDescriptor(n, t) ==
    /\ localId < MaxLocal
    /\ localId' = NewAttributeId
    /\ descriptors' = (n :> Descriptor(NewAttributeId, n, t)) @@ descriptors
    /\ UNCHANGED <<descriptorsById, initialized, attributes, server, written>>

\* SetOrCreateAttribute of a name the entity has no attribute of: the
\* descriptor of that name, or a new one, which is made first and stays, also
\* if there is no attribute for a value of its type.  An attribute starts with
\* a descriptor of its own that is thrown away.
SetOrCreateAttribute(n, t) ==
    LET new  == n \notin DOMAIN descriptors
        desc == IF new THEN Descriptor(NewAttributeId, n, t) ELSE descriptors[n]
        made == (IF new THEN 1 ELSE 0) + (IF desc.type = "typed" THEN 1 ELSE 0)
    IN  /\ n \notin {d.name : d \in attributes}
        /\ localId + made <= MaxLocal
        /\ localId' = localId + made
        /\ descriptors' = (n :> desc) @@ descriptors
        /\ attributes' = attributes \cup {d \in {desc} : d.type = "typed"}
        /\ UNCHANGED <<descriptorsById, initialized, server, written>>

\* GetNewAttributeDescriptors: those with an id that is not the server's.
GetNewAttributeDescriptors ==
    {d \in {descriptors[n] : n \in DOMAIN descriptors} : d.id < 0}

\* Commit writes the new descriptors and the modified attributes.
Commit ==
    /\ attributes # {}
    /\ written' = [new |-> GetNewAttributeDescriptors, attributes |-> attributes]
    /\ attributes' = {}
    /\ UNCHANGED <<localId, descriptors, descriptorsById, initialized, server>>

\* Somebody adds an attribute to the server.
ServerAdds(n) ==
    LET id == Cardinality(DOMAIN server) + 1
    IN  /\ id <= MaxServer /\ n \notin {server[i] : i \in DOMAIN server}
        /\ server' = (id :> n) @@ server
        /\ UNCHANGED <<localId, descriptors, descriptorsById, initialized,
                       attributes, written>>

MetadataNext ==
    \/ InitMetadata \/ GetGraphMetadata
    \/ \E n \in Names : \E t \in Types :
          CreateAttributeDescriptor(n, t) \/ SetOrCreateAttribute(n, t)
    \/ Commit
    \/ \E n \in Names : ServerAdds(n)

MetadataSpec == MetadataInit /\ [][MetadataNext]_metadataVars

-----------------------------------------------------------------------------
\* "Need to check for new descriptor only with attribute id as negative
\* number" (CommitTransactionRequest.go:339): an attribute is written with an
\* id that the server has for its name, or its descriptor, with a negative id,
\* is written with it.
AttributeIdsKnown ==
    \A d \in written.attributes :
        d \in written.new \/ (d.id \in DOMAIN server /\ server[d.id] = d.name)
=============================================================================
