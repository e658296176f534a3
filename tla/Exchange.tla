------------------------------ MODULE Exchange ------------------------------
(***************************************************************************)
(* A message from the object at one end of a connection to the object at   *)
(* the other: the header, the ToBytes and FromBytes that every class has a *)
(* copy of, and the factory that makes a message of the bytes of a frame.  *)
(* Between them a frame may lose its end, get more bytes or be replaced by *)
(* one of another protocol.                                                *)
(***************************************************************************)
EXTENDS Messages, FiniteSets

CONSTANTS
    Magic,       \* 0xdb2d1e4
    Gmd,         \* the descriptors both ends know: id -> attribute type
    Samples,     \* name of a class -> the bodies it is tried with
    Followers,   \* the classes of the second message and those after it
    MaxSent,     \* how many messages are sent
    Cuts,        \* parts of frames, in bytes, that the socket may return
    BufferSize   \* dataBufferSize, 32 K

ExchangeAssumption ==
    /\ MessagesAssumption
    /\ Magic \in 1..(Power(4) \div 2)
    /\ \A i \in DOMAIN Gmd : i \in Nat /\ Gmd[i] \in 1..15

\* Major version 1, minor 0.
ProtocolVersion == Radix

Classes ==
    [Ping |-> PingMessage, HandShakeRequest |-> HandShakeRequest,
     HandShakeResponse |-> HandShakeResponse,
     AuthenticateRequest |-> AuthenticateRequest,
     AuthenticateResponse |-> AuthenticateResponse,
     Authenticated |-> AuthenticatedMessage,
     BeginTransactionRequest |-> BeginTransactionRequest,
     BeginTransactionResponse |-> BeginTransactionResponse,
     CommitTransactionRequest |-> CommitTransactionRequest(Gmd),
     CommitTransactionResponse |-> CommitTransactionResponse,
     RollbackTransactionRequest |-> RollbackTransactionRequest,
     RollbackTransactionResponse |-> RollbackTransactionResponse,
     QueryRequest |-> QueryRequest, QueryResponse |-> QueryResponse,
     TraverseRequest |-> TraverseRequest, TraverseResponse |-> TraverseResponse,
     AdminRequest |-> AdminRequest, AdminResponse |-> AdminResponse,
     MetadataRequest |-> MetadataRequest, MetadataResponse |-> MetadataResponse,
     GetEntityRequest |-> GetEntityRequest(Gmd),
     GetEntityResponse |-> GetEntityResponse,
     GetLargeObjectRequest |-> GetLargeObjectRequest,
     GetLargeObjectResponse |-> GetLargeObjectResponse,
     DumpStacktraceRequest |-> DumpStacktraceRequest,
     DisconnectChannelRequest |-> DisconnectChannelRequest,
     SessionForcefullyTerminated |-> SessionForcefullyTerminated,
     DecryptBufferRequest |-> DecryptBufferRequest,
     DecryptBufferResponse |-> DecryptBufferResponse,
     Exception |-> ExceptionMessage, Invalid |-> InvalidMessage]

-----------------------------------------------------------------------------
(* The header *)

\* Where the payload begins.
DataOffset == 54

HeaderFields ==
    <<F("sequenceNo", "Long"), F("timestamp", "Long"), F("requestId", "Long"),
      F("authToken", "Long"), F("sessionId", "Long")>>

APMWriteHeader(class) ==
    <<Const("Int", Magic), Const("Short", ProtocolVersion),
      Const("Short", class.verb)>>
    \o HeaderFields \o <<Const("Short", DataOffset)>>

\* Mutant: two fields in the other order.
APMReadHeaderSwapped(class) ==
    <<F("magic", "Int"), Refuse("magic", {Magic}, "BadMagic"),
      F("version", "Short"),
      Refuse("version", {ProtocolVersion}, "ProtocolNotSupported"),
      F("verb", "Short"), Refuse("verb", {class.verb}, "BadVerb"),
      F("sequenceNo", "Long"), F("timestamp", "Long"), F("authToken", "Long"),
      F("requestId", "Long"), F("sessionId", "Long"), F("dataOffset", "Short")>>

\* A message that is not updatable refuses the timestamp -1, by when the
\* tokens are read and not yet set.
APMReadHeader(class) ==
    <<F("magic", "Int"), Refuse("magic", {Magic}, "BadMagic"),
      F("version", "Short"),
      Refuse("version", {ProtocolVersion}, "ProtocolNotSupported"),
      F("verb", "Short"), Refuse("verb", {class.verb}, "BadVerb")>>
    \o HeaderFields \o <<F("dataOffset", "Short")>>
    \o (IF class.updatable THEN <<>>
        ELSE <<Distinct("timestamp", {-1}, "GeneralException")>>)

-----------------------------------------------------------------------------
(* ToBytes and FromBytes *)

\* The bytes, or why there are none.  The length is written last.
ToBytes(class, body) ==
    LET e == WriteError(body, class.writes)
        b == WriteAll(body, APMWriteHeader(class) \o class.writes)
    IN  IF e # "none" THEN [err |-> "IOException", bytes |-> <<>>]
        ELSE [err |-> "none", bytes |-> IntBytes(Len(b) + 4) \o b]

\* CommitTransactionResponse alone does not hide its errors.
Reported(class, e) ==
    IF e \in {"none", "panic", "InvalidMessageLength"}
       \/ class.verb = CommitTransactionResponse.verb
    THEN e ELSE "IOException"

\* The payload, after the length l was read: the length is checked, and nothing
\* that the layout leaves unread.
ParseFrame(l, layout) ==
    IF l.err # "none" THEN Reading(l)
    ELSE IF l.val # Len(l.buf) THEN Reading(Failed(l, "InvalidMessageLength"))
    ELSE ParseAll(Reading(l), layout)

FrameOf(bytes, layout) == ParseFrame(Read(InputStream(bytes), "Int"), layout)

MessageOf(class, st) == [err |-> Reported(class, st.in.err), body |-> st.body]

FromBytes(class, bytes) ==
    MessageOf(class, FrameOf(bytes, APMReadHeader(class) \o class.reads))

-----------------------------------------------------------------------------
(* The factory *)

\* The verbs of PreDefinedVerbs; GetVerb makes the others invalid.
PreDefinedVerbs == (0..16) \cup (19..24) \cup {39, 40, 41, 44, 45, 100, -1}

GetVerb(id) == IF id \in PreDefinedVerbs THEN id ELSE InvalidMessage.verb

\* The verb at the start of a frame, or an error.
VerbIdFromBytes(bytes) ==
    FrameOf(bytes, SubSeq(APMReadHeader(InvalidMessage), 1, 4)
                   \o <<F("verb", "Short")>>)

\* Mutant: the two classes for decryption, which have one verb, exchanged.
CreateMessageForVerbTwins(verb) ==
    LET twins == {"DecryptBufferRequest", "DecryptBufferResponse"}
        by(v) == CHOOSE n \in DOMAIN Classes \ twins : Classes[n].verb = v
    IN  IF verb \in {15, 16} THEN "MetadataRequest"
        ELSE IF verb = 39 THEN "DisconnectChannelRequest"
        ELSE IF verb \in {44, 45} THEN "DecryptBufferRequest"
        ELSE by(verb)

\* The class for a verb, by its name.  The cases of administration messages
\* fall through to the metadata request, that of the stack trace to the
\* disconnection.
CreateMessageForVerb(verb) ==
    LET twins == {"DecryptBufferRequest", "DecryptBufferResponse"}
        by(v) == CHOOSE n \in DOMAIN Classes \ twins : Classes[n].verb = v
    IN  IF verb \in {15, 16} THEN "MetadataRequest"
        ELSE IF verb = 39 THEN "DisconnectChannelRequest"
        ELSE IF verb = 44 THEN "DecryptBufferRequest"
        ELSE IF verb = 45 THEN "DecryptBufferResponse"
        ELSE by(verb)

CreateMessage(bytes, v) ==
    IF v.in.err # "none" THEN [err |-> v.in.err, class |-> "none", body |-> NoBody]
    ELSE LET class == CreateMessageForVerb(GetVerb(v.body["verb"]))
         IN  FromBytes(Classes[class], bytes) @@ [class |-> class]

CreateMessageFromBuffer(bytes) == CreateMessage(bytes, VerbIdFromBytes(bytes))

\* What populateResultSetFromGetEntityResponse reads of the stream after the
\* message was made: [err, entities].
EntitiesOf(st) ==
    [err |-> st.in.err,
     entities |-> IF st.in.err = "none" THEN st.body["entities"] ELSE <<>>]

PopulateResultSet(bytes) ==
    EntitiesOf(FrameOf(bytes, APMReadHeader(GetEntityResponse)
                              \o <<F("resultId", "Int")>> \o EntityStream(Gmd)))

-----------------------------------------------------------------------------
(* The server's side: what it writes for the responses the client only     *)
(* reads, or reads more of than the client writes.  Written from what the  *)
(* client reads.                                                           *)

\* An entity as a client would write it, but with all attributes, and of large
\* objects only the id.
ServerEntity ==
    LET value == [t \in 14..15 |-> ReadValue[t]] @@ WriteValue
    IN  <<F("isNew", "Boolean"), F("kind", "Byte"), F("entityId", "Long"),
          F("version", "Int"), F("typeId", "Int"),
          Many("attributes", "Int",
               <<F("attrId", "Int"), F("isNull", "Boolean"),
                 If("isNull", {FALSE},
                    <<Switch("attrId", [i \in DOMAIN Gmd |-> value[Gmd[i]]],
                             "none")>>)>>)>>

ServerWrites(name) ==
    CASE name = "HandShakeResponse" -> HandShakeResponseReads
      [] name = "AuthenticateResponse" -> AuthenticateResponseReads
      [] name = "CommitTransactionResponse" ->
            <<Const("Int", 0), Const("Int", 0), F("status", "Int"),
              Unless("message", {<<>>}, <<F("message", "UTF")>>),
              Unless("attrDescIdList", {<<>>},
                     <<Const("Short", OpCodes["descriptors"]),
                       Numbers("attrDescIdList", <<"Int", "Int">>)>>),
              Unless("addedIdList", {<<>>},
                     <<Const("Short", OpCodes["added"]),
                       Numbers("addedIdList", <<"Long", "Long", "Long">>)>>),
              Unless("updatedIdList", {<<>>},
                     <<Const("Short", OpCodes["updated"]),
                       Numbers("updatedIdList", <<"Long", "Long">>)>>),
              Unless("removedIdList", {<<>>},
                     <<Const("Short", OpCodes["removed"]),
                       Numbers("removedIdList", <<"Long">>)>>)>>
      [] name = "QueryResponse" -> Tail(QueryResponseReads)
      [] name = "GetEntityResponse" ->
            <<F("resultId", "Int"),
              Many("entities", "Int",
                   <<F("entityKind", "Byte"), F("id", "Long"),
                     Sized(ServerEntity
                           \o <<Switch("entityKind",
                                  (2 :> <<Many("edges", "Int", <<F("edgeId", "Long")>>)>>)
                                  @@ (3 :> <<F("direction", "Byte"), F("from", "Long"),
                                             F("to", "Long")>>), "none")>>)>>)>>
      [] name = "GetLargeObjectResponse" -> GetLargeObjectResponseReads
      [] name = "MetadataResponse" ->
            <<F("count", "Int"),
              Const("Byte", 0), Many("attrDescList", "Int", AttributeDescriptorWrites),
              Const("Byte", 1), Many("nodeTypeList", "Int", NodeTypeReads),
              Const("Byte", 2), Many("edgeTypeList", "Int", EdgeTypeReads)>>
      [] name = "DecryptBufferResponse" -> DecryptBufferResponseReads
      [] name = "AdminResponse" -> AdminResponseReads
      [] OTHER -> Classes[name].writes

Frame(name, body) ==
    ToBytes([Classes[name] EXCEPT !.writes = ServerWrites(name)], body)

-----------------------------------------------------------------------------
(* The stream.  TCP keeps the order of the bytes and not their division:   *)
(* what one Read returns may end inside a frame, or hold several.          *)

VARIABLES
    wire,        \* all the bytes that were written
    sent,        \* the messages they are, with their first and last bytes
    at,          \* how many of the bytes were read
    got          \* what ReadWireMsg made of those it read last

exchangeVars == <<wire, sent, at, got>>

NotRead == [err |-> "none", made |-> [err |-> "nothing", class |-> "none",
                                      body |-> NoBody],
            from |-> 0, to |-> 0]

ExchangeInit == wire = <<>> /\ sent = <<>> /\ at = 0 /\ got = NotRead

Exchanging ==
    UNION {{[class |-> n, body |-> b] : b \in Samples[n]} : n \in DOMAIN Samples}

\* writeToWire: a message that has no bytes is not written.
Send ==
    /\ Len(sent) < MaxSent
    /\ at = 0
    /\ \E m \in Exchanging :
          LET f == Frame(m.class, m.body)
          IN  /\ sent # <<>> => m.class \in Followers
              /\ f.err = "none"
              /\ wire' = wire \o f.bytes
              /\ sent' = Append(sent, [class |-> m.class, body |-> m.body,
                                       from |-> Len(wire) + 1,
                                       to |-> Len(wire) + Len(f.bytes)])
    /\ UNCHANGED <<at, got>>

\* What ReadWireMsg returns for n bytes.  Logging them takes twice as many of
\* the buffer, and ends the program when it has not got them.
Returned(n, made) ==
    CASE 2 * n > BufferSize -> "panic"
      [] made.err # "none" -> "GeneralException"
      [] made.class = "Exception" -> "GeneralException"
      [] made.class = "HandShakeResponse"
         /\ made.body["responseStatus"] = ResponseChallengeFailed ->
            "VersionMismatchException"
      [] OTHER -> "none"

Result(n, made) ==
    [err |-> Returned(n, made), made |-> made, from |-> at + 1, to |-> at + n]

\* One Read of the socket: a frame, all there is, or a part.
ReadWireMsg ==
    /\ at < Len(wire)
    /\ got.err # "panic"
    /\ \E n \in {sent[k].to - at : k \in DOMAIN sent} \cup Cuts :
          /\ n \in 1..(Len(wire) - at)
          /\ n <= BufferSize
          /\ got' = Result(n, CreateMessageFromBuffer(SubSeq(wire, at + 1, at + n)))
          /\ at' = at + n
    /\ UNCHANGED <<wire, sent>>

ExchangeNext == Send \/ ReadWireMsg

ExchangeSpec == ExchangeInit /\ [][ExchangeNext]_exchangeVars

-----------------------------------------------------------------------------
(* Properties *)

\* The messages whose bytes were read last, no more and no fewer.
ReadWhole == {m \in {sent[k] : k \in DOMAIN sent} : m.from = got.from /\ m.to = got.to}

\* Out of a stream of frames come messages that went in: when the socket
\* returns a part of a frame, or more than one, no message is made of it, and
\* one that is made has the request id that its sender gave it, by which the
\* channel finds who waits for it.
NeverTorn ==
    got.made.err = "none" =>
        \E m \in ReadWhole : got.made.body["requestId"] = m.body["requestId"]

\* The factory has no class for these, or takes another one, which refuses
\* the verb: what the server answers an administrator is among them.
Undecodable == {"AdminRequest", "AdminResponse", "DumpStacktraceRequest",
                "Authenticated"}

\* A frame becomes a message of the class that wrote it, or nothing.  The
\* request for decryption, which has the wrong verb, becomes its response.
FactoryFindsClass ==
    \A m \in ReadWhole :
        /\ m.class \in Undecodable => got.made.err # "none"
        /\ got.made.err = "none" =>
              got.made.class = (IF m.class = "DecryptBufferRequest"
                                THEN "DecryptBufferResponse" ELSE m.class)

\* What is left to others, counted down, or never read back.
Unread == {"message", "entities", "count", "decryptFlag"}

\* The lists of a commit's response stay empty when it has no section for them.
Lists == {"attrDescIdList", "addedIdList", "updatedIdList", "removedIdList"}

\* Fields that ReadBytes reads: it returns zeros.
Arrays == {"password", "errorMessage", "serverCertBuffer", "decryptedBuffer"}

\* A written and a read field.  An int loses its sign, which tells a
\* descriptor of this client from one of the server, and a text what it has
\* besides ASCII.
SameField(name, w, r) ==
    CASE name \in Arrays -> r = [i \in DOMAIN w |-> 0]
      [] name = "exceptionMsg" -> r = Reread(w)
      [] name = "chunks" -> Len(r) = Len(w)
      [] name = "attrDescIdList" -> r = [i \in DOMAIN w |-> w[i] % Power(4)]
      [] name = "nodeTypeList" -> r = SelectSeq(w, LAMBDA t : ~SystemName(t["name"]))
      [] OTHER -> r = w

\* Answers that are errors.
Refused(m) ==
    \/ m.class \in {"CommitTransactionResponse", "GetLargeObjectResponse"}
       /\ m.body["status"] # 0
    \/ ~Classes[m.class].updatable /\ m.body["timestamp"] = -1

\* An entity with a null attribute ends the program, one with a timestamp, of
\* which more is read than there is, is an error.
HasUnreadable(entities) ==
    \E i \in DOMAIN entities : \E k \in DOMAIN entities[i]["attributes"] :
        LET a == entities[i]["attributes"][k]
        IN  a["isNull"] \/ Gmd[a["attrId"]] \in 11..13

UnderstoodEntities(sentOnes, r) ==
    IF HasUnreadable(sentOnes) THEN r.err # "none"
    ELSE r.err = "none" /\ r.entities = sentOnes

\* Each class reads what its peer writes: every field that is read has the
\* value that was written, and an answer is refused only if it is an error.
\* The requests the client only writes are read without their payload, and
\* AuthenticateRequest does not read what it writes.  The entities of an answer
\* are read as they were written, attributes of all types but timestamps.
Understood ==
    \A m \in {w \in ReadWhole : w.class \notin Undecodable
                  \cup {"AuthenticateRequest", "DecryptBufferRequest"}} :
        LET body == got.made.body IN
        /\ (got.made.err # "none") <=> Refused(m)
        /\ got.made.err = "none" =>
              \A f \in DOMAIN m.body :
                 IF f \in DOMAIN body THEN SameField(f, m.body[f], body[f])
                 ELSE \/ f \in Unread
                      \/ f \in Lists /\ m.body[f] = <<>>
                      \/ Classes[m.class].reads = Nothing
        /\ m.class = "GetEntityResponse" /\ got.made.err = "none" =>
              UnderstoodEntities(m.body["entities"],
                                 PopulateResultSet(SubSeq(wire, got.from, got.to)))
=============================================================================
