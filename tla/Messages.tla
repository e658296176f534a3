------------------------------ MODULE Messages ------------------------------
(***************************************************************************)
(* The classes of messages in client/goAPI/pdu and client/goAPI/admin: the *)
(* verb of each, whether UpdateSequenceAndTimeStamp may change it, what    *)
(* its WritePayload writes and its ReadPayload reads.  FromBytes and       *)
(* ToBytes, which every class has a copy of, are in Exchange.tla.  A       *)
(* payload method that does nothing has the empty layout.                  *)
(*                                                                         *)
(* The body of a message holds the fields of its header and its payload.   *)
(***************************************************************************)
EXTENDS Externals, AdminPayloads

CONSTANT OpCodes   \* the sections of commit messages: 0x1010 descriptors,
                   \* 0x1011 added, 0x1012 updated, 0x1013 removed, 0x6789
                   \* entities

MessagesAssumption ==
    /\ RadixAssumption
    /\ DOMAIN OpCodes =
           {"descriptors", "added", "updated", "removed", "entities"}
    /\ \A a, b \in DOMAIN OpCodes : OpCodes[a] = OpCodes[b] => a = b
    /\ \A a \in DOMAIN OpCodes : OpCodes[a] \in 0..(Power(2) \div 2 - 1)

Class(verb, updatable, writes, reads) ==
    [verb |-> verb, updatable |-> updatable, writes |-> writes, reads |-> reads]

Nothing == <<>>

-----------------------------------------------------------------------------
(* Messages without a payload                                              *)

PingMessage                 == Class(0, FALSE, Nothing, Nothing)
BeginTransactionRequest     == Class(5, FALSE, Nothing, Nothing)
RollbackTransactionRequest  == Class(9, FALSE, Nothing, Nothing)
RollbackTransactionResponse == Class(10, FALSE, Nothing, Nothing)
TraverseRequest             == Class(13, FALSE, Nothing, Nothing)
TraverseResponse            == Class(14, FALSE, Nothing, Nothing)
MetadataRequest             == Class(19, TRUE, Nothing, Nothing)
DumpStacktraceRequest       == Class(39, FALSE, Nothing, Nothing)
InvalidMessage              == Class(-1, FALSE, Nothing, Nothing)

-----------------------------------------------------------------------------
(* Opening and closing a session                                           *)

HandShakeRequestPayload ==
    <<F("handshakeType", "Byte"), F("sslMode", "Boolean"), F("challenge", "Long")>>

HandShakeRequest ==
    Class(1, TRUE, HandShakeRequestPayload, HandShakeRequestPayload)

ResponseChallengeFailed == 3

HandShakeResponseWrites ==
    <<F("responseStatus", "Byte"), F("challenge", "Long")>>

HandShakeResponseReads ==
    HandShakeResponseWrites
    \o <<If("responseStatus", {ResponseChallengeFailed},
            <<F("errorMessage", "Bytes")>>)>>

HandShakeResponse ==
    Class(2, FALSE, HandShakeResponseWrites, HandShakeResponseReads)

\* The password is written twice; what is read is not what is written.
AuthenticateRequestWrites ==
    <<Optional("clientId"), Optional("inboxAddr"), Optional("userName"),
      F("password", "Bytes"), F("password", "Bytes")>>

AuthenticateRequestReads ==
    <<Optional("clientId"), F("inboxAddr", "UTF"), F("userName", "UTF"),
      F("password", "Bytes")>>

AuthenticateRequest ==
    Class(3, FALSE, AuthenticateRequestWrites, AuthenticateRequestReads)

Tokens == <<F("authToken", "Long"), F("sessionId", "Long")>>

AuthenticateResponseWrites == <<F("successFlag", "Boolean")>> \o Tokens

AuthenticateResponseReads ==
    <<F("successFlag", "Boolean"),
      If("successFlag", {FALSE}, <<F("errorStatus", "Int")>>)>>
    \o Tokens \o <<F("serverCertBuffer", "Bytes")>>

AuthenticateResponse ==
    Class(4, FALSE, AuthenticateResponseWrites, AuthenticateResponseReads)

\* The tokens of the header once more; they must have been given.
TokensWrites == <<Insist("authToken", -1, "IOException"),
                  Insist("sessionId", -1, "IOException")>> \o Tokens

AuthenticatedPayload == TokensWrites
AuthenticatedMessage ==
    Class(-100, FALSE, AuthenticatedPayload, AuthenticatedPayload)

DisconnectChannelPayload == TokensWrites
DisconnectChannelRequest ==
    Class(40, FALSE, DisconnectChannelPayload, DisconnectChannelPayload)

ExceptionPayload == <<F("exceptionType", "Byte"), F("exceptionMsg", "UTF")>>
ExceptionMessage == Class(100, FALSE, ExceptionPayload, ExceptionPayload)

TerminatedPayload == <<F("exceptionType", "Byte"), F("exceptionMsg", "UTF")>>
SessionForcefullyTerminated ==
    Class(41, FALSE, TerminatedPayload, TerminatedPayload)

-----------------------------------------------------------------------------
(* Transactions                                                            *)

BeginTransactionResponsePayload == <<F("transactionId", "Long")>>
BeginTransactionResponse ==
    Class(6, FALSE, BeginTransactionResponsePayload,
          BeginTransactionResponsePayload)

\* A section of a commit: only if its list is not empty.
Section(opcode, list, layout) ==
    Unless(list, {<<>>}, <<Const("Short", OpCodes[opcode]),
                           Many(list, "Int", layout)>>)

\* All descriptors are written, and the count is that of the new ones, whose
\* ids are negative.  An entity is a node or an edge.
CommitTransactionRequestWrites(gmd) ==
    LET entity == <<Switch("entityKind", (2 :> NodeWrites(gmd))
                                         @@ (3 :> EdgeWrites(gmd)), "none")>>
    IN  <<Sized(<<Const("Int", 0),
                  Unless("descriptors", {<<>>},
                         <<Const("Short", OpCodes["descriptors"]),
                           F("newDescriptors", "Int"),
                           Each("descriptors", AttributeDescriptorWrites)>>),
                  Section("added", "addedList", entity),
                  Section("updated", "updatedList", entity),
                  Section("removed", "removedList", entity)>>)>>

CommitTransactionRequest(gmd) ==
    Class(7, FALSE, CommitTransactionRequestWrites(gmd), Nothing)

\* The exception gets a message, if it can be read.  The entities are read
\* later from where they stand, but the loop goes on over them.
CommitTransactionResponseReads ==
    <<Skip("Int"), Skip("Int"), F("status", "Int"),
      Refuse("status", {0}, "TransactionException"),
      Sections((OpCodes["descriptors"] :>
                    <<Numbers("attrDescIdList", <<"Int", "Int">>)>>)
               @@ (OpCodes["added"] :>
                    <<Numbers("addedIdList", <<"Long", "Long", "Long">>)>>)
               @@ (OpCodes["updated"] :>
                    <<Numbers("updatedIdList", <<"Long", "Long">>)>>)
               @@ (OpCodes["removed"] :> <<Numbers("removedIdList", <<"Long">>)>>)
               @@ (OpCodes["entities"] :> <<Peek("entityCount", "Int")>>))>>

CommitTransactionResponse ==
    Class(8, FALSE, Nothing, CommitTransactionResponseReads)

-----------------------------------------------------------------------------
(* Metadata and administration                                             *)

\* Groups of descriptors, node types and edge types.
MetadataResponseReads ==
    <<More("IOException"),
      Groups((0 :> [name |-> "attrDescList", layout |-> AttributeDescriptorReads,
                    drop |-> FALSE])
             @@ (1 :> [name |-> "nodeTypeList", layout |-> NodeTypeReads,
                       drop |-> TRUE])
             @@ (2 :> [name |-> "edgeTypeList", layout |-> EdgeTypeReads,
                       drop |-> FALSE]))>>

MetadataResponse == Class(20, FALSE, Nothing, MetadataResponseReads)

AdminRequest  == Class(15, TRUE, AdminRequestWrites, Nothing)
AdminResponse == Class(16, FALSE, Nothing, AdminResponseReads)

-----------------------------------------------------------------------------
(* Reading entities                                                        *)

\* The setters of GetEntityRequest and QueryRequest keep the batch, the depth
\* and the limit in the range of a short.
Limits == <<F("fetchSize", "Int"), F("batchSize", "Short"),
            F("traversalDepth", "Short"), F("edgeLimit", "Short")>>

\* 0 get, 1 get by id, 2 get multiples; 10 continue, 20 close.
GetEntityRequestWrites(gmd) ==
    <<F("commandType", "Short"), F("resultId", "Int"),
      If("commandType", {0, 1, 2}, Limits \o CompositeKeyWrites(gmd))>>

GetEntityRequest(gmd) == Class(21, TRUE, GetEntityRequestWrites(gmd), Nothing)

\* The entities follow; their count is read again with them.
GetEntityResponseReads ==
    <<More("IOException"), F("resultId", "Int"), Peek("totalCount", "Int")>>

\* The entities of GetEntity; those of GetEntities have a flag before the kind.
EntityStream(gmd) ==
    <<Many("entities", "Int",
           <<F("entityKind", "Byte"),
             Unless("entityKind", {0},
                    <<F("id", "Long"),
                      Switch("entityKind", (2 :> NodeReads(gmd))
                                           @@ (3 :> EdgeReads(gmd)), "none")>>)>>)>>

GetEntityResponse == Class(22, FALSE, Nothing, GetEntityResponseReads)

\* Commands: 1 create, 2 execute, 3 execute by id, 4 close.
QueryRequestWrites ==
    <<Const("Int", 1), Const("Int", 1), F("command", "Int")>> \o Limits
    \o <<If("sortAttrName", {<<>>}, <<Const("Boolean", FALSE)>>),
         Unless("sortAttrName", {<<>>},
                <<Const("Boolean", TRUE), F("sortAttrName", "UTF"),
                  F("sortOrderDsc", "Boolean"), F("sortResultLimit", "Int")>>),
         If("command", {1, 2},
            <<Optional("queryExpr"), Optional("edgeExpr"),
              Optional("traverseExpr"), Optional("endExpr")>>),
         If("command", {3, 4}, <<F("queryHashId", "Long")>>)>>

QueryRequest == Class(11, FALSE, QueryRequestWrites, Nothing)

QueryResponseReads ==
    <<More("ProtocolNotSupported"), Skip("Int"), Skip("Int"), F("result", "Int"),
      F("queryHashId", "Long"), F("syntax", "Byte"), F("resultCount", "Int"),
      If("syntax", {1}, <<F("totalCount", "Int")>>)>>

QueryResponse == Class(12, FALSE, Nothing, QueryResponseReads)

\* The decrypt flag is not read back.
GetLargeObjectRequestWrites == <<F("entityId", "Long"), F("decryptFlag", "Boolean")>>
GetLargeObjectRequestReads  == <<F("entityId", "Long")>>

GetLargeObjectRequest ==
    Class(23, TRUE, GetLargeObjectRequestWrites, GetLargeObjectRequestReads)

\* The chunks of the object are put together as they come.
GetLargeObjectResponseReads ==
    <<F("status", "Int"), Refuse("status", {0}, "ProtocolNotSupported"),
      F("entityId", "Long"), F("hasData", "Boolean"),
      If("hasData", {TRUE}, <<Many("chunks", "Int", <<F("chunk", "Bytes")>>)>>)>>

GetLargeObjectResponse == Class(24, TRUE, Nothing, GetLargeObjectResponseReads)

\* The request has the verb of its response.
DecryptBufferRequestWrites ==
    <<Insist("encryptedBuffer", "nil", "IOException"), F("encryptedBuffer", "Bytes")>>
DecryptBufferRequest == Class(45, FALSE, DecryptBufferRequestWrites, Nothing)

DecryptBufferResponseReads == <<F("decryptedBuffer", "Bytes")>>
DecryptBufferResponse == Class(45, FALSE, Nothing, DecryptBufferResponseReads)
=============================================================================
