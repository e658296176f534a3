------------------------------ MODULE MCMessages ------------------------------
(***************************************************************************)
(* Messages with which Exchange is checked: of every class at least one,   *)
(* so that each branch of the payloads is taken: an error and none, empty  *)
(* and full lists, known and unknown names, what the server leaves out.    *)
(***************************************************************************)
EXTENDS TLC, Sequences, Integers

Header == [sequenceNo |-> 3, timestamp |-> 4, requestId |-> 5, authToken |-> 6,
           sessionId |-> 7]
H(b) == b @@ Header
Empty == "a" :> 1
Desc(i, t) == [sysType |-> 0, attributeId |-> i, name |-> <<97, i>>, attrType |-> t,
               isArray |-> FALSE, isEncrypted |-> FALSE]
Number(i) == [precision |-> 20, scale |-> 5] @@ Desc(i, 9)
NodeType(name) == [sysType |-> 1, id |-> 4, name |-> name,
                   attributes |-> <<[name |-> <<97>>]>>, pKeys |-> <<[name |-> <<97>>]>>,
                   idxIds |-> <<>>, numEntries |-> 9]
EdgeType == [sysType |-> 2, id |-> 5, name |-> <<101>>, attributes |-> <<>>,
             fromTypeId |-> 4, toTypeId |-> 4, direction |-> 1, numEntries |-> 0]
Attr(i, v) == [attrId |-> i, isNull |-> FALSE, value |-> v]
Null(i) == [attrId |-> i, isNull |-> TRUE]
NodeB(attrs) == [entityKind |-> 2, isNew |-> TRUE, kind |-> 2, virtualId |-> -1,
                version |-> 0, typeId |-> 4, modified |-> attrs,
                newEdges |-> <<[nodeId |-> -1]>>]
EdgeB == [entityKind |-> 3, isNew |-> TRUE, kind |-> 3, virtualId |-> -2,
                version |-> 0, typeId |-> 5, modified |-> <<>>, direction |-> 1,
                from |-> -1, to |-> 8]
\* Entities as the server sends them.
AllTypes ==
    <<Attr(1, <<65>>), Attr(2, 200), Attr(3, TRUE), Attr(4, 9), Attr(5, 70),
      Attr(6, -3), Attr(7, -70000), Attr(8, 5), Attr(9, 6),
      [attrId |-> 10, isNull |-> FALSE, precision |-> 20, scale |-> 5, value |-> <<52>>],
      [attrId |-> 12, isNull |-> FALSE, entityId |-> 80],
      [attrId |-> 13, isNull |-> FALSE, entityId |-> 81]>>
Timestamp == [attrId |-> 11, isNull |-> FALSE, attrType |-> 13, year |-> 3,
              month |-> 2, day |-> 1, hour |-> 4, minute |-> 5, second |-> 6,
              micros |-> 7]
Fetched(i, attrs, edges) ==
    [entityKind |-> 2, id |-> i, isNew |-> FALSE, kind |-> 2, entityId |-> i,
     version |-> 1, typeId |-> 4, attributes |-> attrs, edges |-> edges]
FetchedEdge(i, attrs) ==
    [entityKind |-> 3, id |-> i, isNew |-> FALSE, kind |-> 3, entityId |-> i,
     version |-> 1, typeId |-> 5, attributes |-> attrs, direction |-> 1,
     from |-> 2, to |-> 2]
Lim == [fetchSize |-> 100, batchSize |-> 50, traversalDepth |-> 3, edgeLimit |-> 100]
Commit(d, a, u, r) ==
   H([descriptors |-> d, newDescriptors |-> Len(d), addedList |-> a,
      updatedList |-> u, removedList |-> r])
CommitR(st, msg, d, a, u, r) ==
   H([status |-> st, message |-> msg, attrDescIdList |-> d, addedIdList |-> a,
      updatedIdList |-> u, removedIdList |-> r])
Samples ==
  [Ping |-> {Header, [Header EXCEPT !.timestamp = -1], [Header EXCEPT !.authToken = -1]},
   HandShakeRequest |-> {H([handshakeType |-> 1, sslMode |-> FALSE, challenge |-> 77]),
                         H([handshakeType |-> 2, sslMode |-> TRUE, challenge |-> -1])},
   HandShakeResponse |-> {H([responseStatus |-> 1, challenge |-> 78]),
                          H([responseStatus |-> 3, challenge |-> 78, errorMessage |-> <<65, 66>>])},
   AuthenticateRequest |-> {H([clientId |-> <<65>>, inboxAddr |-> <<>>,
                               userName |-> <<66, 67>>, password |-> <<1, 2>>])},
   AuthenticateResponse |-> {H([successFlag |-> TRUE, serverCertBuffer |-> <<3, 4>>]),
                             H([successFlag |-> FALSE, errorStatus |-> 2, serverCertBuffer |-> <<>>])},
   Authenticated |-> {Header},
   BeginTransactionRequest |-> {Header},
   BeginTransactionResponse |-> {H([transactionId |-> 300])},
   CommitTransactionRequest |->
      {Commit(<<>>, <<>>, <<>>, <<>>),
       Commit(<<Desc(2, 10), Number(3)>>, <<NodeB(<<Attr(1, <<65>>), Null(2)>>), EdgeB>>, <<>>, <<EdgeB>>)},
   CommitTransactionResponse |->
      {CommitR(0, <<>>, <<>>, <<>>, <<>>, <<>>),
       CommitR(0, <<>>, <<-2, 40>>, <<-1, 50, 1, -2, 51, 1>>, <<7, 2>>, <<8, 9>>),
       CommitR(5, <<65>>, <<>>, <<>>, <<>>, <<>>)},
   RollbackTransactionRequest |-> {Header},
   RollbackTransactionResponse |-> {Header},
   QueryRequest |-> {H(Lim @@ [command |-> c, sortAttrName |-> s, sortOrderDsc |-> TRUE,
                               sortResultLimit |-> 9, queryExpr |-> <<64>>, edgeExpr |-> <<>>,
                               traverseExpr |-> <<>>, endExpr |-> <<>>, queryHashId |-> 12])
                        : c \in {1, 3}, s \in {<<>>, <<97>>}},
   QueryResponse |-> {H([result |-> 0, queryHashId |-> -5, syntax |-> 1, resultCount |-> 2,
                         totalCount |-> 9]),
                      H([result |-> 2, queryHashId |-> 6, syntax |-> 2, resultCount |-> 0])},
   TraverseRequest |-> {Header},
   TraverseResponse |-> {Header},
   AdminRequest |-> {H([command |-> c, level |-> 1, component |-> 2])
                        : c \in {6, 13, 14, 17, 1}},
   AdminResponse |-> {H([resultId |-> 1, command |-> 9]),
          H([resultId |-> 1, command |-> 6,
             users |-> <<[sysType |-> 4, id |-> 1, name |-> <<97>>, password |-> <<9>>,
                          role |-> <<98>>], [sysType |-> 5, id |-> 2, name |-> <<99>>]>>])},
   MetadataRequest |-> {Header, [Header EXCEPT !.timestamp = -1]},
   MetadataResponse |-> {H([count |-> 5, attrDescList |-> <<Desc(1, 10), Number(2)>>,
                            nodeTypeList |-> <<NodeType(<<110>>), NodeType(<<36, 110>>)>>,
                            edgeTypeList |-> <<EdgeType>>])},
   GetEntityRequest |-> {H(Lim @@ [commandType |-> c, resultId |-> 0, keyName |-> <<>>,
                                   attributes |-> <<Attr(1, <<65>>)>>])
                            : c \in {0, 10}},
   GetEntityResponse |->
      {H([resultId |-> 4, totalCount |-> Len(e), entities |-> e]) :
          e \in {<<>>, <<Fetched(2, AllTypes, <<[edgeId |-> 31]>>),
                         FetchedEdge(31, <<Attr(2, 7)>>)>>,
                 <<Fetched(2, <<Null(1)>>, <<>>)>>, <<Fetched(2, <<Timestamp>>, <<>>)>>}},
   GetLargeObjectRequest |-> {H([entityId |-> 90, decryptFlag |-> TRUE])},
   GetLargeObjectResponse |->
      {H([status |-> 0, entityId |-> 90, hasData |-> FALSE]),
       H([status |-> 1, entityId |-> 90, hasData |-> FALSE]),
       H([status |-> 0, entityId |-> 90, hasData |-> TRUE,
          chunks |-> <<[chunk |-> <<1, 2>>], [chunk |-> <<3>>]>>])},
   DumpStacktraceRequest |-> {Header},
   DisconnectChannelRequest |-> {Header, [Header EXCEPT !.authToken = -1]},
   SessionForcefullyTerminated |-> {H([exceptionType |-> 1, exceptionMsg |-> <<75>>])},
   DecryptBufferRequest |-> {H([encryptedBuffer |-> b]) : b \in {<<8, 9>>, <<>>}},
   DecryptBufferResponse |-> {H([decryptedBuffer |-> <<8, 9>>])},
   Exception |-> {H([exceptionType |-> 2, exceptionMsg |-> <<65, 200>>])},
   Invalid |-> {Header}]
Gmd == (1 :> 10) @@ (2 :> 5) @@ (3 :> 1) @@ (4 :> 2) @@ (5 :> 3) @@ (6 :> 4)
       @@ (7 :> 6) @@ (8 :> 7) @@ (9 :> 8) @@ (10 :> 9) @@ (11 :> 13) @@ (12 :> 14)
       @@ (13 :> 15)
OpCodes == [descriptors |-> 16, added |-> 17, updated |-> 18, removed |-> 19, entities |-> 103]
=============================================================================
