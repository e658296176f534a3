--------------------------- MODULE AdminPayloads ---------------------------
(***************************************************************************)
(* What the requests of an administration connection                       *)
(* (client/goAPI/admin) write, and what its responses are read as.  The    *)
(* client only writes the requests and only reads the responses.           *)
(***************************************************************************)
EXTENDS Layouts

ShowUsers        == 6
ShowAttrDescs    == 7
ShowIndices      == 8
ShowTypes        == 9
ShowInfo         == 10
ShowConnections  == 11
SetLogLevel      == 13
StopServer       == 14
CheckpointServer == 15
KillConnection   == 17

-----------------------------------------------------------------------------
(* AdminHelper.go: one extract function for each kind of answer            *)

CacheInfo ==
    <<F("dataMaxEntries", "Int"), F("dataEntries", "Int"), F("dataHits", "Long"),
      F("dataMisses", "Long"), F("dataMaxMemory", "Long"),
      F("indexMaxEntries", "Int"), F("indexEntries", "Int"),
      F("indexHits", "Long"), F("indexMisses", "Long"),
      F("indexMaxMemory", "Long")>>

ConnectionList ==
    <<Many("connections", "Long",
           <<F("listener", "UTF"), F("clientId", "UTF"), F("session", "Long"),
             F("user", "UTF"), F("remote", "UTF"), F("created", "Long")>>)>>

DatabaseInfo ==
    <<F("dbSize", "Long"), F("dataSegments", "Int"), F("dataSize", "Long"),
      F("dataUsed", "Long"), F("dataFree", "Long"), F("dataBlock", "Int"),
      F("indexSegments", "Int"), F("indexSize", "Long"), F("indexUsed", "Long"),
      F("indexFree", "Long"), F("indexBlock", "Int")>>

\* The attribute type of a number is 9.
DescriptorList ==
    <<Many("descriptors", "Int",
           <<F("sysType", "Byte"), F("attrId", "Int"), F("name", "UTF"),
             F("attrType", "Byte"), F("isArray", "Boolean"),
             F("isEncrypted", "Boolean"),
             If("attrType", {9}, <<F("precision", "Short"), F("scale", "Short")>>)>>)>>

IndexList ==
    <<Many("indices", "Int",
           <<F("sysType", "Byte"), F("id", "Int"), F("name", "UTF"),
             F("isUnique", "Boolean"),
             Many("attributes", "Int", <<F("name", "UTF")>>),
             Many("nodeTypes", "Int", <<F("name", "UTF")>>),
             F("block", "Int")>>)>>

MemoryInfo ==
    <<F("processFree", "Long"), F("processUsage", "Int"), F("processMax", "Long"),
      F("sharedFile", "UTF"), F("sharedFree", "Long"), F("sharedUsage", "Int"),
      F("sharedMax", "Long")>>

NetListeners ==
    <<Many("listeners", "Long",
           <<F("name", "Bytes"), F("current", "Int"), F("max", "Int"),
             F("port", "Bytes")>>)>>

ServerStatus ==
    <<F("serverName", "UTF"), F("status", "Byte"), F("process", "Int"),
      F("duration", "Long"), F("version", "Long")>>

\* The average is a double.
TransactionsInfo ==
    <<F("processors", "Short"), F("processed", "Long"), F("successful", "Long"),
      F("average", "Long"), F("pending", "Long"), F("logQueue", "Int")>>

ServerInfo ==
    ServerStatus \o MemoryInfo \o NetListeners \o TransactionsInfo \o CacheInfo
    \o DatabaseInfo

\* Only a principal, type 4, has a password and a role.
UserList ==
    <<Many("users", "Int",
           <<F("sysType", "Byte"), F("id", "Int"), F("name", "UTF"),
             If("sysType", {4}, <<F("password", "Bytes"), F("role", "UTF")>>)>>)>>

-----------------------------------------------------------------------------
(* The payloads *)

Command == <<Const("Int", 0), Const("Int", 0), F("command", "Int")>>

\* Creating things, describing them and disconnecting clients writes nothing.
\* The session that is killed is the one in the request's own header.
AdminRequestWrites ==
    <<Switch("command",
             [c \in {ShowUsers, ShowAttrDescs, ShowIndices, ShowTypes, ShowInfo,
                     ShowConnections, StopServer, CheckpointServer} |-> Command]
             @@ (SetLogLevel :> Command \o <<F("level", "Short"),
                                             F("component", "Long")>>)
             @@ (KillConnection :> Command \o <<F("sessionId", "Long"),
                                                Const("Boolean", TRUE)>>),
             "none")>>

AdminResponseReads ==
    <<F("resultId", "Int"), F("command", "Int"),
      Switch("command",
             (ShowUsers :> UserList) @@ (ShowAttrDescs :> DescriptorList)
             @@ (ShowIndices :> IndexList) @@ (ShowInfo :> ServerInfo)
             @@ (ShowConnections :> ConnectionList),
             "none")>>
=============================================================================
