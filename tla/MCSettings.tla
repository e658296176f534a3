----------------------------- MODULE MCSettings -----------------------------
(***************************************************************************)
(* URLs and settings that an application may pass.  Words are what lies    *)
(* between the signs of a text; the names of a host are words as well.     *)
(***************************************************************************)
EXTENDS FiniteSets, SequencesExt

CONSTANT NotSaid

SettingConfigs    == {"userID", "password", "ftHosts", "sendSize", "verifyDBName"}
SettingAliasFirst == {"password", "ftHosts", "sendSize"}
SettingPorts      == {"8222", "8700"}

SettingDefaults ==
    [c \in SettingConfigs |-> CASE c = "sendSize"     -> <<"122">>
                                [] c = "verifyDBName" -> <<"false">>
                                [] OTHER              -> <<>>]

SettingSpelling ==
    LET is(c, which, exact) == [name |-> <<c, which>>, exact |-> exact]
    IN  [userID        |-> is("userID", "alias", TRUE),
         channelUserID |-> is("userID", "name", TRUE),
         password      |-> is("password", "alias", TRUE),
         ftHosts       |-> is("ftHosts", "alias", TRUE),
         sendSize      |-> is("sendSize", "alias", TRUE),
         SENDSIZE      |-> is("sendSize", "alias", FALSE),
         channelSendSize |-> is("sendSize", "name", TRUE),
         verifyDBName  |-> is("verifyDBName", "alias", TRUE),
         tlsVerifyDBName |-> is("verifyDBName", "name", TRUE)]

Pair(w, v) == [word |-> w, value |-> v]

-----------------------------------------------------------------------------
PairsSaid ==
    {Pair("userID", <<"eve">>), Pair("channelUserID", <<"eve">>),
     Pair("password", <<"pw">>), Pair("sendSize", <<"64">>),
     Pair("SENDSIZE", <<"32">>), Pair("channelSendSize", <<"256">>),
     Pair("tlsVerifyDBName", <<"true">>),
     Pair("ftHosts", <<"foo1", ",", "foo2">>),
     Pair("ftHosts", <<"foo1", ":", "8700">>)}

\* No name twice, in any case.
PairLists ==
    {<<>>} \cup {<<p>> : p \in PairsSaid}
    \cup {<<p, q>> : <<p, q>> \in {pq \in PairsSaid \X PairsSaid :
              SettingSpelling[pq[1].word].name # SettingSpelling[pq[2].word].name}}

Environments ==
    {env \in SUBSET {Pair("sendSize", <<"1">>), Pair("SENDSIZE", <<"2">>),
                     Pair("channelSendSize", <<"3">>), Pair("userID", <<"bob">>),
                     Pair("channelUserID", <<"bob">>), Pair("verifyDBName", <<"on">>)} :
        Cardinality(env) <= 2}

Users == {<<>>, <<"scott">>}

\* The IPv6 hosts are split after "[fe", after the opening bracket, and in front
\* of a word that is no number.
Hosts == {<<"foo">>, <<"[", "f", "e", ":", ":", "1", "]">>, <<"[", ":", ":", "1", "]">>,
          <<"[", "f", "e", ":", "db8", ":", ":", "1", "]">>}

SaidUrls ==
    [protocol : {"tcp", "ssl"}, user : Users, host : Hosts,
     port : {<<>>, <<"8700">>}, pairs : PairLists]

PlainUrls == {s \in SaidUrls : s.protocol = "tcp" /\ s.port = <<"8700">>
                                 /\ s.host = <<"foo">>}

\* The text of a URL that says this, in the form that CreateConnection
\* documents: <protocol>://[user@]host[:port]/{name=value;...}, where the doc
\* writes name:value as well.
Render(said) ==
    LET pair(p) == <<p.word, "=">> \o p.value
    IN  <<said.protocol, ":", "/", "/">>
        \o (IF said.user = <<>> THEN <<>> ELSE said.user \o <<"@">>)
        \o said.host
        \o (IF said.port = <<>> THEN <<>> ELSE <<":">> \o said.port)
        \o (IF said.pairs = <<>> THEN <<>>
            ELSE <<"/", "{">> \o pair(said.pairs[1])
                 \o FlattenSeq([i \in DOMAIN Tail(said.pairs) |->
                                   <<";">> \o pair(said.pairs[i + 1])])
                 \o <<"}">>)

-----------------------------------------------------------------------------
\* What may stand where a URL should: pieces of one, and a host with a port,
\* as ftHosts has them.
Pieces ==
    LET tcp == <<"tcp", ":", "/", "/">>
    IN  {<<"foo">>, <<"foo", ":", "8700">>, tcp, <<":">>, <<":", "/", "/", "foo">>,
         <<"tcp", ":", "/", "foo">>}
        \cup {tcp \o rest : rest \in
                {<<"/", "{", "}">>, <<"foo", "/">>, <<"foo", "/", "{">>,
                 <<"foo", "/", "{", "}">>, <<"foo", "/", "{", "sendSize", "}">>,
                 <<"foo", "/", "{", "sendSize", "=", "64", ";", "}">>,
                 <<"foo", "/", "sendSize", "=", "64">>,
                 <<"foo", "/", "{", "sendSize", "=", "64", "=", "}">>,
                 <<"foo", ":", "port">>, <<"foo", ":">>, <<":", "8700">>,
                 <<"scott", "@">>, <<"scott", "@", "/">>, <<"@", "foo">>,
                 <<"[", ":", ":", "1", "]">>}}

-----------------------------------------------------------------------------
Passed(said, text, env, user, hosts) ==
    [said |-> said, url |-> text, env |-> env, user |-> user, pwd |-> user,
     defaultUser |-> <<"admin">>, ftHosts |-> hosts]

SettingsGiven ==
    {Passed(s, Render(s), {}, <<>>, FALSE) : s \in SaidUrls}
    \cup {Passed(s, Render(s), env, user, FALSE) :
            s \in PlainUrls, env \in Environments, user \in {<<>>, <<"ann">>}}
    \cup {Passed(NotSaid, text, {}, <<>>, FALSE) : text \in Pieces}
    \cup {Passed(NotSaid, <<>>, env, user, hosts) :
            env \in Environments, user \in {<<>>, <<"ann">>}, hosts \in BOOLEAN}
    \cup {Passed(s, Render(s), {}, <<>>, TRUE) : s \in PlainUrls}
    \cup {[g EXCEPT !.defaultUser = <<>>] : g \in
            {Passed(NotSaid, <<>>, env, <<>>, FALSE) : env \in Environments}}
=============================================================================
