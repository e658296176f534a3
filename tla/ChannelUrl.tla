----------------------------- MODULE ChannelUrl -----------------------------
(***************************************************************************)
(* The URLs of channels (client/goAPI/channel/LinkUrl.go), as texts: words *)
(* and the signs between them.  What ends the program has the outcome      *)
(* "panic": an index that a split has not got, a slice that ends before it *)
(* begins.                                                                 *)
(***************************************************************************)
EXTENDS SortedProperties, Integers, SequencesExt

CONSTANTS
    Ports,      \* the words that are numbers
    Spelling    \* from words to [name, exact]: a configuration's name, and
                \* whether it is spelled as it should be

gDefaultHost == <<"localhost">>
gDefaultPort == <<"8222">>
Protocols    == {"http", "https", "ssl"}

Has(s, sign) == sign \in ToSet(s)

\* The pieces between separators of n signs that begin at the places.
Pieces(s, n, at) ==
    [i \in 1..(Len(at) + 1) |->
        SubSeq(s, IF i = 1 THEN 1 ELSE at[i - 1] + n,
                  IF i > Len(at) THEN Len(s) ELSE at[i] - 1)]

Split(s, sep) ==
    Pieces(s, Len(sep),
           SetToSortSeq({i \in 1..(Len(s) - Len(sep) + 1) :
                           SubSeq(s, i, i + Len(sep) - 1) = sep}, <))

Outcome(o) == [outcome |-> o]

-----------------------------------------------------------------------------
\* Any of the signs of "://" counts as the end of a protocol.
ParseProtocol(s) ==
    IF s[1] \notin {":", "/"} /\ (Has(s, ":") \/ Has(s, "/"))
    THEN LET parts == Split(s, <<":", "/", "/">>)
         IN  IF Len(parts) = 1 THEN Outcome("panic")
             ELSE [outcome  |-> "ok", rest |-> parts[2],
                   protocol |-> IF parts[1] \in {<<p>> : p \in Protocols}
                                THEN parts[1][1] ELSE "tcp"]
    ELSE [outcome |-> "ok", rest |-> s, protocol |-> "tcp"]

\* Mutant: the second piece is taken without a look whether there is one.
ParseHostAndPortAlways(s) ==
    LET parts == Split(s, <<":">>)
    IN  IF s = <<>> THEN Outcome("error")
        ELSE IF Len(parts) = 1 THEN Outcome("panic")
        ELSE [outcome |-> "ok", isIPv6 |-> FALSE, port |-> parts[2], host |-> parts[1]]

\* The port is the second piece between colons, whatever they belong to.
HostAndPort(parts) ==
    LET host  == parts[1]
        port  == IF Len(parts) = 1 \/ parts[2] = <<>> THEN gDefaultPort ELSE parts[2]
        named(h) == IF h = <<>> THEN gDefaultHost ELSE h
    IN  IF port \notin {<<p>> : p \in Ports} THEN Outcome("error")
        ELSE IF host # <<>> /\ host[1] = "["
        THEN IF Len(host) = 1 THEN Outcome("panic")
             ELSE [outcome |-> "ok", isIPv6 |-> TRUE, port |-> port,
                   host |-> named(SubSeq(host, 2, Len(host) - 1))]
        ELSE [outcome |-> "ok", isIPv6 |-> FALSE, port |-> port, host |-> named(host)]

ParseHostAndPort(s) ==
    IF s = <<>> THEN Outcome("error") ELSE HostAndPort(Split(s, <<":">>))

\* Mutant: the host is taken for the user, and the user for the host.
UserAndHostAndPortSwapped(parts, users) ==
    LET alone == Len(users) = 1
        hp == ParseHostAndPort(IF parts[1] = <<>> THEN gDefaultHost ELSE users[1])
    IN  IF hp.outcome # "ok" THEN hp
        ELSE [user |-> IF alone THEN <<>> ELSE users[2],
              rest |-> IF Len(parts) = 1 THEN <<>> ELSE parts[2]] @@ hp

\* The text after the first slash is that of the properties; an empty host is
\* the default one, but not after a user.
UserAndHostAndPort(parts, users) ==
    LET alone == Len(users) = 1
        hp == ParseHostAndPort(IF ~alone THEN users[2]
                               ELSE IF parts[1] = <<>> THEN gDefaultHost ELSE parts[1])
    IN  IF hp.outcome # "ok" THEN hp
        ELSE [user |-> IF alone THEN <<>> ELSE users[1],
              rest |-> IF Len(parts) = 1 THEN <<>> ELSE parts[2]] @@ hp

ParseUserAndHostAndPort(s) ==
    IF s = <<>> THEN Outcome("error")
    ELSE LET parts == Split(s, <<"/">>)
         IN  UserAndHostAndPort(parts, Split(parts[1], <<"@">>))

PartsAfter(p) ==
    IF p.outcome # "ok" THEN p
    ELSE LET u == ParseUserAndHostAndPort(p.rest)
         IN  IF u.outcome # "ok" THEN u ELSE u @@ [protocol |-> p.protocol]

UrlParts(s) == IF s = <<>> THEN Outcome("error") ELSE PartsAfter(ParseProtocol(s))

-----------------------------------------------------------------------------
NameOf(text) ==
    IF text \in {<<w>> : w \in DOMAIN Spelling} THEN Spelling[text[1]]
    ELSE [name |-> text, exact |-> TRUE]

NameValues(pairs) ==
    LET step(props, pair) ==
            LET kv == Split(pair, <<"=">>)
            IN  AddProperty(props, NameOf(kv[1]).name, NameOf(kv[1]).exact, kv[2])
    IN  FoldLeft(step, NewSortedProperties, pairs)

ftHosts == <<<<"ftHosts", "alias">>, <<"ftHosts", "name">>>>

\* A host that cannot be read is a nil URL in the list.
FtUrls(props) ==
    LET hosts == IF DoesPropertyExist(props, ftHosts[1])
                 THEN SelectSeq(Split(GetProperty(props, ftHosts, <<>>), <<",">>),
                                LAMBDA h : h # <<>>)
                 ELSE <<>>
    IN  [i \in DOMAIN hosts |-> UrlParts(hosts[i])]

WithFtUrls(props, urls) ==
    IF \E i \in DOMAIN urls : urls[i].outcome = "panic" THEN Outcome("panic")
    ELSE [outcome |-> "ok", props |-> props, ftUrls |-> urls]

PropertiesOf(pairs) ==
    IF \E i \in DOMAIN pairs : ~Has(pairs[i], "=") THEN Outcome("panic")
    ELSE LET props == NameValues(pairs) IN WithFtUrls(props, FtUrls(props))

\* The first and the last sign are taken off, whatever they are.  The error for
\* properties without a brace is reported through an error that is nil.
ParseProperties(s) ==
    IF s[1] # "{" \/ Len(s) = 1 THEN Outcome("panic")
    ELSE PropertiesOf(Split(SubSeq(s, 2, Len(s) - 1), <<";">>))

\* The user becomes a property of the URL, also when there is none.
LinkUrl(u, p) ==
    IF p.outcome # "ok" THEN p
    ELSE [outcome |-> "ok", protocol |-> u.protocol, user |-> u.user,
          host |-> u.host, port |-> u.port, isIPv6 |-> u.isIPv6,
          ftUrls |-> p.ftUrls,
          props |-> AddProperty(p.props, <<"userID", "name">>, TRUE, u.user)]

UrlWithProperties(u) ==
    IF u.outcome # "ok" THEN u
    ELSE LinkUrl(u, IF u.rest = <<>> THEN WithFtUrls(NewSortedProperties, <<>>)
                    ELSE ParseProperties(u.rest))

NewLinkUrl(s) == UrlWithProperties(UrlParts(s))
=============================================================================
