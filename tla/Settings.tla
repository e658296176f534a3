------------------------------ MODULE Settings ------------------------------
(***************************************************************************)
(* How CreateConnectionPoolWithType (client/goAPI/connection/              *)
(* DefaultConnectionFactory.go) puts together the settings of a pool: the  *)
(* defaults, what the application passes as its environment, the           *)
(* properties of the URL, and the user and the password.  A setting has a  *)
(* full name, "tgdb.channel.userID", and an alias, "userID".               *)
(***************************************************************************)
EXTENDS ChannelUrl

CONSTANTS
    Configs,     \* the configurations
    AliasFirst,  \* those whose alias is sorted before "tgdb."
    Default,     \* their default values, texts
    Given,       \* what an application may pass: records of said, url, user,
                 \* pwd, env, defaultUser and ftHosts
    NotSaid      \* said of a URL that is not one of the documented form

\* The user has no default, and his alias is sorted behind "tgdb.".
SettingsAssumption ==
    /\ {"userID", "password"} \subseteq Configs
    /\ "userID" \notin AliasFirst /\ Default["userID"] = <<>>
    /\ \A g \in Given : g.said # NotSaid => g.url # <<>>
    /\ \A w \in DOMAIN Spelling :
          /\ Spelling[w] = [name |-> Spelling[w].name, exact |-> Spelling[w].exact]
          /\ Spelling[w].exact \in BOOLEAN

VARIABLES given, phase, waiting, props, url

settingsVars == <<given, phase, waiting, props, url>>

FullName(c) == <<c, "name">>
Alias(c)    == <<c, "alias">>

\* The names of a configuration as they are sorted.
NamesOf(c) == IF c \in AliasFirst THEN <<Alias(c), FullName(c)>>
              ELSE <<FullName(c), Alias(c)>>

SettingsInit ==
    /\ given \in Given
    /\ phase = "start" /\ waiting = given.env
    /\ props = NewSortedProperties /\ url = Outcome("error")

EnvironmentDefaults == [n \in {FullName(c) : c \in Configs} |->
                           [value |-> Default[n[1]], exact |-> TRUE]]

\* GetAsSortedProperties: every configuration under its full name, with its
\* default also where the operating system has a value for it.
AddDefaults ==
    /\ phase = "start"
    /\ props' = EnvironmentDefaults
    /\ phase' = "environment"
    /\ UNCHANGED <<given, waiting, url>>

\* The application's map, in whatever order.
AddEnvironment ==
    /\ phase = "environment"
    /\ \E e \in waiting :
        /\ props' = AddProperty(props, NameOf(<<e.word>>).name,
                                NameOf(<<e.word>>).exact, e.value)
        /\ waiting' = waiting \ {e}
    /\ UNCHANGED <<given, phase, url>>

\* With which every URL begins.  It makes the URLs of the hosts in the operating
\* system's environment, each of which begins with it: the stack overflows.
DefaultLinkUrl ==
    IF given.ftHosts THEN Outcome("panic")
    ELSE [outcome |-> "ok", props |-> NewSortedProperties]

\* A URL that is nil has no properties to ask for.
ParseChannelUrl ==
    /\ phase = "environment" /\ waiting = {}
    /\ url' = IF DefaultLinkUrl.outcome = "panic" \/ given.url = <<>>
              THEN DefaultLinkUrl ELSE NewLinkUrl(given.url)
    /\ phase' = IF url'.outcome = "ok" THEN "url" ELSE "panic"
    /\ UNCHANGED <<given, waiting, props>>

AddUrlProperties ==
    /\ phase = "url"
    /\ props' = AddProperties(props, url.props)
    /\ phase' = "user"
    /\ UNCHANGED <<given, waiting, url>>

\* Mutant: a user that is there already stays.
SetUserOnce(ps, user, defaultUser) ==
    LET u == GetProperty(ps, NamesOf("userID"), IF user = <<>> THEN defaultUser ELSE user)
    IN  IF u = <<>> THEN ps ELSE AddProperty(ps, FullName("userID"), TRUE, u)

SetUser(ps, user, defaultUser) ==
    LET u == IF user = <<>> THEN GetProperty(ps, NamesOf("userID"), defaultUser)
             ELSE user
    IN  IF u = <<>> THEN ps ELSE AddProperty(ps, FullName("userID"), TRUE, u)

SetPassword(ps, pwd) ==
    AddProperty(ps, FullName("password"), TRUE,
                IF pwd = <<>> THEN GetProperty(ps, NamesOf("password"), <<>>) ELSE pwd)

\* Without a user the password is not set either, and nobody is told.
SetUserAndPassword ==
    /\ phase = "user"
    /\ LET u == SetUser(props, given.user, given.defaultUser)
       IN  props' = IF given.user = <<>>
                       /\ GetProperty(props, NamesOf("userID"), given.defaultUser) = <<>>
                    THEN u ELSE SetPassword(u, given.pwd)
    /\ phase' = "done"
    /\ UNCHANGED <<given, waiting, url>>

SettingsNext ==
    \/ AddDefaults \/ AddEnvironment \/ ParseChannelUrl \/ AddUrlProperties
    \/ SetUserAndPassword

SettingsSpec == SettingsInit /\ [][SettingsNext]_settingsVars

-----------------------------------------------------------------------------
(* Properties *)

Setting(c) == GetProperty(props, NamesOf(c), <<>>)

SaysHosts(said) ==
    SelectSeq(said.pairs, LAMBDA p : p.word = "ftHosts")

\* A URL of the form that CreateConnection documents is read as it was meant.
\* Nothing is said of the port where the URL names none: the code takes 8222,
\* and tgdb.channel.defaultPort is documented as 8700.  IPv6 addresses, which are
\* split at their first colon, are left out, and so is what ends the program (see
\* EndsOnlyWhere).
DocumentedUrls ==
    phase = "done" /\ given.said # NotSaid /\ ~Has(given.said.host, ":") =>
        LET s == given.said
        IN  /\ url.protocol = s.protocol /\ url.user = s.user
            /\ url.host = s.host
            /\ s.port # <<>> => url.port = s.port
            /\ \A i \in DOMAIN s.pairs :
                NameOf(<<s.pairs[i].word>>).name # FullName("userID") =>
                    url.props[NameOf(<<s.pairs[i].word>>).name].value = s.pairs[i].value
            /\ SaysHosts(s) # <<>> =>
                [i \in DOMAIN url.ftUrls |-> url.ftUrls[i].host]
                    = SelectSeq(Split(SaysHosts(s)[1].value, <<",">>),
                                LAMBDA h : h # <<>>)

\* A URL of the documented form ends the program only if the operating system or
\* the URL itself names ftHosts, the first always, the second with a port, or if
\* its host is an IPv6 address.
EndsOnlyWhere ==
    phase = "panic" =>
        \/ given.said = NotSaid \/ given.ftHosts \/ Has(given.said.host, ":")
        \/ SaysHosts(given.said) # <<>> /\ Has(SaysHosts(given.said)[1].value, ":")

\* A source of settings: the values it has for a name in any case, and whether it
\* has the name in its exact spelling.
SaidValues(source, n) == {e.value : e \in {x \in source : NameOf(<<x.word>>).name = n}}
Said(source, n)   == \E e \in source : NameOf(<<e.word>>).name = n
Heard(source, n)  == \E e \in source : NameOf(<<e.word>>) = [name |-> n, exact |-> TRUE]

\* Under one name or the other.
NamedIn(source, c) == Said(source, FullName(c)) \/ Said(source, Alias(c))

UrlSource(g) == IF g.said = NotSaid THEN {} ELSE ToSet(g.said.pairs)

\* The user that a pool has, where nothing but the call and the part in front of
\* the URL's host names one: the argument, the user in the URL, the default.
\* Without a URL an environment that names him as tgdb.channel.userID counts for
\* more than the default; of several spellings, the one that is added last.  That
\* a property of the URL names him is documented as well and heard nowhere (see
\* DocumentedUserRule); the environment is not heard next to a URL, though it is
\* said to override, nor under the alias: nothing is said of those here.
UserRule ==
    LET full == SaidValues(given.env, FullName("userID"))
        or(user, other) == IF user # <<>> THEN user ELSE other
    IN  phase = "done" /\ ~NamedIn(UrlSource(given), "userID")
                       /\ (given.url # <<>> => ~NamedIn(given.env, "userID"))
                       /\ (NamedIn(given.env, "userID") => full # {}) =>
            Setting("userID") \in
                IF given.user # <<>> THEN {given.user}
                ELSE IF given.url # <<>> THEN {or(url.user, given.defaultUser)}
                ELSE IF full # {} THEN {or(v, given.defaultUser) : v \in full}
                ELSE {given.defaultUser}

\* The rule for the user as CreateConnection documents it
\* (DefaultConnectionFactory.go:70-75): the argument, the user in front of the
\* URL's host, userID=value in the URL, the default.
DocumentedUserRule ==
    phase = "done" /\ given.said # NotSaid /\ given.env = {} =>
        LET inUrl == SaidValues(UrlSource(given), Alias("userID"))
        IN  Setting("userID") \in
                IF given.user # <<>> THEN {given.user}
                ELSE IF given.said.user # <<>> THEN {given.said.user}
                ELSE IF inUrl # {} THEN inUrl
                ELSE {given.defaultUser}

\* A setting other than the user and the password that one source has, the URL or
\* the environment, counts for more than its default, whatever the order of the
\* map; and its alias, exactly spelled, for more than its full name.  Nothing is
\* said of two cases in which the code does not do what is documented: of a
\* setting that both sources have, for the URL's counts and the environment is
\* said to override it; and of an alias that is sorted behind the full names, for
\* it is not heard, and a URL with verifyDBName is documented.
SourceCounts ==
    phase = "done" /\ (given.said # NotSaid \/ given.url = <<>>) =>
        \A c \in Configs \ {"userID", "password"} :
            LET said == UrlSource(given) \cup given.env
            IN  /\ ~(NamedIn(UrlSource(given), c) /\ NamedIn(given.env, c))
                /\ Said(said, Alias(c)) => c \in AliasFirst
                => Setting(c) \in
                    IF Heard(said, Alias(c)) THEN SaidValues(said, Alias(c))
                    ELSE IF Said(said, FullName(c)) THEN SaidValues(said, FullName(c))
                    ELSE {Default[c]}

\* What the URLs say is what is read of them.
SettingNames == {FullName(c) : c \in Configs} \cup {Alias(c) : c \in Configs}

Reflects(ps, source, n) ==
    /\ n \in DOMAIN ps <=> Said(source, n)
    /\ n \in DOMAIN ps => /\ ps[n].value \in SaidValues(source, n)
                          /\ ps[n].exact = Heard(source, n)

UrlsReadAsSaid ==
    \A g \in Given : g.said # NotSaid =>
        LET u == NewLinkUrl(g.url)
        IN  u.outcome = "ok" =>
                \A n \in SettingNames \ {FullName("userID")} :
                    Reflects(u.props, UrlSource(g), n)
=============================================================================
