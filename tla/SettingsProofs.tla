--------------------------- MODULE SettingsProofs ---------------------------
(***************************************************************************)
(* Proofs about Settings: whose user and whose settings a pool has, for    *)
(* any configurations, environment, spelling and URL.                      *)
(*                                                                         *)
(* The invariant says of every name that is asked for what the list has    *)
(* under it: after the environment's properties, in the order in which     *)
(* they came, and after those of the URL.                                  *)
(***************************************************************************)
EXTENDS Settings, TLAPS

-----------------------------------------------------------------------------
(* The invariant *)

\* The names that have a default.
FullNames == {FullName(c) : c \in Configs}

\* What a list has after the environment's properties were added to the defaults.
AfterEnvironment(ps, source) ==
    \A n \in SettingNames :
        /\ n \in DOMAIN ps <=> n \in FullNames \/ Said(source, n)
        /\ n \in DOMAIN ps =>
              /\ ps[n].value \in IF Said(source, n) THEN SaidValues(source, n)
                                 ELSE {Default[n[1]]}
              /\ ps[n].exact = (n \in FullNames \/ Heard(source, n))

\* What is known of the URL once it was read.
UrlFollows ==
    IF given.url = <<>> THEN url.props = NewSortedProperties
    ELSE /\ url = NewLinkUrl(given.url) /\ url.outcome = "ok"
         /\ FullName("userID") \in DOMAIN url.props
         /\ url.props[FullName("userID")].value = url.user
         /\ url.props[FullName("userID")].exact = TRUE

\* What a list has after those of the URL were added as well.
AfterUrl(ps, source, more) ==
    \A n \in SettingNames :
        /\ n \in DOMAIN ps <=> n \in FullNames \/ Said(source, n) \/ n \in DOMAIN more
        /\ n \in DOMAIN more /\ more[n].exact \in BOOLEAN =>
              /\ ps[n].value = more[n].value
              /\ ps[n].exact = (more[n].exact \/ n \in FullNames \/ Heard(source, n))
        /\ n \in DOMAIN ps /\ n \notin DOMAIN more =>
              /\ ps[n].value \in IF Said(source, n) THEN SaidValues(source, n)
                                 ELSE {Default[n[1]]}
              /\ ps[n].exact = (n \in FullNames \/ Heard(source, n))

\* Whose user a pool has, whatever else names one.
UserChosen ==
    phase = "done" =>
        LET or(user, other) == IF user # <<>> THEN user ELSE other
            full == {e \in given.env : NameOf(<<e.word>>).name = FullName("userID")}
        IN  Setting("userID") \in
                IF given.user # <<>> THEN {given.user}
                ELSE IF given.url # <<>> THEN {or(url.user, given.defaultUser)}
                ELSE IF full # {} THEN {or(e.value, given.defaultUser) : e \in full}
                ELSE {given.defaultUser}

\* Which value a setting has when both sources have it, or one of them has it
\* under an alias that is not heard.
ValueChosen ==
    phase = "done" /\ (given.said # NotSaid \/ given.url = <<>>) =>
        \A c \in Configs \ {"userID", "password"} :
            LET said    == UrlSource(given)
                last(n) == IF Said(said, n) THEN SaidValues(said, n)
                           ELSE SaidValues(given.env, n)
            IN  Setting(c) \in
                    IF c \in AliasFirst /\ Heard(said \cup given.env, Alias(c))
                    THEN last(Alias(c))
                    ELSE IF last(FullName(c)) # {} THEN last(FullName(c))
                    ELSE {Default[c]}

SettingsInv ==
    /\ given \in Given /\ waiting \subseteq given.env
    /\ phase \in {"start", "environment", "url", "user", "done", "panic"}
    /\ phase = "start" => waiting = given.env
    /\ phase = "environment" => AfterEnvironment(props, given.env \ waiting)
    /\ phase \in {"url", "user"} => UrlFollows
    /\ phase = "url"  => AfterEnvironment(props, given.env)
    /\ phase = "user" => AfterUrl(props, given.env, url.props)
    /\ UserChosen
    /\ UrlsReadAsSaid => ValueChosen

\* Whatever is asked for as a name: a name, and whether it has its exact spelling.
LEMMA NamesAreRecords ==
    ASSUME SettingsAssumption, NEW text
    PROVE  /\ NameOf(text) = [name |-> NameOf(text).name, exact |-> NameOf(text).exact]
           /\ NameOf(text).exact \in BOOLEAN
<1>1. CASE text \in {<<w>> : w \in DOMAIN Spelling}
  <2>1. PICK w \in DOMAIN Spelling : text = <<w>>
    BY <1>1
  <2>2. text[1] \in DOMAIN Spelling
    BY <2>1
  <2> QED BY <1>1, <2>2 DEF NameOf, SettingsAssumption
<1>2. CASE text \notin {<<w>> : w \in DOMAIN Spelling}
  <2>1. NameOf(text) = [name |-> text, exact |-> TRUE]
    BY <1>2 DEF NameOf
  <2> QED BY <2>1
<1> QED BY <1>1, <1>2

\* The two names of a configuration.
LEMMA TwoNames ==
    ASSUME NEW c \in Configs
    PROVE  /\ FullName(c) \in SettingNames /\ Alias(c) \in SettingNames
           /\ FullName(c) \in FullNames /\ Alias(c) \notin FullNames
           /\ FullName(c)[1] = c
           /\ \A d : FullName(d) = FullName(c) => d = c
           /\ \A d : Alias(d) # FullName(c) /\ FullName(d) # Alias(c)
BY DEF SettingNames, FullNames, FullName, Alias

\* What GetProperty makes of the two names.
LEMMA GetTwo ==
    ASSUME NEW ps, NEW a, NEW b, NEW substitute
    PROVE  GetProperty(ps, <<a, b>>, substitute) =
             IF a \in DOMAIN ps /\ ps[a].exact
             THEN IF ps[a].value = <<>> THEN substitute ELSE ps[a].value
             ELSE IF b \in DOMAIN ps /\ ps[b].exact
             THEN IF ps[b].value = <<>> THEN substitute ELSE ps[b].value
             ELSE substitute
<1> DEFINE names == <<a, b>>
           found == {i \in DOMAIN names :
                       DoesPropertyExist(ps, names[i]) /\ ps[names[i]].exact}
           first == CHOOSE i \in found : \A j \in found : i <= j
<1>1. GetProperty(ps, names, substitute) =
        IF found = {} THEN substitute
        ELSE IF ps[names[first]].value = <<>> THEN substitute
        ELSE ps[names[first]].value
  BY Zenon DEF GetProperty
<1>2. DOMAIN names = {1, 2} /\ names[1] = a /\ names[2] = b
  OBVIOUS
<1>3. /\ 1 \in found <=> (a \in DOMAIN ps /\ ps[a].exact)
      /\ 2 \in found <=> (b \in DOMAIN ps /\ ps[b].exact)
      /\ found \subseteq {1, 2}
  BY <1>2, Zenon DEF DoesPropertyExist
<1> HIDE DEF found, names
<1>4. 1 \in found => first = 1
  <2> SUFFICES ASSUME 1 \in found PROVE first = 1
    OBVIOUS
  <2>1. \A j \in found : 1 <= j
    BY <1>3
  <2>2. first \in found /\ \A j \in found : first <= j
    BY <2>1
  <2>3. first \in {1, 2} /\ first <= 1
    BY <1>3, <2>2
  <2> HIDE DEF first
  <2> QED BY <2>3
<1>5. 1 \notin found /\ 2 \in found => first = 2
  <2> SUFFICES ASSUME 1 \notin found, 2 \in found PROVE first = 2
    OBVIOUS
  <2>1. found = {2}
    BY <1>3
  <2> QED BY <2>1
<1> HIDE DEF first
<1> QED BY <1>1, <1>2, <1>3, <1>4, <1>5 DEF names

\* A property that is added has its value, and is found if it was or is spelled so.
HasAdded(r, ps, n, exact, value) ==
    /\ r[n].value = value
    /\ r[n].exact = (exact \/ (n \in DOMAIN ps /\ ps[n].exact))

\* A property that is added is there, with the value it was added with.
LEMMA AddedHas ==
    ASSUME NEW ps, NEW n, NEW exact, NEW value
    PROVE  HasAdded(AddProperty(ps, n, exact, value), ps, n, exact, value)
<1> DEFINE r == AddProperty(ps, n, exact, value)
           old == n \in DOMAIN ps /\ ps[n].exact
<1>1. r[n] = [value |-> value, exact |-> exact \/ old]
  BY Zenon DEF AddProperty, DoesPropertyExist
<1> HIDE DEF r, old
<1>2. r[n].value = value /\ r[n].exact = (exact \/ old)
  BY <1>1
<1> QED BY <1>2, Zenon DEF r, old, HasAdded

\* The others stay.
OnlyChanges(r, ps, n) ==
    DOMAIN r = DOMAIN ps \cup {n} /\ \A m \in DOMAIN ps \ {n} : r[m] = ps[m]

\* And no other property of the list changes.
LEMMA OthersStay ==
    ASSUME NEW ps, NEW n, NEW exact, NEW value
    PROVE  OnlyChanges(AddProperty(ps, n, exact, value), ps, n)
BY Zenon DEF AddProperty, OnlyChanges

\* What is said when one more property is.
LEMMA OneMore ==
    ASSUME SettingsAssumption, NEW source, NEW e, NEW n
    PROVE  /\ Said(source \cup {e}, n) <=> Said(source, n) \/ NameOf(<<e.word>>).name = n
           /\ Heard(source \cup {e}, n) <=>
                  Heard(source, n)
                  \/ (NameOf(<<e.word>>).name = n /\ NameOf(<<e.word>>).exact)
           /\ NameOf(<<e.word>>).name = n => e.value \in SaidValues(source \cup {e}, n)
           /\ NameOf(<<e.word>>).name # n =>
                  SaidValues(source \cup {e}, n) = SaidValues(source, n)
<1>1. Said(source \cup {e}, n) <=> Said(source, n) \/ NameOf(<<e.word>>).name = n
  BY Zenon DEF Said
<1>2. NameOf(<<e.word>>) = [name |-> n, exact |-> TRUE] <=>
          NameOf(<<e.word>>).name = n /\ NameOf(<<e.word>>).exact
  <2> DEFINE r == NameOf(<<e.word>>)
  <2>1. r = [name |-> r.name, exact |-> r.exact] /\ r.exact \in BOOLEAN
    BY NamesAreRecords
  <2> HIDE DEF r
  <2>2. r = [name |-> n, exact |-> TRUE] => r.name = n /\ r.exact
    OBVIOUS
  <2>3. r.name = n /\ r.exact => r = [name |-> n, exact |-> TRUE]
    BY <2>1
  <2> QED BY <2>2, <2>3 DEF r
<1>3. Heard(source \cup {e}, n) <=>
          Heard(source, n) \/ NameOf(<<e.word>>) = [name |-> n, exact |-> TRUE]
  BY Zenon DEF Heard
<1>4. NameOf(<<e.word>>).name = n => e.value \in SaidValues(source \cup {e}, n)
  BY Zenon DEF SaidValues
<1>5. NameOf(<<e.word>>).name # n =>
          SaidValues(source \cup {e}, n) = SaidValues(source, n)
  BY Zenon DEF SaidValues
<1> QED BY <1>1, <1>2, <1>3, <1>4, <1>5

\* What is heard is said.
LEMMA HeardIsSaid ==
    ASSUME NEW source, NEW n
    PROVE  /\ Heard(source, n) => Said(source, n)
           /\ Said(source, n) <=> SaidValues(source, n) # {}
<1>1. Heard(source, n) => Said(source, n)
  BY DEF Heard, Said
<1>2. Said(source, n) <=> SaidValues(source, n) # {}
  BY Zenon DEF Said, SaidValues
<1> QED BY <1>1, <1>2

\* One more of the environment's properties is added.
LEMMA OneMoreAdded ==
    ASSUME SettingsAssumption, NEW source, NEW e, NEW ps,
           AfterEnvironment(ps, source)
    PROVE  AfterEnvironment(AddProperty(ps, NameOf(<<e.word>>).name,
                                        NameOf(<<e.word>>).exact, e.value),
                            source \cup {e})
<1> DEFINE m == NameOf(<<e.word>>).name
           x == NameOf(<<e.word>>).exact
           r == AddProperty(ps, m, x, e.value)
           more == source \cup {e}
<1> SUFFICES ASSUME NEW n \in SettingNames
             PROVE  /\ n \in DOMAIN r <=> n \in FullNames \/ Said(more, n)
                    /\ n \in DOMAIN r =>
                          /\ r[n].value \in IF Said(more, n) THEN SaidValues(more, n)
                                            ELSE {Default[n[1]]}
                          /\ r[n].exact = (n \in FullNames \/ Heard(more, n))
  BY Zenon DEF AfterEnvironment
<1>1. /\ n \in DOMAIN ps <=> n \in FullNames \/ Said(source, n)
      /\ n \in DOMAIN ps =>
            /\ ps[n].value \in IF Said(source, n) THEN SaidValues(source, n)
                               ELSE {Default[n[1]]}
            /\ ps[n].exact = (n \in FullNames \/ Heard(source, n))
  BY Zenon DEF AfterEnvironment
<1>4. x \in BOOLEAN
  BY Zenon, NamesAreRecords
<1>2. /\ DOMAIN r = DOMAIN ps \cup {m}
      /\ r[m].value = e.value
      /\ r[m].exact = (x \/ (m \in DOMAIN ps /\ ps[m].exact))
      /\ \A k \in DOMAIN ps \ {m} : r[k] = ps[k]
  <2> HIDE DEF m, x
  <2>1. OnlyChanges(r, ps, m)
    BY OthersStay, Zenon
  <2>2. HasAdded(r, ps, m, x, e.value)
    BY AddedHas, Zenon
  <2> HIDE DEF r
  <2>3. DOMAIN r = DOMAIN ps \cup {m} /\ \A k \in DOMAIN ps \ {m} : r[k] = ps[k]
    BY <2>1, Zenon DEF OnlyChanges
  <2> QED BY <1>4, <2>2, <2>3 DEF HasAdded
<1>3. /\ Said(more, n) <=> Said(source, n) \/ m = n
      /\ Heard(more, n) <=> Heard(source, n) \/ (m = n /\ x)
      /\ m = n => e.value \in SaidValues(more, n)
      /\ m # n => SaidValues(more, n) = SaidValues(source, n)
  BY Zenon, OneMore
<1>5. Heard(source, n) => Said(source, n)
  BY HeardIsSaid
<1> HIDE DEF m, x, r, more
<1>6. CASE m = n
  <2>1. /\ r[n].value = e.value
        /\ r[n].exact = (x \/ (n \in DOMAIN ps /\ ps[n].exact))
    BY <1>2, <1>6
  <2>2. r[n].exact = (n \in FullNames \/ Heard(more, n))
    <3>1. CASE n \in DOMAIN ps
      BY <1>1, <1>3, <1>4, <1>6, <2>1, <3>1
    <3>2. CASE n \notin DOMAIN ps
      BY <1>1, <1>3, <1>4, <1>5, <1>6, <2>1, <3>2
    <3> QED BY <3>1, <3>2
  <2> QED BY <1>2, <1>3, <1>6, <2>1, <2>2
<1>7. CASE m # n
  BY <1>1, <1>2, <1>3, <1>7
<1> QED BY <1>6, <1>7

\* The properties of the URL are added.
LEMMA UrlAdded ==
    ASSUME NEW source, NEW ps, NEW more, AfterEnvironment(ps, source)
    PROVE  AfterUrl(AddProperties(ps, more), source, more)
<1> DEFINE r == AddProperties(ps, more)
<1> SUFFICES ASSUME NEW n \in SettingNames
             PROVE  /\ n \in DOMAIN r <=>
                           n \in FullNames \/ Said(source, n) \/ n \in DOMAIN more
                    /\ n \in DOMAIN more /\ more[n].exact \in BOOLEAN =>
                          /\ r[n].value = more[n].value
                          /\ r[n].exact =
                                (more[n].exact \/ n \in FullNames \/ Heard(source, n))
                    /\ n \in DOMAIN r /\ n \notin DOMAIN more =>
                          /\ r[n].value \in IF Said(source, n) THEN SaidValues(source, n)
                                            ELSE {Default[n[1]]}
                          /\ r[n].exact = (n \in FullNames \/ Heard(source, n))
  BY Zenon DEF AfterUrl
<1>1. /\ n \in DOMAIN ps <=> n \in FullNames \/ Said(source, n)
      /\ n \in DOMAIN ps =>
            /\ ps[n].value \in IF Said(source, n) THEN SaidValues(source, n)
                               ELSE {Default[n[1]]}
            /\ ps[n].exact = (n \in FullNames \/ Heard(source, n))
  BY Zenon DEF AfterEnvironment
<1>2. /\ DOMAIN r = DOMAIN ps \cup DOMAIN more
      /\ \A k \in DOMAIN r \ DOMAIN more : r[k] = ps[k]
      /\ \A k \in DOMAIN more :
            r[k] = AddProperty(ps, k, more[k].exact, more[k].value)[k]
  BY Zenon DEF AddProperties
<1>3. ASSUME n \in DOMAIN more, more[n].exact \in BOOLEAN
      PROVE  /\ r[n].value = more[n].value
             /\ r[n].exact = (more[n].exact \/ (n \in DOMAIN ps /\ ps[n].exact))
  <2> DEFINE x == more[n].exact
             v == more[n].value
             w == AddProperty(ps, n, x, v)
  <2>1. r[n] = w[n] /\ x \in BOOLEAN
    BY <1>2, <1>3
  <2> HIDE DEF x, v
  <2>2. HasAdded(w, ps, n, x, v)
    BY AddedHas, Zenon
  <2> HIDE DEF w, r
  <2>3. r[n].value = v /\ r[n].exact = (x \/ (n \in DOMAIN ps /\ ps[n].exact))
    BY <2>1, <2>2 DEF HasAdded
  <2> QED BY <2>3 DEF x, v
<1>4. Heard(source, n) => Said(source, n)
  BY HeardIsSaid
<1> HIDE DEF r
<1>5. ASSUME n \in DOMAIN more, more[n].exact \in BOOLEAN
      PROVE  /\ r[n].value = more[n].value
             /\ r[n].exact = (more[n].exact \/ n \in FullNames \/ Heard(source, n))
  <2>1. (n \in DOMAIN ps /\ ps[n].exact) <=> (n \in FullNames \/ Heard(source, n))
    BY <1>1, <1>4
  <2> QED BY <1>3, <1>5, <2>1
<1> QED BY <1>1, <1>2, <1>3, <1>5

\* What GetProperty makes of the user's names: the full one is found.
LEMMA UserFound ==
    ASSUME SettingsAssumption, NEW ps, NEW substitute,
           FullName("userID") \in DOMAIN ps, ps[FullName("userID")].exact = TRUE
    PROVE  GetProperty(ps, NamesOf("userID"), substitute) =
             IF ps[FullName("userID")].value = <<>> THEN substitute
             ELSE ps[FullName("userID")].value
<1>1. NamesOf("userID") = <<FullName("userID"), Alias("userID")>>
  BY DEF NamesOf, SettingsAssumption
<1> DEFINE a == FullName("userID")
           b == Alias("userID")
<1>2. GetProperty(ps, <<a, b>>, substitute) =
        IF a \in DOMAIN ps /\ ps[a].exact
        THEN IF ps[a].value = <<>> THEN substitute ELSE ps[a].value
        ELSE IF b \in DOMAIN ps /\ ps[b].exact
        THEN IF ps[b].value = <<>> THEN substitute ELSE ps[b].value
        ELSE substitute
  BY GetTwo
<1> QED BY <1>1, <1>2

\* What SetUserAndPassword leaves for the user, and for the others.
LEMMA UserIsSet ==
    ASSUME SettingsAssumption, SetUserAndPassword,
           FullName("userID") \in DOMAIN props, props[FullName("userID")].exact = TRUE
    PROVE  /\ GetProperty(props', NamesOf("userID"), <<>>) =
                IF given.user # <<>> THEN given.user
                ELSE IF props[FullName("userID")].value # <<>>
                THEN props[FullName("userID")].value ELSE given.defaultUser
           /\ \A n : n \notin {FullName("userID"), FullName("password")} =>
                 /\ n \in DOMAIN props' <=> n \in DOMAIN props
                 /\ n \in DOMAIN props => props'[n] = props[n]
<1> DEFINE a == FullName("userID")
           b == FullName("password")
           found == IF props[a].value = <<>> THEN given.defaultUser ELSE props[a].value
           user == IF given.user = <<>> THEN found ELSE given.user
           r == AddProperty(props, a, TRUE, user)
           pwd == IF given.pwd = <<>> THEN GetProperty(r, NamesOf("password"), <<>>)
                  ELSE given.pwd
           w == AddProperty(r, b, TRUE, pwd)
<1>1. GetProperty(props, NamesOf("userID"), given.defaultUser) = found
  BY UserFound
<1>2. a # b
  BY DEF FullName
<1>3. SetUser(props, given.user, given.defaultUser) = IF user = <<>> THEN props ELSE r
  BY <1>1, Zenon DEF SetUser
<1>4. SetPassword(r, given.pwd) = w
  BY Zenon DEF SetPassword
<1>5. CASE user = <<>>
  <2>1. given.user = <<>> /\ found = <<>>
    BY <1>5
  <2>2. props' = props
    <3>1. props' = SetUser(props, given.user, given.defaultUser)
      BY <1>1, <2>1, Zenon DEF SetUserAndPassword
    <3> QED BY <1>3, <1>5, <3>1
  <2>3. GetProperty(props, NamesOf("userID"), <<>>) =
          IF props[a].value = <<>> THEN <<>> ELSE props[a].value
    BY UserFound
  <2> QED BY <2>1, <2>2, <2>3
<1>6. CASE user # <<>>
  <2>1. props' = w
    <3>1. ~(given.user = <<>>
            /\ GetProperty(props, NamesOf("userID"), given.defaultUser) = <<>>)
      BY <1>1, <1>6
    <3>2. props' = SetPassword(SetUser(props, given.user, given.defaultUser), given.pwd)
      BY <3>1, Zenon DEF SetUserAndPassword
    <3> QED BY <1>3, <1>4, <1>6, <3>2
  <2>2. /\ DOMAIN r = DOMAIN props \cup {a}
        /\ r[a].value = user /\ r[a].exact = TRUE
        /\ \A n \in DOMAIN props \ {a} : r[n] = props[n]
    <3> HIDE DEF a, user
    <3>1. OnlyChanges(r, props, a)
      BY OthersStay, Zenon
    <3>2. HasAdded(r, props, a, TRUE, user)
      BY AddedHas, Zenon
    <3> HIDE DEF r
    <3> QED BY <3>1, <3>2 DEF OnlyChanges, HasAdded
  <2>3. DOMAIN w = DOMAIN r \cup {b} /\ \A n \in DOMAIN r \ {b} : w[n] = r[n]
    <3> HIDE DEF r, b, pwd
    <3>1. OnlyChanges(w, r, b)
      BY OthersStay, Zenon
    <3> HIDE DEF w
    <3> QED BY <3>1 DEF OnlyChanges
  <2>4. a \in DOMAIN w /\ w[a].value = user /\ w[a].exact = TRUE
    BY <1>2, <2>2, <2>3
  <2>5. GetProperty(w, NamesOf("userID"), <<>>) =
          IF w[a].value = <<>> THEN <<>> ELSE w[a].value
    BY <2>4, UserFound
  <2>6. GetProperty(w, NamesOf("userID"), <<>>) = user
    BY <1>6, <2>4, <2>5
  <2>7. \A n : n \notin {a, b} =>
           /\ n \in DOMAIN w <=> n \in DOMAIN props
           /\ n \in DOMAIN props => w[n] = props[n]
    <3> HIDE DEF w, r, a, b
    <3> QED BY <2>2, <2>3
  <2> QED BY <2>1, <2>6, <2>7
<1> QED BY <1>5, <1>6

\* A URL that was read has its user among its properties.
LEMMA UrlHasUser ==
    ASSUME NEW text, NewLinkUrl(text).outcome = "ok"
    PROVE  LET u == NewLinkUrl(text)
           IN  /\ FullName("userID") \in DOMAIN u.props
               /\ u.props[FullName("userID")].value = u.user
               /\ u.props[FullName("userID")].exact = TRUE
<1> DEFINE u == UrlParts(text)
           p == IF u.rest = <<>> THEN WithFtUrls(NewSortedProperties, <<>>)
                ELSE ParseProperties(u.rest)
           a == FullName("userID")
           r == AddProperty(p.props, a, TRUE, u.user)
           made == [outcome |-> "ok", protocol |-> u.protocol, user |-> u.user,
                    host |-> u.host, port |-> u.port, isIPv6 |-> u.isIPv6,
                    ftUrls |-> p.ftUrls, props |-> r]
<1>1. NewLinkUrl(text) = IF u.outcome # "ok" THEN u
                         ELSE IF p.outcome # "ok" THEN p ELSE made
  BY Zenon DEF NewLinkUrl, UrlWithProperties, LinkUrl, FullName
<1>2. OnlyChanges(r, p.props, a)
  BY OthersStay, Zenon
<1>3. HasAdded(r, p.props, a, TRUE, u.user)
  BY AddedHas, Zenon
<1> HIDE DEF u, p, r
<1>4. NewLinkUrl(text) = made
  BY <1>1
<1>5. made.props = r /\ made.user = u.user
  OBVIOUS
<1> HIDE DEF made, a
<1>6. a \in DOMAIN r /\ r[a].value = u.user /\ r[a].exact = TRUE
  BY <1>2, <1>3 DEF OnlyChanges, HasAdded
<1> QED BY <1>4, <1>5, <1>6 DEF a

-----------------------------------------------------------------------------
\* The steps of the invariant.
LEMMA SettingsInvInit == SettingsInit => SettingsInv
<1> SUFFICES ASSUME SettingsInit PROVE SettingsInv
  OBVIOUS
<1>1. given \in Given /\ phase = "start" /\ waiting = given.env
  BY DEF SettingsInit
<1> QED BY <1>1, Zenon DEF SettingsInv, UserChosen, ValueChosen

\* The environment's defaults come first, under their full names.
LEMMA AddDefaultsInv ==
    ASSUME SettingsAssumption, SettingsInv, AddDefaults PROVE SettingsInv'
<1>1. /\ phase' = "environment" /\ waiting' = given.env /\ given' = given
      /\ props' = EnvironmentDefaults /\ given \in Given
  BY DEF SettingsInv, AddDefaults
<1> DEFINE ps == EnvironmentDefaults
<1>2. AfterEnvironment(ps, {})
  <2>1. /\ DOMAIN ps = FullNames
        /\ \A n \in FullNames : ps[n].value = Default[n[1]] /\ ps[n].exact = TRUE
    BY DEF EnvironmentDefaults, FullNames
  <2>2. \A n : ~Said({}, n) /\ ~Heard({}, n)
    BY DEF Said, Heard
  <2> HIDE DEF ps
  <2> QED BY <2>1, <2>2 DEF AfterEnvironment
<1>3. given'.env \ waiting' = {}
  BY <1>1
<1>4. AfterEnvironment(props', given'.env \ waiting')
  BY <1>1, <1>2, <1>3, Zenon
<1> QED BY <1>1, <1>4, Zenon DEF SettingsInv, UserChosen, ValueChosen

\* One more property of the environment, whichever comes next.
LEMMA AddEnvironmentInv ==
    ASSUME SettingsAssumption, SettingsInv, AddEnvironment PROVE SettingsInv'
<1>1. PICK e \in waiting :
        /\ props' = AddProperty(props, NameOf(<<e.word>>).name,
                                NameOf(<<e.word>>).exact, e.value)
        /\ waiting' = waiting \ {e}
  BY DEF AddEnvironment
<1>2. /\ phase = "environment" /\ phase' = phase /\ given' = given
      /\ given \in Given /\ waiting \subseteq given.env
      /\ AfterEnvironment(props, given.env \ waiting)
  BY DEF AddEnvironment, SettingsInv
<1>3. given.env \ (waiting \ {e}) = (given.env \ waiting) \cup {e}
  BY <1>1, <1>2
<1>4. AfterEnvironment(props', (given.env \ waiting) \cup {e})
  BY <1>1, <1>2, OneMoreAdded, Zenon
<1>5. AfterEnvironment(props', given'.env \ waiting')
  BY <1>1, <1>2, <1>3, <1>4, Zenon
<1>6. waiting' \subseteq given'.env
  BY <1>1, <1>2
<1> QED BY <1>2, <1>5, <1>6, Zenon DEF SettingsInv, UserChosen, ValueChosen

\* A URL that is read has its user as a property.
LEMMA ParseChannelUrlInv ==
    ASSUME SettingsAssumption, SettingsInv, ParseChannelUrl PROVE SettingsInv'
<1>1. /\ phase = "environment" /\ waiting = {}
      /\ url' = IF DefaultLinkUrl.outcome = "panic" \/ given.url = <<>>
                THEN DefaultLinkUrl ELSE NewLinkUrl(given.url)
      /\ phase' = IF url'.outcome = "ok" THEN "url" ELSE "panic"
      /\ given' = given /\ waiting' = waiting /\ props' = props
  BY DEF ParseChannelUrl
<1>2. given \in Given /\ AfterEnvironment(props, given.env \ waiting)
  BY <1>1 DEF SettingsInv
<1>3. given.env \ waiting = given.env
  BY <1>1
<1>4. phase' = "url" => UrlFollows'
  <2> SUFFICES ASSUME phase' = "url" PROVE UrlFollows'
    OBVIOUS
  <2>1. url'.outcome = "ok"
    BY <1>1
  <2>2. CASE DefaultLinkUrl.outcome = "panic"
    BY <1>1, <2>1, <2>2
  <2>3. CASE DefaultLinkUrl.outcome # "panic" /\ given.url = <<>>
    <3>1. DefaultLinkUrl = [outcome |-> "ok", props |-> NewSortedProperties]
      BY <2>3 DEF DefaultLinkUrl, Outcome
    <3>2. url'.props = NewSortedProperties
      BY <1>1, <2>3, <3>1
    <3> QED BY <1>1, <2>3, <3>2 DEF UrlFollows
  <2>4. CASE DefaultLinkUrl.outcome # "panic" /\ given.url # <<>>
    <3>1. url' = NewLinkUrl(given.url)
      BY <1>1, <2>4
    <3>2. /\ FullName("userID") \in DOMAIN url'.props
          /\ url'.props[FullName("userID")].value = url'.user
          /\ url'.props[FullName("userID")].exact = TRUE
      BY <2>1, <3>1, UrlHasUser, Zenon
    <3> QED BY <1>1, <2>1, <2>4, <3>1, <3>2, Zenon DEF UrlFollows
  <2> QED BY <2>2, <2>3, <2>4
<1>5. phase' = "url" => AfterEnvironment(props', given'.env)
  BY <1>1, <1>2, <1>3, Zenon
<1>6. phase' \in {"url", "panic"} /\ waiting' \subseteq given'.env
  BY <1>1
<1>7. phase' # "start" /\ phase' # "environment" /\ phase' # "user" /\ phase' # "done"
  BY <1>6
<1> QED BY <1>1, <1>2, <1>4, <1>5, <1>6, <1>7, Zenon
        DEF SettingsInv, UserChosen, ValueChosen

\* What the URL has counts from now on, and the rest is as it was.
LEMMA AddUrlPropertiesInv ==
    ASSUME SettingsAssumption, SettingsInv, AddUrlProperties PROVE SettingsInv'
<1>1. /\ phase = "url" /\ phase' = "user" /\ props' = AddProperties(props, url.props)
      /\ given' = given /\ waiting' = waiting /\ url' = url
  BY DEF AddUrlProperties
<1>2. /\ given \in Given /\ waiting \subseteq given.env /\ UrlFollows
      /\ AfterEnvironment(props, given.env)
  BY <1>1 DEF SettingsInv
<1>3. AfterUrl(props', given.env, url.props)
  BY <1>1, <1>2, UrlAdded, Zenon
<1>4. UrlFollows'
  BY <1>1, <1>2, Zenon DEF UrlFollows
<1>5. AfterUrl(props', given'.env, url'.props)
  BY <1>1, <1>3, Zenon
<1> QED BY <1>1, <1>2, <1>4, <1>5, Zenon DEF SettingsInv, UserChosen, ValueChosen

\* What the user's full name has, once the properties of the URL were added.
LEMMA UserBefore ==
    ASSUME SettingsAssumption, SettingsInv, phase = "user"
    PROVE  LET full == FullName("userID")
           IN  /\ full \in DOMAIN props /\ props[full].exact = TRUE
               /\ given.url # <<>> => props[full].value = url.user
               /\ given.url = <<>> =>
                     props[full].value \in IF Said(given.env, full)
                                           THEN SaidValues(given.env, full) ELSE {<<>>}
<1> DEFINE full == FullName("userID")
<1>1. /\ full \in SettingNames /\ full \in FullNames /\ full[1] = "userID"
      /\ Default["userID"] = <<>>
  BY TwoNames DEF SettingsAssumption
<1>2. UrlFollows /\ AfterUrl(props, given.env, url.props)
  BY DEF SettingsInv
<1>3. /\ full \in DOMAIN props
      /\ full \in DOMAIN url.props /\ url.props[full].exact \in BOOLEAN =>
            /\ props[full].value = url.props[full].value
            /\ props[full].exact =
                  (url.props[full].exact \/ full \in FullNames \/ Heard(given.env, full))
      /\ full \notin DOMAIN url.props =>
            /\ props[full].value \in IF Said(given.env, full)
                                     THEN SaidValues(given.env, full) ELSE {<<>>}
            /\ props[full].exact = (full \in FullNames \/ Heard(given.env, full))
  <2> HIDE DEF full
  <2> QED BY <1>1, <1>2, Zenon DEF AfterUrl
<1>4. CASE given.url = <<>>
  <2>1. full \notin DOMAIN url.props
    BY <1>2, <1>4 DEF UrlFollows, NewSortedProperties
  <2> HIDE DEF full
  <2>2. props[full].exact = TRUE
    BY <1>1, <1>3, <2>1
  <2> QED BY <1>3, <1>4, <2>1, <2>2 DEF full
<1>5. CASE given.url # <<>>
  <2>1. /\ full \in DOMAIN url.props /\ url.props[full].value = url.user
        /\ url.props[full].exact = TRUE
    BY <1>2, <1>5 DEF UrlFollows
  <2> HIDE DEF full
  <2>2. props[full].exact = TRUE /\ props[full].value = url.user
    BY <1>1, <1>3, <2>1
  <2> QED BY <1>3, <1>5, <2>2 DEF full
<1> QED BY <1>4, <1>5

\* The rule for the user, when SetUserAndPassword has been called.
LEMMA UserRuleAfter ==
    ASSUME SettingsAssumption, SettingsInv, SetUserAndPassword PROVE UserChosen'
<1> DEFINE full == FullName("userID")
           or(user, other) == IF user # <<>> THEN user ELSE other
           said == {e \in given.env : NameOf(<<e.word>>).name = full}
           v == props[full].value
           set == GetProperty(props', NamesOf("userID"), <<>>)
<1>1. phase = "user" /\ given' = given /\ url' = url
  BY DEF SetUserAndPassword
<1>2. /\ full \in DOMAIN props /\ props[full].exact = TRUE
      /\ given.url # <<>> => v = url.user
      /\ given.url = <<>> => v \in IF Said(given.env, full)
                                   THEN SaidValues(given.env, full) ELSE {<<>>}
  BY <1>1, UserBefore, Zenon
<1>3. set = IF given.user # <<>> THEN given.user ELSE or(v, given.defaultUser)
  BY <1>2, UserIsSet, Zenon
<1>4. /\ SaidValues(given.env, full) = {e.value : e \in said}
      /\ Said(given.env, full) <=> said # {}
  BY Zenon DEF SaidValues, Said
<1> HIDE DEF v, set, full
<1>5. set \in IF given.user # <<>> THEN {given.user}
              ELSE IF given.url # <<>> THEN {or(url.user, given.defaultUser)}
              ELSE IF said # {} THEN {or(e.value, given.defaultUser) : e \in said}
              ELSE {given.defaultUser}
  <2>1. CASE given.user # <<>>
    BY <1>3, <2>1
  <2>2. CASE given.user = <<>> /\ given.url # <<>>
    BY <1>2, <1>3, <2>2
  <2>3. CASE given.user = <<>> /\ given.url = <<>> /\ said # {}
    <3>1. PICK e \in said : v = e.value
      BY <1>2, <1>4, <2>3
    <3>2. set = or(e.value, given.defaultUser)
      BY <1>3, <2>3, <3>1
    <3> QED BY <2>3, <3>2
  <2>4. CASE given.user = <<>> /\ given.url = <<>> /\ said = {}
    <3>1. v = <<>>
      BY <1>2, <1>4, <2>4
    <3> QED BY <1>3, <2>4, <3>1
  <2> QED BY <2>1, <2>2, <2>3, <2>4
<1> QED BY <1>1, <1>5, Zenon DEF UserChosen, Setting, set, full

\* What was said for a setting, by the URL or by the environment.
LEMMA UnionHeard ==
    ASSUME NEW a, NEW b, NEW n
    PROVE  Heard(a \cup b, n) <=> Heard(a, n) \/ Heard(b, n)
BY Zenon DEF Heard

\* What a name has that is neither the user's nor the password's, once the
\* properties of the URL were added.
LEMMA OtherBefore ==
    ASSUME SettingsAssumption, SettingsInv, UrlsReadAsSaid, phase = "user",
           given.said # NotSaid \/ given.url = <<>>,
           NEW n \in SettingNames \ {FullName("userID")}
    PROVE  LET said == UrlSource(given)
               last == IF Said(said, n) THEN SaidValues(said, n)
                       ELSE SaidValues(given.env, n)
           IN  /\ n \in DOMAIN props <=> n \in FullNames \/ last # {}
               /\ n \in DOMAIN props =>
                     /\ last # {} => props[n].value \in last
                     /\ last = {} => props[n].value = Default[n[1]]
                     /\ props[n].exact =
                           (n \in FullNames \/ Heard(said \cup given.env, n))
<1> DEFINE said == UrlSource(given)
           last == IF Said(said, n) THEN SaidValues(said, n)
                   ELSE SaidValues(given.env, n)
<1>1. UrlFollows /\ AfterUrl(props, given.env, url.props) /\ given \in Given
  BY DEF SettingsInv
<1>2. Reflects(url.props, said, n)
  <2>1. CASE given.said # NotSaid
    <3>1. given.url # <<>>
      BY <1>1, <2>1 DEF SettingsAssumption
    <3>2. url = NewLinkUrl(given.url) /\ url.outcome = "ok"
      BY <1>1, <3>1 DEF UrlFollows
    <3>3. NewLinkUrl(given.url).outcome = "ok" =>
            \A m \in SettingNames \ {FullName("userID")} :
                Reflects(NewLinkUrl(given.url).props, UrlSource(given), m)
      BY <1>1, <2>1, Zenon DEF UrlsReadAsSaid
    <3>4. Reflects(NewLinkUrl(given.url).props, UrlSource(given), n)
      BY <3>2, <3>3, Zenon
    <3> QED BY <3>2, <3>4, Zenon
  <2>2. CASE given.said = NotSaid
    <3>1. said = {} /\ url.props = NewSortedProperties
      BY <1>1, <2>2 DEF UrlSource, UrlFollows
    <3>2. n \notin DOMAIN NewSortedProperties
      BY DEF NewSortedProperties
    <3>3. ~Said({}, n)
      BY DEF Said
    <3> QED BY <3>1, <3>2, <3>3, Zenon DEF Reflects
  <2> QED BY <2>1, <2>2
<1>3. /\ n \in DOMAIN url.props <=> Said(said, n)
      /\ n \in DOMAIN url.props => /\ url.props[n].value \in SaidValues(said, n)
                                   /\ url.props[n].exact = Heard(said, n)
  BY <1>2, Zenon DEF Reflects
<1>4. /\ n \in DOMAIN props <=>
            n \in FullNames \/ Said(given.env, n) \/ n \in DOMAIN url.props
      /\ n \in DOMAIN url.props /\ url.props[n].exact \in BOOLEAN =>
            /\ props[n].value = url.props[n].value
            /\ props[n].exact =
                  (url.props[n].exact \/ n \in FullNames \/ Heard(given.env, n))
      /\ n \in DOMAIN props /\ n \notin DOMAIN url.props =>
            /\ props[n].value \in IF Said(given.env, n) THEN SaidValues(given.env, n)
                                  ELSE {Default[n[1]]}
            /\ props[n].exact = (n \in FullNames \/ Heard(given.env, n))
  BY <1>1, Zenon DEF AfterUrl
<1>5. /\ Said(said, n) <=> SaidValues(said, n) # {}
      /\ Said(given.env, n) <=> SaidValues(given.env, n) # {}
      /\ Heard(said, n) => Said(said, n)
  BY HeardIsSaid
<1>6. Heard(said \cup given.env, n) <=> Heard(said, n) \/ Heard(given.env, n)
  BY UnionHeard
<1>7. Heard(said, n) \in BOOLEAN
  BY DEF Heard
<1> HIDE DEF said
<1>8. CASE n \in DOMAIN url.props
  <2>1. url.props[n].exact \in BOOLEAN
    BY <1>3, <1>7, <1>8
  <2>2. /\ props[n].value \in SaidValues(said, n) /\ n \in DOMAIN props
        /\ props[n].exact = (n \in FullNames \/ Heard(said \cup given.env, n))
    BY <1>3, <1>4, <1>6, <1>8, <2>1
  <2> QED BY <1>3, <1>5, <1>8, <2>2 DEF said
<1>9. CASE n \notin DOMAIN url.props
  <2>1. ~Said(said, n) /\ ~Heard(said, n)
    BY <1>3, <1>5, <1>9
  <2>2. n \in DOMAIN props =>
           props[n].exact = (n \in FullNames \/ Heard(said \cup given.env, n))
    BY <1>4, <1>6, <1>9, <2>1
  <2> QED BY <1>4, <1>5, <1>9, <2>1, <2>2 DEF said
<1> QED BY <1>8, <1>9

\* The rule for the other settings, when SetUserAndPassword has been called.
LEMMA OthersAfter ==
    ASSUME SettingsAssumption, SettingsInv, UrlsReadAsSaid, SetUserAndPassword
    PROVE  ValueChosen'
<1>1. phase = "user" /\ given' = given
  BY DEF SetUserAndPassword
<1> DEFINE said == UrlSource(given)
           last(n) == IF Said(said, n) THEN SaidValues(said, n)
                      ELSE SaidValues(given.env, n)
           set(c) == GetProperty(props', NamesOf(c), <<>>)
           rule(c) == set(c) \in
                        IF c \in AliasFirst /\ Heard(said \cup given.env, Alias(c))
                        THEN last(Alias(c))
                        ELSE IF last(FullName(c)) # {} THEN last(FullName(c))
                        ELSE {Default[c]}
<1>2. ASSUME given.said # NotSaid \/ given.url = <<>>,
             NEW c \in Configs \ {"userID", "password"}
      PROVE  rule(c)
  <2> DEFINE a == FullName(c)
             b == Alias(c)
             A == last(a)
             B == last(b)
             heard == Heard(said \cup given.env, b)
  <2>1. /\ a \in SettingNames /\ a \in FullNames /\ a[1] = c
        /\ b \in SettingNames /\ b \notin FullNames
        /\ a \notin {FullName("userID"), FullName("password")}
        /\ b \notin {FullName("userID"), FullName("password")}
    BY TwoNames
  <2>2. /\ a \in DOMAIN props /\ props[a].exact = TRUE
        /\ A # {} => props[a].value \in A
        /\ A = {} => props[a].value = Default[c]
    <3>1. /\ a \in DOMAIN props <=> a \in FullNames \/ A # {}
          /\ a \in DOMAIN props =>
                /\ A # {} => props[a].value \in A
                /\ A = {} => props[a].value = Default[a[1]]
                /\ props[a].exact = (a \in FullNames \/ Heard(said \cup given.env, a))
      BY <1>1, <1>2, <2>1, OtherBefore, Zenon
    <3> HIDE DEF a, A
    <3> QED BY <2>1, <3>1
  <2>3. /\ b \in DOMAIN props <=> B # {}
        /\ b \in DOMAIN props => props[b].value \in B
        /\ heard => b \in DOMAIN props /\ props[b].exact = TRUE
        /\ b \in DOMAIN props /\ ~heard => props[b].exact = FALSE
    <3>1. /\ b \in DOMAIN props <=> b \in FullNames \/ B # {}
          /\ b \in DOMAIN props =>
                /\ B # {} => props[b].value \in B
                /\ B = {} => props[b].value = Default[b[1]]
                /\ props[b].exact = (b \in FullNames \/ heard)
      BY <1>1, <1>2, <2>1, OtherBefore, Zenon
    <3>2. heard => B # {}
      BY UnionHeard, HeardIsSaid
    <3>3. heard \in BOOLEAN
      BY DEF Heard
    <3> HIDE DEF b, B, heard
    <3> QED BY <2>1, <3>1, <3>2, <3>3
  <2>4. /\ a \in DOMAIN props' /\ props'[a] = props[a]
        /\ b \in DOMAIN props' <=> b \in DOMAIN props
        /\ b \in DOMAIN props => props'[b] = props[b]
    <3>1. \A n : n \notin {FullName("userID"), FullName("password")} =>
             /\ n \in DOMAIN props' <=> n \in DOMAIN props
             /\ n \in DOMAIN props => props'[n] = props[n]
      BY <1>1, UserBefore, UserIsSet, Zenon
    <3> HIDE DEF a, b
    <3> QED BY <2>1, <2>2, <3>1
  <2>5. NamesOf(c) = IF c \in AliasFirst THEN <<b, a>> ELSE <<a, b>>
    BY DEF NamesOf
  <2>6. CASE c \in AliasFirst /\ heard
    <3>1. set(c) = IF b \in DOMAIN props' /\ props'[b].exact
                   THEN IF props'[b].value = <<>> THEN <<>> ELSE props'[b].value
                   ELSE IF a \in DOMAIN props' /\ props'[a].exact
                   THEN IF props'[a].value = <<>> THEN <<>> ELSE props'[a].value
                   ELSE <<>>
      <4>1. set(c) = GetProperty(props', <<b, a>>, <<>>)
        BY <2>5, <2>6
      <4> HIDE DEF set, a, b
      <4> QED BY <4>1, GetTwo
    <3> HIDE DEF set, a, b, A, B, heard
    <3>2. set(c) = props[b].value
      BY <2>3, <2>4, <2>6, <3>1
    <3>3. set(c) \in B
      BY <2>3, <2>6, <3>2
    <3> QED BY <2>6, <3>3, Zenon DEF A, B, a, b, heard
  <2>7. CASE ~(c \in AliasFirst /\ heard)
    <3>1. set(c) = props[a].value
      <4>1. CASE c \in AliasFirst
        <5>1. set(c) = IF b \in DOMAIN props' /\ props'[b].exact
                       THEN IF props'[b].value = <<>> THEN <<>> ELSE props'[b].value
                       ELSE IF a \in DOMAIN props' /\ props'[a].exact
                       THEN IF props'[a].value = <<>> THEN <<>> ELSE props'[a].value
                       ELSE <<>>
          <6>1. set(c) = GetProperty(props', <<b, a>>, <<>>)
            BY <2>5, <4>1
          <6> HIDE DEF set, a, b
          <6> QED BY <6>1, GetTwo
        <5> HIDE DEF set, a, b, A, B, heard
        <5> QED BY <2>2, <2>3, <2>4, <2>7, <4>1, <5>1
      <4>2. CASE c \notin AliasFirst
        <5>1. set(c) = IF a \in DOMAIN props' /\ props'[a].exact
                       THEN IF props'[a].value = <<>> THEN <<>> ELSE props'[a].value
                       ELSE IF b \in DOMAIN props' /\ props'[b].exact
                       THEN IF props'[b].value = <<>> THEN <<>> ELSE props'[b].value
                       ELSE <<>>
          <6>1. set(c) = GetProperty(props', <<a, b>>, <<>>)
            BY <2>5, <4>2
          <6> HIDE DEF set, a, b
          <6> QED BY <6>1, GetTwo
        <5> HIDE DEF set, a, b, A, B, heard
        <5> QED BY <2>2, <2>4, <5>1
      <4> QED BY <4>1, <4>2
    <3> HIDE DEF set, a, b, A, B, heard
    <3>2. set(c) \in IF A # {} THEN A ELSE {Default[c]}
      BY <2>2, <3>1
    <3> QED BY <2>7, <3>2, Zenon DEF A, B, a, b, heard
  <2> QED BY <2>6, <2>7
<1> HIDE DEF rule
<1>3. given.said # NotSaid \/ given.url = <<>> =>
        \A c \in Configs \ {"userID", "password"} : rule(c)
  BY <1>2
<1> QED BY <1>1, <1>3, Zenon DEF ValueChosen, Setting, rule

\* The user and the password are set, and no other setting.
LEMMA SetUserAndPasswordInv ==
    ASSUME SettingsAssumption, SettingsInv, SetUserAndPassword PROVE SettingsInv'
<1>1. /\ phase = "user" /\ phase' = "done"
      /\ given' = given /\ waiting' = waiting /\ url' = url
  BY DEF SetUserAndPassword
<1>2. given \in Given /\ waiting \subseteq given.env
  BY DEF SettingsInv
<1>3. UserChosen'
  BY UserRuleAfter
<1>4. UrlsReadAsSaid => ValueChosen'
  BY OthersAfter
<1>5. UrlsReadAsSaid' <=> UrlsReadAsSaid
  BY DEF UrlsReadAsSaid
<1> QED BY <1>1, <1>2, <1>3, <1>4, <1>5, Zenon DEF SettingsInv

\* Every step keeps the invariant.
LEMMA SettingsInvNext ==
    ASSUME SettingsAssumption, SettingsInv, [SettingsNext]_settingsVars
    PROVE  SettingsInv'
<1>1. CASE AddDefaults
  BY <1>1, AddDefaultsInv
<1>2. CASE AddEnvironment
  BY <1>2, AddEnvironmentInv
<1>3. CASE ParseChannelUrl
  BY <1>3, ParseChannelUrlInv
<1>4. CASE AddUrlProperties
  BY <1>4, AddUrlPropertiesInv
<1>5. CASE SetUserAndPassword
  BY <1>5, SetUserAndPasswordInv
<1>6. CASE UNCHANGED settingsVars
  BY <1>6, Zenon DEF settingsVars, SettingsInv, UserChosen, ValueChosen, UrlFollows,
                     Setting
<1> QED BY <1>1, <1>2, <1>3, <1>4, <1>5, <1>6 DEF SettingsNext

\* The user of a pool is the argument of the call, or the user in the URL, or the
\* default, where no property of the URL and of the environment names one; without
\* a URL, that of the environment before the default: for any environment, in any
\* order and any spelling of its names.
THEOREM UserIsChosen ==
    ASSUME SettingsAssumption PROVE SettingsSpec => []UserRule
<1> DEFINE full == FullName("userID")
           set  == {e \in given.env : NameOf(<<e.word>>).name = full}
           or(user, other) == IF user # <<>> THEN user ELSE other
<1>1. SettingsInv => UserChosen
  BY DEF SettingsInv
<1>2. /\ SaidValues(given.env, full) = {e.value : e \in set}
      /\ SaidValues(given.env, full) # {} <=> set # {}
      /\ {or(v, given.defaultUser) : v \in SaidValues(given.env, full)}
           = {or(e.value, given.defaultUser) : e \in set}
  BY DEF SaidValues
<1>3. UserChosen => UserRule
  BY <1>2 DEF UserChosen, UserRule
<1>4. SettingsInv => UserRule
  BY <1>1, <1>3
<1> QED BY <1>4, SettingsInvInit, SettingsInvNext, PTL DEF SettingsSpec

\* Every other setting that either the URL or the environment has counts for more
\* than the default, provided that URLs of the documented form are read as they
\* are meant.
THEOREM SourceIsChosen ==
    ASSUME SettingsAssumption, UrlsReadAsSaid PROVE SettingsSpec => []SourceCounts
<1>1. SettingsInv => ValueChosen
  BY DEF SettingsInv
<1>2. ValueChosen => SourceCounts
  <2> SUFFICES ASSUME ValueChosen, phase = "done",
                      given.said # NotSaid \/ given.url = <<>>,
                      NEW c \in Configs \ {"userID", "password"},
                      ~(/\ NamedIn(UrlSource(given), c) /\ NamedIn(given.env, c)),
                      Said(UrlSource(given) \cup given.env, Alias(c)) => c \in AliasFirst
               PROVE  LET said == UrlSource(given) \cup given.env
                      IN  Setting(c) \in
                            IF Heard(said, Alias(c)) THEN SaidValues(said, Alias(c))
                            ELSE IF Said(said, FullName(c))
                                 THEN SaidValues(said, FullName(c))
                            ELSE {Default[c]}
    BY DEF SourceCounts
  <2> DEFINE inUrl == UrlSource(given)
             said == inUrl \cup given.env
             last(n) == IF Said(inUrl, n) THEN SaidValues(inUrl, n)
                        ELSE SaidValues(given.env, n)
             a == Alias(c)
             f == FullName(c)
  <2>1. Setting(c) \in IF c \in AliasFirst /\ Heard(said, a) THEN last(a)
                       ELSE IF last(f) # {} THEN last(f) ELSE {Default[c]}
    BY DEF ValueChosen
  <2>2. ASSUME NEW n \in {a, f}
        PROVE  last(n) = SaidValues(said, n) /\ (last(n) # {} <=> Said(said, n))
    <3>1. ~Said(inUrl, n) \/ ~Said(given.env, n)
      BY DEF NamedIn
    <3>2. \A source : SaidValues(source, n) # {} <=> Said(source, n)
      BY DEF SaidValues, Said
    <3>3. SaidValues(said, n) = SaidValues(inUrl, n) \cup SaidValues(given.env, n)
      BY DEF SaidValues
    <3> QED BY <3>1, <3>2, <3>3
  <2>3. Heard(said, a) => Said(said, a)
    BY HeardIsSaid
  <2> HIDE DEF said, last, a, f, inUrl
  <2>4. Setting(c) \in IF Heard(said, a) THEN SaidValues(said, a)
                       ELSE IF Said(said, f) THEN SaidValues(said, f)
                       ELSE {Default[c]}
    <3>1. Heard(said, a) => c \in AliasFirst
      BY <2>3 DEF said, a, inUrl
    <3> QED BY <2>1, <2>2, <3>1
  <2> QED BY <2>4 DEF said, a, f, inUrl
<1>3. SettingsInv => SourceCounts
  BY <1>1, <1>2
<1> QED BY <1>3, SettingsInvInit, SettingsInvNext, PTL DEF SettingsSpec
=============================================================================
