------------------------------ MODULE MCClient ------------------------------
(***************************************************************************)
(* The sequential parts of the client and the counter of its connections,  *)
(* each on a small instance.  They share no state: part says which of them *)
(* moves in a behaviour.  The others stay as they begin, in one of their   *)
(* initial states; Exchange, which is an instance, has no state then.      *)
(***************************************************************************)
EXTENDS ConnectionCount, Transaction, OutputStream, Attributes, EntityStream,
        Queries, Settings, TLC

Off == "off"

VARIABLES
    part,
    wire, sent, at, got                                        \* Exchange

Parts == {"count", "transaction", "output", "exchange", "attributes", "entities",
          "settings", "queries"}

-----------------------------------------------------------------------------
(* An edge that leaves node 2, and node 1 on the same connection or on     *)
(* another.  One object is changed in the ways that flag attributes, the   *)
(* other also in the way that does not.                                    *)

EndNodes == [e \in {3} |-> {2}]

WaysToSet == [o \in {1, 2, 3} |->
    CASE o = 1 -> {"SetOrCreateAttribute", "SetValue"}
      [] o = 2 -> {"SetOrCreateAttribute", "SetAttribute"}
      [] OTHER -> {}]

ASSUME TransactionAssumptions == ObjsAssumption /\ BoundsAssumption

-----------------------------------------------------------------------------
(* Streams that have to grow at every write, and those that need not; the  *)
(* values have digits of all places, both signs, and strings bytes that    *)
(* are zero, ASCII, and neither.                                           *)

Writables ==
    [Boolean |-> {TRUE}, Byte |-> {3}, Short |-> {-3, 6}, Int |-> {-1, 200},
     Long |-> {-2, 30000},
     UTF |-> {<<>>, <<0, 200, 7>>, <<0, 200, 201, 202, 203, 204, 0, 0>>},
     Bytes |-> {<<>>, <<1, 2>>}]

-----------------------------------------------------------------------------
(* One message of every class, and an exception after it.                  *)

M == INSTANCE MCMessages

X == INSTANCE Exchange WITH
        Radix <- 16, Magic <- 9000, Gmd <- M!Gmd, Samples <- M!Samples,
        OpCodes <- M!OpCodes, Followers <- {"Exception"}, MaxSent <- 2,
        Cuts <- {4, 60}, BufferSize <- 400

-----------------------------------------------------------------------------
(* Values of every kind: numbers inside and outside the ranges of the      *)
(* classes, and two of the kinds that a class may keep or refuse.          *)

OfKind(k, S) == [kind : {k}, v : S]

Settable ==
    UNION {OfKind("Bool", {0, 1}), OfKind("Uint8", {0, 1}), OfKind("Uint16", {5}),
           OfKind("Int16", {1}), OfKind("Int32", {1, 3}), OfKind("Int", {-1, 1}),
           OfKind("Int64", {1}), OfKind("Float32", {1}), OfKind("Float64", {1}),
           OfKind("String", {0, 1, 9}), OfKind("Text", {1, 2}),
           OfKind("Time", {1}), OfKind("Decimal", {1}), OfKind("Slice", {1}),
           OfKind("Array", {1})}

-----------------------------------------------------------------------------
(* Two nodes joined by an edge, and one with a loop.                       *)

Loops == [e \in {3, 4} |-> IF e = 3 THEN {1, 2} ELSE {2}]

-----------------------------------------------------------------------------
(* Texts of URLs of the documented form, with all properties, and with     *)
(* every environment; others; and none.                                    *)

D == INSTANCE MCSettings

SettingPorts      == D!SettingPorts
SettingSpelling   == D!SettingSpelling
SettingConfigs    == D!SettingConfigs
SettingAliasFirst == D!SettingAliasFirst
SettingDefaults   == D!SettingDefaults
SettingsGiven     == D!SettingsGiven

-----------------------------------------------------------------------------
(* Options inside and outside their ranges.                                *)

OptionsSet ==
    [fetchsize |-> {0, 5}, traversaldepth |-> {7, 1001},
     edgelimit |-> {0, 9}, batchsize |-> {5, 20},
     sortresultlimit |-> {0, 8}, sortattrname |-> {"", "age"}, sortorder |-> {0, 1}]

OptionsAdded ==
    {[name |-> "batchsize", exact |-> x, value |-> 30] : x \in BOOLEAN}
    \cup {[name |-> "edgelimit", exact |-> TRUE, value |-> v] : v \in {0, 50000}}
    \cup {[name |-> "fetchsize", exact |-> FALSE, value |-> 9]}
    \cup {[name |-> "sortattrname", exact |-> TRUE, value |-> ""]}

ASSUME DataAssumptions ==
    /\ OutputAssumption /\ WritableAssumption /\ RadixAssumption
    /\ X!ExchangeAssumption /\ X!MessagesAssumption
    /\ AttributesAssumption /\ StreamAssumption /\ QueriesAssumption
    /\ SettingsAssumption /\ UrlsReadAsSaid

-----------------------------------------------------------------------------
(* The parts together *)

counterVars  == vars
exchangeVars == <<wire, sent, at, got>>

\* The channels are interchangeable: the first connection has the first one.
CountBegins ==
    /\ Init
    /\ chanOf[CHOOSE c \in Conns : TRUE] = CHOOSE ch \in Chans : TRUE
    /\ part # "count" => ~overlap /\ OneChannel

\* Connections have the same behaviours under other names: object 2 is used
\* through the first.
TransactionBegins ==
    /\ home \in {[o \in Objs |-> IF o \in others THEN "c2" ELSE "c1"] :
                     others \in IF part = "transaction" THEN SUBSET (Objs \ {2})
                                ELSE {{}}}
    /\ TransactionInit

OutputBegins ==
    /\ IF part = "output" THEN TRUE ELSE buf = <<>>
    /\ OutputInit

AttributesBegins ==
    /\ type \in IF part = "attributes" THEN Types ELSE {1}
    /\ AttributesInit

\* An answer ends at the first entity that cannot be read: there is one.
AnswerBegins ==
    /\ IF part = "entities" THEN TRUE ELSE call = "Query" /\ answer = <<>>
    /\ StreamInit
    /\ Cardinality({id \in DOMAIN content : content[id] # "readable"}) <= 1

ExchangeBegins ==
    IF part = "exchange" THEN X!ExchangeInit
    ELSE wire = Off /\ sent = Off /\ at = Off /\ got = Off

SettingsBegin ==
    /\ given \in IF part = "settings" THEN Given ELSE {CHOOSE g \in Given : TRUE}
    /\ SettingsInit

QueriesBegin ==
    /\ QueriesInit
    /\ part # "queries" => ~mutable

ClientInit ==
    /\ part \in Parts
    /\ CountBegins /\ TransactionBegins /\ OutputBegins /\ AttributesBegins
    /\ AnswerBegins /\ ExchangeBegins /\ SettingsBegin /\ QueriesBegin

\* Bound: an answer is lost only where all objects have one connection.
LostBound == home[1] = home[2] \/ lost' = 0

\* Bounds: connections are connected and disconnected out of turn on one
\* channel, without overlap, where something is said of it; and the counter
\* stays near the numbers it has otherwise.
CountBound ==
    /\ paired' \/ (~overlap /\ OneChannel)
    /\ counter' \in -1 .. Cardinality(Conns) + 1

\* One part moves, and the others stay.
ClientNext ==
    /\ \/ part = "count"       /\ Next /\ CountBound
       \/ part = "transaction" /\ TransactionNext /\ LostBound
       \/ part = "output"      /\ OutputNext
       \/ part = "exchange"    /\ X!ExchangeNext
       \/ part = "attributes"  /\ AttributesNext
       \/ part = "entities"    /\ StreamNext
       \/ part = "settings"    /\ SettingsNext
       \/ part = "queries"     /\ QueriesNext
    /\ IF part = "count"       THEN TRUE ELSE UNCHANGED counterVars
    /\ IF part = "transaction" THEN TRUE ELSE UNCHANGED transactionVars
    /\ IF part = "output"      THEN TRUE ELSE UNCHANGED outputVars
    /\ IF part = "exchange"    THEN TRUE ELSE UNCHANGED exchangeVars
    /\ IF part = "attributes"  THEN TRUE ELSE UNCHANGED attributesVars
    /\ IF part = "entities"    THEN TRUE ELSE UNCHANGED streamVars
    /\ IF part = "settings"    THEN TRUE ELSE UNCHANGED settingsVars
    /\ IF part = "queries"     THEN TRUE ELSE UNCHANGED queryVars
    /\ UNCHANGED part

ClientSpec == ClientInit /\ [][ClientNext]_<<part, counterVars, transactionVars,
                  outputVars, exchangeVars, attributesVars, streamVars, settingsVars,
                  queryVars>>

-----------------------------------------------------------------------------
(* Properties of the instances, while they move: those of their modules    *)

\* Reads of parts of frames, or of several, give no message.
NeverTorn         == part = "exchange" => X!NeverTorn

\* A frame becomes a message of the class that wrote it, or none.
FactoryFindsClass == part = "exchange" => X!FactoryFindsClass

\* Every class reads what its peer writes.
Understood        == part = "exchange" => X!Understood
=============================================================================
