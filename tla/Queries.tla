------------------------------ MODULE Queries ------------------------------
(***************************************************************************)
(* Query options (client/goAPI/query/QueryOptionImpl.go), prepared queries *)
(* (QueryImpl.go), and the requests in which a connection sends them       *)
(* (ExecuteQuery..., GetEntity..., CreateQuery and CloseQuery of           *)
(* client/goAPI/connection/ConnectionImpl.go; QueryRequest.go and          *)
(* GetEntityRequest.go of client/goAPI/pdu).                               *)
(*                                                                         *)
(* Options are named values; a value passes two filters on its way, the    *)
(* setter of the option and the setter of the request.  The text of n is   *)
(* <<n>>, a truth is 1 or 0.  The application holds one options object,    *)
(* which prepared queries share.                                           *)
(***************************************************************************)
EXTENDS SortedProperties, Integers

CONSTANTS
    OptionValues, \* for each option, the values it is set to
    Additions,    \* the properties added: records of name, exact and value
    Hashes,       \* ids that the server gives to prepared queries
    MaxSets       \* bound: calls that change options

VARIABLES
    mutable, option,   \* the options object
    accepted,          \* for each option, the last value that was accepted, and
                       \* whether it was added as a property
    sets,              \* calls that changed options
    prepared,          \* the prepared query, or {}: a set of at most one
    request,           \* the last request, with accepted at that time
    result             \* what the last call returned

optionVars == <<mutable, option, accepted, sets>>
queryVars  == <<optionVars, prepared, request, result>>

Limits == {"batchsize", "fetchsize", "traversaldepth", "edgelimit", "sortresultlimit"}
Names  == Limits \cup {"sortattrname", "sortorder"}

NoText == ""

ValuesOf(name) == IF name = "sortattrname" THEN STRING ELSE Int

QueriesAssumption ==
    /\ DOMAIN OptionValues = Names
    /\ \A n \in Names : \A v \in OptionValues[n] : v \in ValuesOf(n)
    /\ \A p \in Additions : /\ p.name \in Names /\ p.exact \in BOOLEAN
                            /\ p.value \in ValuesOf(p.name)
    /\ MaxSets \in Nat

DefaultQueryOption == [mutable |-> FALSE, option |-> NewSortedProperties]

\* Every option but the batch size.
Preloaded == [fetchsize |-> <<1000>>, traversaldepth |-> <<3>>, edgelimit |-> <<0>>,
              sortattrname |-> <<>>, sortorder |-> <<0>>, sortresultlimit |-> <<0>>]

NewQueryOption ==
    [mutable |-> TRUE,
     option  |-> [n \in DOMAIN Preloaded |-> [value |-> Preloaded[n], exact |-> TRUE]]]

NoRequest == [command |-> "none"]

QueriesInit ==
    /\ \E o \in {DefaultQueryOption, NewQueryOption} :
          mutable = o.mutable /\ option = o.option
    /\ accepted = NewSortedProperties /\ sets = 0
    /\ prepared = {} /\ request = NoRequest /\ result = "none"

-----------------------------------------------------------------------------
(* Options *)

\* Mutant: 0 stays.
KeptAsItIs(name, v) == v

\* Setters keep -1 for 0.
Kept(name, v) == IF name \in Limits /\ v = 0 THEN -1 ELSE v

Refused(name, v) ==
    \/ name = "sortresultlimit" /\ v <= 0
    \/ name = "sortattrname" /\ v = NoText

Text(name, v) == IF name = "sortattrname" /\ v = NoText THEN <<>> ELSE <<v>>

Accept(name, v, added) ==
    /\ accepted' = [n \in DOMAIN accepted \cup {name} |->
                       IF n = name THEN [value |-> v, added |-> added] ELSE accepted[n]]
    /\ sets' = sets + 1

\* A setter sets what is there: the batch size is not.
SetAnOption(name, v) ==
    /\ sets < MaxSets /\ mutable /\ ~Refused(name, v)
    /\ option' = SetProperty(option, name, <<Kept(name, v)>>)
    /\ Accept(name, v, FALSE)
    /\ UNCHANGED <<mutable, prepared, request, result>>

\* Options are properties, and AddProperty asks neither whether they are
\* mutable nor for the range of the value.
AddAnOption(p) ==
    /\ sets < MaxSets
    /\ option' = AddProperty(option, p.name, p.exact, Text(p.name, p.value))
    /\ Accept(p.name, p.value, TRUE)
    /\ UNCHANGED <<mutable, prepared, request, result>>

\* A property that is missing is the default; that of the batch size is that of
\* the prefetch size.
Missing(name) == IF name = "batchsize" THEN 1000 ELSE Preloaded[name][1]

MaxInt == 2147483647
MinInt == -MaxInt - 1

\* Of a number beyond 32 bits, the nearest.
ParseInt(n) == IF n > MaxInt THEN MaxInt ELSE IF n < MinInt THEN MinInt ELSE n

GetNumber(props, name) ==
    IF DoesPropertyExist(props, name)
    THEN ParseInt(GetProperty(props, <<name>>,
                     <<IF name = "batchsize" THEN 50 ELSE Missing(name)>>)[1])
    ELSE Missing(name)

-----------------------------------------------------------------------------
(* Requests *)

Within(v, low, high, otherwise) == IF v < low \/ v > high THEN otherwise ELSE v

SetBatchSize(v)       == Within(v, 10, 32767, 50)
SetEdgeLimit(v)       == Within(v, 0, 32767, 1000)
SetFetchSize(v)       == IF v < 0 THEN 1000 ELSE v
SetTraversalDepth(v)  == Within(v, 1, 1000, 3)
SetSortResultLimit(v) == IF v < 0 THEN 50 ELSE v

DefaultGetEntityRequest ==
    [fetchsize |-> 1000, batchsize |-> 50, traversaldepth |-> 3, edgelimit |-> 0]

DefaultQueryRequest ==
    [fetchsize |-> 1000, batchsize |-> 50, traversaldepth |-> 3, edgelimit |-> 0,
     sortattrname |-> NoText, sortorder |-> 0, sortresultlimit |-> 50]

ConfigureGetRequest(props) ==
    [fetchsize      |-> SetFetchSize(GetNumber(props, "fetchsize")),
     traversaldepth |-> SetTraversalDepth(GetNumber(props, "traversaldepth")),
     edgelimit      |-> SetEdgeLimit(GetNumber(props, "edgelimit")),
     batchsize      |-> SetBatchSize(GetNumber(props, "batchsize"))]

\* The order is descending if the text is that of a truth.
ConfigureQueryRequest(props) ==
    LET get == ConfigureGetRequest(props)
    IN  [fetchsize       |-> get.fetchsize,
         traversaldepth  |-> get.traversaldepth,
         edgelimit       |-> get.edgelimit,
         batchsize       |-> get.batchsize,
         sortattrname    |-> GetProperty(props, <<"sortattrname">>, <<NoText>>)[1],
         sortorder       |-> IF GetProperty(props, <<"sortorder">>, <<0>>) = <<1>>
                             THEN 1 ELSE 0,
         sortresultlimit |-> SetSortResultLimit(GetNumber(props, "sortresultlimit"))]

\* The options with which a request is made: what was accepted for them, the
\* names that exist, in any case, and those that can be found.
With(isNil, acc, props) ==
    [isNil |-> isNil, accepted |-> acc, known |-> DOMAIN props,
     found |-> {n \in DOMAIN props : props[n].exact}]

NoOptions == With(TRUE, NewSortedProperties, NewSortedProperties)
Options   == With(FALSE, accepted, option)
Immutable == With(FALSE, NewSortedProperties, NewSortedProperties)

Send(command, id, sent, with) ==
    request' = [command |-> command, id |-> id, sent |-> sent, with |-> with]

-----------------------------------------------------------------------------
(* Calls.  An error of the channel is returned; an answer without results  *)
(* is nil, and no error.                                                   *)

Returns(results) == result' \in {"error", "nil"} \cup results

\* ExecuteQuery, ExecuteQueryWithFilter and ExecuteGremlinQuery: without options
\* the request keeps its own defaults.  The last returns the caller's collection
\* as it came.
ExecuteQuery(command, isNil) ==
    /\ IF isNil THEN Send(command, 0, DefaultQueryRequest, NoOptions)
       ELSE Send(command, 0, ConfigureQueryRequest(option), Options)
    /\ Returns(IF command = "gremlin" THEN {"collection"} ELSE {"results"})
    /\ UNCHANGED <<optionVars, prepared>>

\* GetEntity and GetEntities: without options, new ones.
GetEntity(command, isNil) ==
    /\ IF isNil THEN Send(command, 0, ConfigureGetRequest(NewQueryOption.option), NoOptions)
       ELSE Send(command, 0, ConfigureGetRequest(option), Options)
    /\ Returns({"results"})
    /\ UNCHANGED <<optionVars, prepared>>

\* A query that the server refuses is nil, and no error.  One that it accepts
\* has options of its own, which nobody can change.
CreateQuery ==
    /\ Send("create", 0, DefaultQueryRequest, NoOptions)
    /\ \/ result' \in {"error", "nil"} /\ UNCHANGED prepared
       \/ /\ result' = "query"
          /\ \E h \in Hashes : prepared' = {[id |-> h, shares |-> FALSE]}
    /\ UNCHANGED optionVars

\* TGQuery.SetOption: the application's object.
SetOption ==
    /\ \E q \in prepared : prepared' = {[q EXCEPT !.shares = TRUE]}
    /\ UNCHANGED <<optionVars, request, result>>

\* TGQuery.Execute, by ExecuteQueryWithId, which does not look at the answer:
\* nil, whatever it is.  Parameters are not sent.
Execute ==
    /\ \E q \in prepared :
          Send("executed", q.id,
               ConfigureQueryRequest(IF q.shares THEN option ELSE DefaultQueryOption.option),
               IF q.shares THEN Options ELSE Immutable)
    /\ result' = "nil"
    /\ UNCHANGED <<optionVars, prepared>>

\* TGQuery.Close: the object keeps its id.
CloseQuery ==
    /\ \E q \in prepared : Send("close", q.id, DefaultQueryRequest, NoOptions)
    /\ result' = "nil"
    /\ UNCHANGED <<optionVars, prepared>>

QueriesNext ==
    \/ \E n \in Names : \E v \in OptionValues[n] : SetAnOption(n, v)
    \/ \E p \in Additions : AddAnOption(p)
    \/ \E isNil \in BOOLEAN :
        \/ \E command \in {"execute", "filter", "gremlin"} : ExecuteQuery(command, isNil)
        \/ \E command \in {"entity", "entities"} : GetEntity(command, isNil)
    \/ CreateQuery \/ SetOption \/ Execute \/ CloseQuery

QueriesSpec == QueriesInit /\ [][QueriesNext]_queryVars

-----------------------------------------------------------------------------
(* Properties *)

\* The value sent for an option, the default if none was accepted that can be
\* found: the one accepted, if it is documented.  0 is not, for setters take it
\* for -1; added as a property it goes as far as the setter of the request.
Carries(sent, with, name, low, high, default, otherwise) ==
    IF name \notin with.found \cap DOMAIN with.accepted THEN sent = default
    ELSE LET v     == ParseInt(with.accepted[name].value)
             added == with.accepted[name].added
         IN  sent = IF low <= v /\ v <= high /\ (v # 0 \/ added) THEN v ELSE otherwise

CarriesLimits(sent, with) ==
    LET set == with.found \cap DOMAIN with.accepted
        unlimited == /\ "edgelimit" \in set
                     /\ with.accepted["edgelimit"] = [value |-> 0, added |-> FALSE]
    IN  /\ "batchsize" \in set => Carries(sent.batchsize, with, "batchsize", 10, 32767, 50, 50)
        /\ Carries(sent.fetchsize, with, "fetchsize", 0, MaxInt, 1000, 1000)
        /\ Carries(sent.traversaldepth, with, "traversaldepth", 1, 1000, 3, 3)
        /\ ~unlimited => Carries(sent.edgelimit, with, "edgelimit", 0, 32767, 0, 1000)

CarriesOrder(sent, with) ==
    /\ Carries(sent.sortresultlimit, with, "sortresultlimit", 0, MaxInt, 0, 50)
    /\ LET set == with.found \cap DOMAIN with.accepted
       IN  /\ sent.sortattrname = IF "sortattrname" \in set
                                  THEN with.accepted["sortattrname"].value ELSE NoText
           /\ sent.sortorder = 1 <=> /\ "sortorder" \in set
                                     /\ with.accepted["sortorder"].value = 1

\* A request carries what was last accepted, if it is in the range of the request:
\* from 1 to the limit of the field, and 0 where it is added as a property.  For
\* what is not, the request has its own value.  Nothing is said of two cases in
\* which the code does not do what is documented: of SetEdgeLimit(0), "which means
\* unlimited" and sends 1000; and of a batch size that was not added as a property
\* under its exact name, for SetBatchSize is not heard then, and the default is not
\* the documented 50 but 1000.
LimitsSent ==
    request # NoRequest /\ ~request.with.isNil =>
        /\ CarriesLimits(request.sent, request.with)
        /\ request.command \notin {"entity", "entities"} =>
              CarriesOrder(request.sent, request.with)
=============================================================================
