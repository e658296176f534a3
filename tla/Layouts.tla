------------------------------ MODULE Layouts ------------------------------
(***************************************************************************)
(* A language for the WritePayload and ReadPayload methods of the          *)
(* messages, and for the WriteExternal and ReadExternal methods of what    *)
(* is inside them: a layout is the sequence of the write, or read, calls   *)
(* that such a method makes.  What is written and read is a body: the      *)
(* fields of an object, as a function from their names.                    *)
(***************************************************************************)
EXTENDS Streams, TLC

\* A field is written, or read and stored.
F(name, kind) == [op |-> "field", name |-> name, kind |-> kind]

\* A constant is written; a value is read and forgotten.
Const(kind, v) == [op |-> "const", kind |-> kind, val |-> v]
Skip(kind)     == Const(kind, 0)

\* A boolean that says that a string is empty, and the string if it is not.
Optional(name) == [op |-> "optional", name |-> name, kind |-> "Boolean"]

\* The layout, if a field has, or does not have, one of the values.
If(name, vals, layout) ==
    [op |-> "if", name |-> name, vals |-> vals, layout |-> layout]
Unless(name, vals, layout) ==
    [op |-> "unless", name |-> name, vals |-> vals, layout |-> layout]

\* A count, and the layout for each body of a list.
Many(name, kind, layout) ==
    [op |-> "many", name |-> name, kind |-> kind, layout |-> layout]

\* The layout for each body of a list; written only.
Each(name, layout) == [op |-> "each", name |-> name, layout |-> layout]

\* Errors that a method makes itself: if a field has none of the values, or one
\* of them; if nothing follows.
Refuse(name, vals, e) ==
    [op |-> "refuse", name |-> name, vals |-> vals, err |-> e]
Distinct(name, vals, e) ==
    [op |-> "distinct", name |-> name, vals |-> vals, err |-> e]
More(e) == [op |-> "more", err |-> e]

\* An error of a write method, if a field has the value.
Insist(name, not, e) == [op |-> "insist", name |-> name, not |-> not, err |-> e]

\* A field is read, and the position put back.
Peek(name, kind) == [op |-> "peek", name |-> name, kind |-> kind]

\* The length of what the layout writes and of itself, which is written last;
\* when it is read it is forgotten.
Sized(layout) == [op |-> "sized", layout |-> layout, kind |-> "Int"]

\* The layout that belongs to a field's value; an error for any other value.
Switch(name, on, e) == [op |-> "switch", name |-> name, on |-> on, err |-> e]

\* A count, and as many tuples of numbers; the errors of the reads are
\* ignored, and -1 is stored for what is not there.  Only the numbers that are
\* there are listed.
Numbers(name, kinds) ==
    [op |-> "numbers", name |-> name, kinds |-> kinds, kind |-> "Int"]

\* While bytes are left: an opcode, and the layout that belongs to it.
Sections(on) == [op |-> "sections", on |-> on]

\* A count; until there have been as many: a byte with a type, a count of
\* bodies of that type, and the bodies, of which those with system names are
\* dropped, if drop says so.  on maps the type to [name, layout, drop].
Groups(on) == [op |-> "groups", on |-> on, kind |-> "Int"]

NoBody == [x \in {} |-> 0]
With(body, name, v) == (name :> v) @@ body

-----------------------------------------------------------------------------
RECURSIVE Write(_, _)

WriteAll(body, layout) ==
    FlattenSeq([i \in DOMAIN layout |-> Write(body, layout[i])])

WriteEach(bodies, layout) ==
    FlattenSeq([i \in DOMAIN bodies |-> WriteAll(bodies[i], layout)])

Write(body, item) ==
    CASE item.op = "field" -> Encode(item.kind, body[item.name])
      [] item.op = "const" -> Encode(item.kind, item.val)
      [] item.op = "optional" ->
            IF body[item.name] = <<>> THEN BooleanBytes(TRUE)
            ELSE BooleanBytes(FALSE) \o UTFBytes(body[item.name])
      [] item.op = "if" ->
            IF body[item.name] \in item.vals THEN WriteAll(body, item.layout)
            ELSE <<>>
      [] item.op = "unless" ->
            IF body[item.name] \in item.vals THEN <<>>
            ELSE WriteAll(body, item.layout)
      [] item.op = "many" ->
            Encode(item.kind, Len(body[item.name]))
                \o WriteEach(body[item.name], item.layout)
      [] item.op = "each" -> WriteEach(body[item.name], item.layout)
      [] item.op = "sized" ->
            LET b == WriteAll(body, item.layout) IN IntBytes(Len(b) + 4) \o b
      [] item.op \in {"insist", "refuse", "distinct", "more", "peek"} -> <<>>
      [] item.op = "switch" ->
            IF body[item.name] \in DOMAIN item.on
            THEN WriteAll(body, item.on[body[item.name]]) ELSE <<>>
      [] item.op = "numbers" ->
            Encode("Int", Len(body[item.name]) \div Len(item.kinds))
                \o FlattenSeq([i \in DOMAIN body[item.name] |->
                       Encode(item.kinds[1 + ((i - 1) % Len(item.kinds))],
                              body[item.name][i])])

\* The first error of a write method.
WriteError(body, layout) ==
    LET bad == SelectSeq(layout, LAMBDA i : i.op = "insist" /\ body[i.name] = i.not)
    IN  IF bad = <<>> THEN "none" ELSE Head(bad).err

-----------------------------------------------------------------------------
(* Reading: a stream and the body read so far.  After an error nothing     *)
(* more is read.                                                           *)

Reading(in) == [in |-> in, body |-> NoBody]

Stored(st, name, in) ==
    [in |-> in, body |-> IF in.err = "none" THEN With(st.body, name, in.val)
                         ELSE st.body]

RECURSIVE Parse(_, _), ParseAll(_, _), ParseBodies(_, _, _, _)

ParseAll(st, layout) ==
    IF layout = <<>> THEN st ELSE ParseAll(Parse(st, Head(layout)), Tail(layout))

\* As many bodies as the count says, behind those of the list.
ParseBodies(in, count, layout, list) ==
    IF in.err # "none" \/ count <= 0 THEN [in EXCEPT !.val = list]
    ELSE LET r == ParseAll(Reading(in), layout)
         IN  ParseBodies(r.in, count - 1, layout, Append(list, r.body))

ParseMany(st, count, name, layout) ==
    Stored(st, name, ParseBodies(st.in, count, layout, <<>>))

\* What there is of count tuples of numbers.
RECURSIVE ReadNumbers(_, _, _, _)
ReadNumbers(in, count, kinds, list) ==
    IF Len(list) >= count * Len(kinds) THEN [in EXCEPT !.val = list]
    ELSE LET r == Read(in, kinds[1 + (Len(list) % Len(kinds))])
         IN  IF r.err # "none" THEN [in EXCEPT !.val = list]
             ELSE ReadNumbers(r, count, kinds, Append(list, r.val))

RECURSIVE ParseSections(_, _)
ParseSections(st, on) ==
    IF st.in.err # "none" \/ Available(st.in) <= 0 THEN st
    ELSE LET s == [st EXCEPT !.in = Read(@, "Short")]
             layout == IF s.in.err = "none" /\ s.in.val \in DOMAIN on
                       THEN on[s.in.val] ELSE <<>>
         IN  ParseSections(ParseAll(s, layout), on)

\* Names that begin with @ or $.
SystemName(name) == name # <<>> /\ name[1] \in {64, 36}

\* The bodies of a group join those of its kind that were read before.
Grouped(st, g, in) ==
    IF in.err # "none" THEN [st EXCEPT !.in = in]
    ELSE LET kept == SelectSeq(in.val, LAMBDA b : ~g.drop \/ ~SystemName(b["name"]))
         IN  [in |-> in, body |-> With(st.body, g.name, st.body[g.name] \o kept)]

RECURSIVE ParseGroups(_, _, _)
ParseGroups(st, count, on) ==
    IF st.in.err # "none" \/ count <= 0 THEN st
    ELSE LET t == Read(st.in, "Byte")
             n == Read(t, "Int")
             g == on[t.val]
         IN  IF n.err # "none" THEN [st EXCEPT !.in = n]
             ELSE ParseGroups(IF t.val \in DOMAIN on
                              THEN Grouped(st, g, ParseBodies(n, n.val, g.layout, <<>>))
                              ELSE [st EXCEPT !.in = n],
                              count - n.val, on)

\* An item that begins with a value, which was read: st is behind it.
ParseValue(st, item, before) ==
    LET ok == st.in.err = "none" IN
    CASE item.op = "field" -> Stored(st, item.name, st.in)
      [] item.op = "const" -> st
      [] item.op = "optional" ->
            Stored(st, item.name, IF ok /\ st.in.val THEN [st.in EXCEPT !.val = <<>>]
                                  ELSE ReadUTF(st.in))
      [] item.op = "peek" ->
            Stored(st, item.name, IF ok THEN [st.in EXCEPT !.pos = before] ELSE st.in)
      [] item.op = "sized" -> ParseAll(st, item.layout)
      [] item.op = "many" ->
            ParseMany(st, IF ok THEN st.in.val ELSE 0, item.name, item.layout)
      [] item.op = "numbers" ->
            IF ok THEN Stored(st, item.name, ReadNumbers(st.in, st.in.val, item.kinds, <<>>))
            ELSE st
      [] item.op = "groups" ->
            LET names == {item.on[t].name : t \in DOMAIN item.on}
            IN  IF ok THEN ParseGroups([st EXCEPT !.body = [n \in names |-> <<>>] @@ @],
                                       st.in.val, item.on)
                ELSE st

\* The error an item makes of what was read before.
Refuses(st, item) ==
    CASE item.op = "refuse"   -> st.body[item.name] \notin item.vals
      [] item.op = "distinct" -> st.body[item.name] \in item.vals
      [] item.op = "more"     -> Available(st.in) <= 0
      [] item.op = "switch"   -> st.body[item.name] \notin DOMAIN item.on
                                    /\ item.err # "none"
      [] OTHER -> FALSE

\* The layout an item chooses by what was read before.
Chosen(body, item) ==
    CASE item.op = "if" /\ body[item.name] \in item.vals -> item.layout
      [] item.op = "unless" /\ body[item.name] \notin item.vals -> item.layout
      [] item.op = "switch" /\ body[item.name] \in DOMAIN item.on ->
            item.on[body[item.name]]
      [] OTHER -> <<>>

Parse(st, item) ==
    IF st.in.err # "none" THEN st
    ELSE IF "kind" \in DOMAIN item
    THEN ParseValue([st EXCEPT !.in = Read(@, item.kind)], item, st.in.pos)
    ELSE IF item.op = "sections" THEN ParseSections(st, item.on)
    ELSE IF Refuses(st, item) THEN [st EXCEPT !.in = Failed(@, item.err)]
    ELSE ParseAll(st, Chosen(st.body, item))
=============================================================================
