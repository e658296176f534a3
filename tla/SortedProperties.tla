-------------------------- MODULE SortedProperties --------------------------
(***************************************************************************)
(* Lists of named values (client/goAPI/utils/SortedProperties.go).  The    *)
(* list is searched for a name in any case, and all entries that have it   *)
(* are set together: so a list is a function from names in lower case to   *)
(* their value, and to whether one of the entries has the name's exact     *)
(* spelling, the only one that GetProperty finds.  Texts are sequences of  *)
(* words; <<>> is the empty one.                                           *)
(***************************************************************************)
EXTENDS Integers, Sequences, TLC

NewSortedProperties == [n \in {} |-> <<>>]

DoesPropertyExist(props, name) == name \in DOMAIN props

SetProperty(props, name, value) ==
    IF DoesPropertyExist(props, name) THEN [props EXCEPT ![name].value = value]
    ELSE props

\* Mutant: what exists is left alone, and the new entry comes behind it.
AddPropertyBehind(props, name, exact, value) ==
    props @@ (name :> [value |-> value, exact |-> exact])

\* What exists is set, and an entry is appended all the same.
AddProperty(props, name, exact, value) ==
    LET old == DoesPropertyExist(props, name) /\ props[name].exact
    IN  [n \in DOMAIN props \cup {name} |->
            IF n = name THEN [value |-> value, exact |-> exact \/ old] ELSE props[n]]

\* What another list has is added, each name of it once.
AddProperties(props, more) ==
    [n \in DOMAIN props \cup DOMAIN more |->
        IF n \in DOMAIN more
        THEN AddProperty(props, n, more[n].exact, more[n].value)[n] ELSE props[n]]

\* The names are those of a configuration, its full name and its alias, in the
\* order in which they are sorted: the search ends at the first.
GetProperty(props, names, substitute) ==
    LET found == {i \in DOMAIN names :
                     DoesPropertyExist(props, names[i]) /\ props[names[i]].exact}
        first == CHOOSE i \in found : \A j \in found : i <= j
    IN  IF found = {} THEN substitute
        ELSE IF props[names[first]].value = <<>> THEN substitute
        ELSE props[names[first]].value
=============================================================================
