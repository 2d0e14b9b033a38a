----------------------------- MODULE NodeParams -----------------------------
(***************************************************************************)
(* The parameters of a node as its factory reads them: every key of the    *)
(* manifest's JSON is given in snake_case and in camelCase.                *)
(* A key is a sequence of ASCII codes.  A JSON value is [is |-> "leaf",    *)
(* as |-> value], or "array" with a sequence, or "object" with a function. *)
(***************************************************************************)
EXTENDS Integers, Sequences
LOCAL INSTANCE SequencesExt

IsUpper(c) == c \in 65..90
IsLower(c) == c \in 97..122
IsDigit(c) == c \in 48..57
Underscore == 95
Dash == 45

Upper(c) == IF IsLower(c) THEN c - 32 ELSE c
Lower(c) == IF IsUpper(c) THEN c + 32 ELSE c

\* An underscore before an upper case letter that follows a lower case one or
\* a digit.
ToSnakeCase(key) ==
    FlattenSeq([i \in DOMAIN key |->
        IF IsUpper(key[i]) /\ i > 1 /\ (IsLower(key[i - 1]) \/ IsDigit(key[i - 1]))
        THEN <<Underscore, Lower(key[i])>>
        ELSE <<Lower(key[i])>>])

\* Underscores and dashes go, and what follows them becomes upper case.
ToCamelCase(key) ==
    FlattenSeq([i \in DOMAIN key |->
        IF key[i] \in {Underscore, Dash} THEN <<>>
        ELSE IF i > 1 /\ key[i - 1] \in {Underscore, Dash} THEN <<Upper(key[i])>>
        ELSE <<key[i]>>])

\* Keys are visited in the order of the map, a BTreeMap.
Before(a, b) ==
    LET n == Len(LongestCommonPrefix({a, b}))
    IN  IF n = Len(a) THEN n < Len(b)
        ELSE n < Len(b) /\ a[n + 1] < b[n + 1]

\* Faulty variant: an alias replaces what is there.
InsertOver(map, key, value) ==
    [k \in DOMAIN map \cup {key} |-> IF k = key THEN value ELSE map[k]]

\* What is there is never overwritten, by an alias or for one.
Insert(map, key, value) ==
    IF key \in DOMAIN map THEN map
    ELSE [k \in DOMAIN map \cup {key} |-> IF k = key THEN value ELSE map[k]]

Alias(map, key) ==
    Insert(Insert(map, ToSnakeCase(key), map[key]), ToCamelCase(key), map[key])

RECURSIVE AddCaseAliases(_)
AddCaseAliases(v) ==
    CASE v.is = "object" ->
            LET keys == SetToSortSeq(DOMAIN v.as, Before)
                aliased == FoldLeft(Alias, v.as, keys)
            IN  [is |-> "object", as |-> [k \in DOMAIN aliased |-> AddCaseAliases(aliased[k])]]
      [] v.is = "array" ->
            [is |-> "array", as |-> [i \in DOMAIN v.as |-> AddCaseAliases(v.as[i])]]
      [] OTHER -> v

-----------------------------------------------------------------------------
\* A field's name as Rust writes it, whose camelCase form says where its words
\* begin: no word but the first starts with a digit or follows one capital.
Letters(key) == \A i \in DOMAIN key : IsLower(key[i]) \/ IsDigit(key[i]) \/ key[i] = Underscore
Words(key) ==
    /\ key # <<>> /\ Letters(key)
    /\ key[1] # Underscore /\ key[Len(key)] # Underscore
    /\ \A i \in 2..Len(key) : ~(key[i] = Underscore /\ key[i - 1] = Underscore)
Reversible(key) ==
    \A i \in 2..Len(key) - 1 : key[i] = Underscore =>
        /\ IsLower(key[i + 1])
        /\ i > 2 => ~(key[i - 2] = Underscore /\ IsLower(key[i - 1]))

\* Manifest writers may use either form (params.rs 34): a struct that reads a
\* field by one of its names gets the value that was given under that name, or
\* else under the other one, at every level; what was given stays as it was.
FieldFound(object, field) ==
    LET read == AddCaseAliases([is |-> "object", as |-> object]).as
        given == DOMAIN object
        forms == {ToSnakeCase(field), ToCamelCase(field)}
    IN  /\ \A key \in given : read[key] = AddCaseAliases(object[key])
        /\ Words(field) /\ forms \cap given # {} /\ (field \in given \/ Reversible(field)) =>
            \A form \in forms :
                /\ form \in DOMAIN read
                /\ \/ form \in given
                   \/ \E key \in given :
                        /\ form \in {ToSnakeCase(key), ToCamelCase(key)}
                        /\ read[form] = AddCaseAliases(object[key])
=============================================================================
