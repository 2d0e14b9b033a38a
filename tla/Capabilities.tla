---------------------------- MODULE Capabilities ----------------------------
(***************************************************************************)
(* The formats a node takes and gives, as constraints on the fields of its *)
(* ports' media, and when two constraints are compatible.                  *)
(* A constraint is [kind |-> "Exact", value], [kind |-> "Range", min, max] *)
(* or [kind |-> "Set", values]; an absent one is Any.  A JSON schema is no *)
(* constraint value: [kind |-> "Schema", admits], admits the documents     *)
(* that it admits.  A shape is a sequence of dimensions, each <<n>> or     *)
(* Dynamic.                                                                *)
(***************************************************************************)
EXTENDS Integers, Sequences

CONSTANT Values     \* the values a field or dimension can have, an interval of integers

ValuesAssumption ==
    Values \subseteq Int /\ \A a, b \in Values : a..b \subseteq Values

Exact(v) == [kind |-> "Exact", value |-> v]
Range(a, b) == [kind |-> "Range", min |-> a, max |-> b]
OneOf(set) == [kind |-> "Set", values |-> set]
Schema(documents) == [kind |-> "Schema", admits |-> documents]
Any == [kind |-> "Any"]

Constraints ==
    {Exact(v) : v \in Values} \cup {Range(a, b) : a \in Values, b \in Values}
        \cup {OneOf(set) : set \in SUBSET Values}

Satisfies(c, v) ==
    CASE c.kind = "Exact" -> v = c.value
      [] c.kind = "Range" -> v >= c.min /\ v <= c.max
      [] c.kind = "Set" -> v \in c.values

IsFlexible(c) == c.kind \in {"Range", "Set"}

\* Two ranges are compared by their ends, everything else by its values.
CompatibleOneWay(a, b) ==
    \/ a.kind = "Exact" /\ b.kind = "Exact" /\ a.value = b.value
    \/ a.kind = "Exact" /\ b.kind = "Range" /\ a.value >= b.min /\ a.value <= b.max
    \/ a.kind = "Exact" /\ b.kind = "Set" /\ a.value \in b.values
    \/ a.kind = "Range" /\ b.kind = "Range" /\ a.min <= b.max /\ b.min <= a.max
    \/ a.kind = "Range" /\ b.kind = "Set" /\ \E v \in b.values : v >= a.min /\ v <= a.max
    \/ a.kind = "Set" /\ b.kind = "Set" /\ \E v \in a.values : v \in b.values

CompatibleWith(a, b) == CompatibleOneWay(a, b) \/ CompatibleOneWay(b, a)

\* Shapes are compared as sequences of options: a dynamic dimension is equal to
\* another one, and to no size.
Dynamic == <<>>
Shapes == Seq({Dynamic} \cup {<<n>> : n \in Values})
ShapeConstraints ==
    [kind : {"Exact"}, value : Shapes] \cup [kind : {"Range"}, min : Shapes, max : Shapes]
        \cup [kind : {"Set"}, values : SUBSET Shapes]

\* The constrained fields of each medium; binary data have none.
MediaFields == [audio |-> {"sample_rate", "channels", "format"},
                video |-> {"width", "height", "framerate", "pixel_format"},
                tensor |-> {"shape", "dtype"},
                text |-> {"encoding", "format"},
                file |-> {"extensions", "mime_types"},
                json |-> {"schema"}, binary |-> {}]

\* What may be given for a field.
Constrains(f, c) ==
    CASE f = "schema" -> c \in {Schema(documents) : documents \in SUBSET Values}
      [] f = "shape" -> c \in ShapeConstraints
      [] OTHER -> c \in Constraints

Media(type, given) ==
    [type |-> type,
     fields |-> [f \in MediaFields[type] |-> IF f \in DOMAIN given THEN given[f] ELSE Any]]

\* JSON is not flexible, whatever its schema.
MediaIsFlexible(m) ==
    m.type # "json" /\ \E f \in MediaFields[m.type] : IsFlexible(m.fields[f])

-----------------------------------------------------------------------------
\* Constraints are compatible when some value satisfies both; of ranges this
\* needs that neither is upside down, which nothing checks.
Proper(c) == c.kind = "Range" => c.min <= c.max

Agree(a, b) ==
    /\ CompatibleWith(a, b) = CompatibleWith(b, a)
    /\ Proper(a) /\ Proper(b) =>
        (CompatibleWith(a, b) <=> \E v \in Values : Satisfies(a, v) /\ Satisfies(b, v))

\* What a constraint on a field lets through: documents, sizes of tensors (of a
\* declared shape, any where a dimension is dynamic), or values.
Extents(shape) ==
    {s \in [DOMAIN shape -> Values] : \A i \in DOMAIN shape : shape[i] \in {Dynamic, <<s[i]>>}}

Taken(f, c) ==
    CASE f = "schema" -> c.admits
      [] f = "shape" /\ c.kind = "Exact" -> Extents(c.value)
      [] OTHER -> {v \in Values : Satisfies(c, v)}

\* A medium that is not flexible leaves this much open: of a field it constrains
\* one value only will do, but for the dynamic dimensions of a shape and for the
\* documents of a JSON schema, any number of which never make it flexible.
Fixed(m) ==
    ~MediaIsFlexible(m) =>
        \A f \in MediaFields[m.type] : m.fields[f] = Any \/
            \A x, y \in Taken(f, m.fields[f]) :
                \/ x = y
                \/ f = "schema"
                \/ f = "shape" /\ \A i \in DOMAIN x : x[i] = y[i] \/ m.fields[f].value[i] = Dynamic
=============================================================================
