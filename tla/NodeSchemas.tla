----------------------------- MODULE NodeSchemas -----------------------------
(***************************************************************************)
(* The schemas of node types: how one is made from a node's configuration, *)
(* the registry that collects them, the parameters a host reads from one   *)
(* and the TypeScript types generated for it.                              *)
(* A JSON value is [json |-> type, is |-> value].  A JSON schema is a      *)
(* function from keywords; "type" is a sequence of type names (several for *)
(* an optional field), "enum" and "oneOf" are sequences.                   *)
(* A TypeScript type is the sequence of the alternatives its text has at   *)
(* the top level, each [ts |-> sort, of |-> parts].                        *)
(***************************************************************************)
EXTENDS Integers, Sequences
LOCAL INSTANCE SequencesExt

Has(prop, keyword) == keyword \in DOMAIN prop
Get(prop, keyword, default) == IF Has(prop, keyword) THEN prop[keyword] ELSE default
Ts(sort, parts) == <<[ts |-> sort, of |-> parts]>>

\* The name of a property's type: absent unless "type" is one string.
TypeName(prop) ==
    IF Has(prop, "type") /\ Len(prop["type"]) = 1 THEN prop["type"][1] ELSE "none"

\* "[]" is put behind the text and binds to its last alternative only.
ArrayOf(text) ==
    [text EXCEPT ![Len(text)] = [ts |-> "array", of |-> <<text[Len(text)]>>]]

Literal(v) ==
    IF v.json \in {"string", "number", "bool"} THEN Ts("literal", v) ELSE Ts("unknown", <<>>)

RECURSIVE JsonSchemaToTypescript(_)
JsonSchemaToTypescript(prop) ==
    LET type == TypeName(prop)
        items == JsonSchemaToTypescript(prop["items"])
        fields == prop["properties"]
    IN  CASE Has(prop, "enum") -> FlattenSeq([i \in DOMAIN prop["enum"] |-> Literal(prop["enum"][i])])
          [] ~Has(prop, "enum") /\ Has(prop, "oneOf") ->
                FlattenSeq([i \in DOMAIN prop["oneOf"] |-> JsonSchemaToTypescript(prop["oneOf"][i])])
          [] OTHER ->
                CASE type = "string" -> Ts("string", <<>>)
                  [] type \in {"number", "integer"} -> Ts("number", <<>>)
                  [] type = "boolean" -> Ts("boolean", <<>>)
                  [] type = "null" -> Ts("null", <<>>)
                  [] type = "array" ->
                        ArrayOf(IF Has(prop, "items") THEN items ELSE Ts("unknown", <<>>))
                  [] type = "object" ->
                        IF Has(prop, "properties")
                        THEN Ts("object", [k \in DOMAIN fields |-> JsonSchemaToTypescript(fields[k])])
                        ELSE Ts("record", IF Has(prop, "additionalProperties")
                                          THEN JsonSchemaToTypescript(prop["additionalProperties"])
                                          ELSE Ts("unknown", <<>>))
                  [] OTHER -> Ts("unknown", <<>>)

-----------------------------------------------------------------------------
\* The schema's own settings, before any builder ran.
NewSchema(type) ==
    [node_type |-> type, accepts |-> <<>>, produces |-> <<>>, config_schema |-> <<>>,
     config_defaults |-> <<>>, is_python |-> FALSE, streaming |-> TRUE, multi_output |-> FALSE]

\* What derive(NodeConfig) implements, as the schema of its type.
ToNodeSchema(config) ==
    [NewSchema(config.node_type) EXCEPT
        !.accepts = config.accepts,
        !.produces = config.produces,
        !.multi_output = config.multi_output,
        !.config_schema = <<config.json_schema>>,
        !.config_defaults = config.defaults]

Properties(schema) == schema.config_schema[1]["properties"]
RequiredNames(schema) == Get(schema.config_schema[1], "required", {})

\* One parameter for each property; a type that is not one known name counts
\* as a string.
ParameterTypes == {"string", "number", "integer", "boolean", "array", "object"}

Parameter(schema, name) ==
    LET prop == Properties(schema)[name]
    IN  [name |-> name,
         param_type |-> IF TypeName(prop) \in ParameterTypes THEN TypeName(prop) ELSE "string",
         required |-> name \in RequiredNames(schema),
         enum_values |-> Get(prop, "enum", <<>>)]

GetParameters(schema) ==
    IF schema.config_schema = <<>> THEN {}
    ELSE IF ~Has(schema.config_schema[1], "properties") THEN {}
    ELSE {Parameter(schema, name) : name \in DOMAIN Properties(schema)}

\* A field of an interface: optional unless it is required.
InterfaceField(schema, name) ==
    [optional |-> name \notin RequiredNames(schema),
     type |-> JsonSchemaToTypescript(Properties(schema)[name])]

GenerateTypescriptInterface(schema) ==
    IF schema.config_schema = <<>> THEN <<>>
    ELSE IF ~Has(schema.config_schema[1], "properties") THEN <<>>
    ELSE [name \in DOMAIN Properties(schema) |-> InterfaceField(schema, name)]

\* A registry is a function from node types: a later schema of a type
\* replaces the earlier one, without a word.
Register(registry, schema) ==
    [t \in DOMAIN registry \cup {schema.node_type} |->
        IF t = schema.node_type THEN schema ELSE registry[t]]

CollectRegisteredConfigs(configs) ==
    FoldLeft(LAMBDA r, c : Register(r, ToNodeSchema(c)), <<>>, configs)

\* The kinds of data by the names they have in TypeScript, and the union of
\* names that is written for them.
RuntimeDataType == [Audio |-> "audio", Video |-> "video", Image |-> "image", Json |-> "json",
                    Text |-> "text", Binary |-> "binary", Tensor |-> "tensor",
                    Numpy |-> "numpy", ControlMessage |-> "control"]

DeclaredDataTypes == {"audio", "video", "json", "text", "binary", "tensor", "numpy", "control"}

GenerateTypescript(registry) ==
    [data_types |-> DeclaredDataTypes,
     interfaces |-> [t \in DOMAIN registry |-> GenerateTypescriptInterface(registry[t])],
     configs |-> DOMAIN registry]

-----------------------------------------------------------------------------
\* What a JSON schema admits, and what a TypeScript type does: both take an
\* object with more fields than they speak of.
SameJson(v, w) == v.json = w.json /\ v.is = w.is

Fields(prop) == IF Has(prop, "properties") THEN DOMAIN prop["properties"] ELSE {}

RECURSIVE Admits(_, _)
Admits(prop, v) ==
    LET HasType(type) ==
            CASE type = "string" -> v.json = "string"
              [] type \in {"number", "integer"} -> v.json = "number"
              [] type = "boolean" -> v.json = "bool"
              [] type = "null" -> v.json = "null"
              [] type = "array" ->
                    /\ v.json = "array"
                    /\ Has(prop, "items") => \A i \in DOMAIN v.is : Admits(prop["items"], v.is[i])
              [] type = "object" ->
                    /\ v.json = "object"
                    /\ Get(prop, "required", {}) \subseteq DOMAIN v.is
                    /\ \A k \in DOMAIN v.is : k \in Fields(prop) => Admits(prop["properties"][k], v.is[k])
                    /\ Has(prop, "additionalProperties") =>
                        \A k \in DOMAIN v.is \ Fields(prop) : Admits(prop["additionalProperties"], v.is[k])
    IN  /\ Has(prop, "enum") => \E i \in DOMAIN prop["enum"] : SameJson(v, prop["enum"][i])
        /\ Has(prop, "oneOf") => \E i \in DOMAIN prop["oneOf"] : Admits(prop["oneOf"][i], v)
        /\ Has(prop, "type") => \E i \in DOMAIN prop["type"] : HasType(prop["type"][i])

RECURSIVE HasTsType(_, _)
HasTsType(text, v) ==
    LET Is(alternative) ==
            CASE alternative.ts = "unknown" -> TRUE
              [] alternative.ts = "literal" -> SameJson(v, alternative.of)
              [] alternative.ts = "array" ->
                    v.json = "array" /\ \A i \in DOMAIN v.is : HasTsType(alternative.of, v.is[i])
              [] alternative.ts = "object" ->
                    /\ v.json = "object" /\ DOMAIN alternative.of \subseteq DOMAIN v.is
                    /\ \A k \in DOMAIN alternative.of : HasTsType(alternative.of[k], v.is[k])
              [] alternative.ts = "record" ->
                    v.json = "object" /\ \A k \in DOMAIN v.is : HasTsType(alternative.of, v.is[k])
              [] alternative.ts = "boolean" -> v.json = "bool"
              [] OTHER -> v.json = alternative.ts
    IN  \E i \in DOMAIN text : Is(text[i])

\* Arrays of alternatives, whose text means something else.
RECURSIVE UnionArray(_)
UnionArray(prop) ==
    \/ /\ TypeName(prop) = "array" /\ Has(prop, "items")
       /\ Len(JsonSchemaToTypescript(prop["items"])) > 1 \/ UnionArray(prop["items"])
    \/ Has(prop, "oneOf") /\ \E i \in DOMAIN prop["oneOf"] : UnionArray(prop["oneOf"][i])
    \/ Has(prop, "properties") /\ \E k \in DOMAIN prop["properties"] : UnionArray(prop["properties"][k])
    \/ Has(prop, "additionalProperties") /\ UnionArray(prop["additionalProperties"])

\* Objects with a field that may be missing: "required" is read of a
\* configuration itself only, and not of what is in it.
RECURSIVE FieldsOptional(_)
FieldsOptional(prop) ==
    \/ TypeName(prop) = "object" /\ ~(Fields(prop) \subseteq Get(prop, "required", {}))
    \/ \E k \in Fields(prop) : FieldsOptional(prop["properties"][k])
    \/ \E k \in {"items", "additionalProperties"} : Has(prop, k) /\ FieldsOptional(prop[k])
    \/ Has(prop, "oneOf") /\ \E i \in DOMAIN prop["oneOf"] : FieldsOptional(prop["oneOf"][i])

\* What a field of a configuration may be, its TypeScript type lets one write
\* (schema.rs 527-542); the exceptions are arrays of alternatives, and objects
\* with optional fields, all of which the type demands.
Typed(prop, v) ==
    Admits(prop, v) /\ ~UnionArray(prop) /\ ~FieldsOptional(prop) =>
        HasTsType(JsonSchemaToTypescript(prop), v)

\* The kinds of data that the nodes of a registry take and make.
Kinds(registry) ==
    UNION {ToSet(registry[t].accepts) \cup ToSet(registry[t].produces) : t \in DOMAIN registry}

\* Every registered node has one interface with a field for each parameter,
\* optional just when the parameter is, and its kinds of data have names, all
\* but images: the type generated for all kinds (schema.rs 549-553) lacks the
\* name that an interface uses for them (90).
Declared(configs) ==
    LET registry == CollectRegisteredConfigs(configs)
        out == GenerateTypescript(registry)
    IN  /\ out.configs = {configs[i].node_type : i \in DOMAIN configs}
        /\ DOMAIN out.interfaces = out.configs
        /\ \A t \in out.configs :
            LET parameters == GetParameters(registry[t])
            IN  /\ {p.name : p \in parameters} = DOMAIN out.interfaces[t]
                /\ \A p \in parameters : out.interfaces[t][p.name].optional = ~p.required
                /\ \E i \in DOMAIN configs :
                    /\ registry[t] = ToNodeSchema(configs[i])
                    /\ \A j \in i + 1..Len(configs) : configs[j].node_type # t
        /\ \A k \in Kinds(registry) \ {"Image"} : RuntimeDataType[k] \in out.data_types
=============================================================================
