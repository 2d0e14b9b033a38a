----------------------------- MODULE MCNodeParts -----------------------------
(***************************************************************************)
(* NodeParts on a small instance, and beside its parts the sequential ones *)
(* as one more subject: these are operators, and a behaviour about         *)
(* "cases" takes one step, to one case as the probe.                       *)
(***************************************************************************)
EXTENDS NodeParts, NodeValues

Bridge == INSTANCE InProcessBridge WITH MaxI64 <- 3
Params == INSTANCE NodeParams
Schema == INSTANCE NodeSchemas
Tree == INSTANCE EmbeddedTree WITH
    Rank <- LET order == <<"nul", ".", "/", "a", "b">>
            IN  [c \in Range(order) |-> CHOOSE i \in DOMAIN order : order[i] = c]
PyReq == INSTANCE PythonRequires WITH
    Needle <- "@(",
    Latin1 <- [c3 |-> <<"c3", "83">>, a9 |-> <<"c2", "a9">>]

ASSUME Bridge!BridgeAssumption

MCDefaultChannel == <<116>>
MCUiChannel == <<117>>
MCLower == [A |-> "a", B |-> "b"]
Order == <<"nul", " ", "-", "-e", ".", ";", "=", "A", "B", "_", "a", "b", "client", "scope", "w">>
MCInstalled == {<<"a">>, <<"A", "-", "b">>}
MCSymbols == Range(Order)
MCRank == [c \in MCSymbols |-> CHOOSE i \in DOMAIN Order : Order[i] = c]

MCSpoken == <<1, 2, 1, 3, 2, 1>>
MCRelease == [b \in Builds |-> IF b = "c" THEN "new" ELSE "old"]
SeqsUpTo(S, n) == UNION {[1..k -> S] : k \in 0..n}

-----------------------------------------------------------------------------
(* Values that cross to Python and back                                    *)

Lists == {<<>>, <<1>>, <<3, 1>>}
MCSessions == {<<>>, <<9>>, <<9, 9, 9, 9>>}
TextCases == [kind : {"Text"}, text : Lists]
JsonCases == [kind : {"Json"}, json : {<<0>>, <<2, 2>>}]
AudioCases == [kind : {"Audio"}, samples : Lists, rate : {2}, channels : {0, 1, 3, 4},
               timestamp : {<<>>, <<7>>}, stream : {<<>>, <<1>>}, metadata : {<<>>, <<<<0>>>>}]
TensorCases == [kind : {"Tensor"}, data : Lists, dtype : {-1, 0, 3, 4},
                shape : {<<>>, <<2>>, <<-1>>, <<1, 0, 2>>, <<1, 1, 1, 1>>},
                metadata : {<<>>, <<<<0>>>>, <<<<5, 5>>>>}]
VideoCases == [kind : {"Video"}, width : {2}, height : {3}, format : DOMAIN Wire!Formats,
               codec : {<<>>, <<"Vp8">>, <<"H264">>, <<"Av1">>}, frame : {1}, key : BOOLEAN,
               pixels : Lists, timestamp : {3}, stream : {<<>>, <<1>>}]
ControlCases == [kind : {"ControlMessage"}, message : {<<1>>}, segment : {<<>>, <<4>>},
                 time : {0, 6}, metadata : {<<0>>, <<5, 5>>}]
OtherCases == [kind : {"Numpy", "Image", "Binary", "File"}]
MCWireCases == UNION {TextCases, JsonCases, AudioCases, TensorCases, VideoCases, ControlCases, OtherCases}

Number(n) == Bridge!JsonValue("number", n)
JsonValues ==
    <<Bridge!JsonValue("null", "null"), Bridge!JsonValue("bool", TRUE), Number(2), Number(5),
      Bridge!JsonValue("float", 1), Bridge!JsonValue("string", "s"),
      Bridge!JsonValue("array", <<Number(2), Bridge!JsonValue("string", "s")>>),
      Bridge!JsonValue("object", [a |-> Number(3), b |-> Bridge!JsonValue("null", "null")]),
      Bridge!JsonValue("object", [data_type |-> Bridge!JsonValue("string", "audio")]),
      Bridge!JsonValue("object", [a |-> Number(4)])>>
Bare == <<Bridge!Runtime("Text", "s"), Bridge!Runtime("Binary", <<1>>)>>
        \o [i \in DOMAIN JsonValues |-> Bridge!Runtime("Json", JsonValues[i])]
        \o <<Bridge!Runtime("ControlMessage",
                [message_type |-> [type |-> "CancelSpeculation"], timestamp_ms |-> 1,
                 metadata |-> JsonValues[1]])>>

FieldCase(name, format) ==
    CASE name \in {"pixel_format", "format"} -> format
      [] name = "codec" -> "H264"
      [] name = "metadata" -> JsonValues[8]
      [] OTHER -> 1
DictCase(kind, optional, format) ==
    LET names == Bridge!Required[kind] \cup optional
        all == IF kind = "Video" THEN names \cup {"frame_number", "is_keyframe"} ELSE names
    IN Bridge!Runtime(kind, [n \in all |-> FieldCase(n, format)])
FormatCases(kind) ==
    CASE kind = "Video" -> DOMAIN Bridge!FormatByte
      [] kind = "Image" -> DOMAIN Bridge!FormatName
      [] OTHER -> {"none"}

-----------------------------------------------------------------------------
(* Histories, calls and tagged texts                                       *)

MCHistories == SeqsUpTo({Llm!User, Llm!Assistant({}), Llm!Assistant({1}), Llm!Assistant({1, 2}),
                         Llm!ToolResult(1), Llm!ToolResult(2)}, 4)
MCSnippets == SeqsUpTo({0, 1, 97}, 3) \cup {<<0, 2, 97>>, <<0, 1, 116, 97>>, <<97, 10>>}
\* Short names, the default ones, and names about as long as a byte can say.
MCNames == {n \in SeqsUpTo({97, 195, 169}, 4) : Llm!Utf8(n)} \cup {<<116>>, <<117>>}
           \cup {[i \in 1..n |-> 97] : n \in {127, 128, 255, 256}}
Returns == [name |-> "say", kind |-> "ReturnValue", required |-> "text", cancelable |-> TRUE]
MCRegistries == {Llm!DefaultTools, <<>>, <<Returns>> \o Llm!DefaultTools, Llm!DefaultTools \o <<Returns>>}
Arguments ==
    <<[json |-> "string", is |-> <<>>], [json |-> "string", is |-> <<97>>],
      [json |-> "string", is |-> <<97, 10>>], [json |-> "null", is |-> <<>>],
      [json |-> "string", is |-> <<0, 2, 97>>],
      [json |-> "object", is |-> [text |-> <<97>>]],
      [json |-> "object", is |-> [text |-> <<>>, content |-> <<98>>]],
      [json |-> "object", is |-> [prompt |-> <<97>>, body |-> <<98>>]],
      [json |-> "object", is |-> [other |-> <<97>>]]>>
MCRequests == {[name |-> n, args |-> Arguments[a]] :
                 n \in {"say", "show", "perform_motion", "", "other"}, a \in DOMAIN Arguments}

-----------------------------------------------------------------------------
(* Declarations: parameters, constraints, schemas, requirements            *)

\* a_b, aB, a-b, x_y_z, xYZ, a_1, a1, AB
Keys == {<<97, 95, 98>>, <<97, 66>>, <<97, 45, 98>>, <<120, 95, 121, 95, 122>>,
         <<120, 89, 90>>, <<97, 95, 49>>, <<97, 49>>, <<65, 66>>}
Leaf(n) == [is |-> "leaf", as |-> n]
Nested == [is |-> "object", as |-> [k \in {<<97, 95, 98>>} |-> Leaf(9)]]
Objects == {[k \in S |-> Leaf(1000 * k[2] + k[Len(k)])] : S \in {T \in SUBSET Keys : Cardinality(T) \in 1..3}}
           \cup {[k \in {<<97, 95, 98>>} |-> Nested],
                 [k \in {<<97, 66>>} |-> [is |-> "array", as |-> <<Nested>>]]}

MCMediums == {Caps!Media("audio", [sample_rate |-> c, channels |-> d]) :
                c, d \in {Caps!Exact(1), Caps!Range(0, 2), Caps!OneOf({2}), Caps!Any}}
    \cup {Caps!Media("json", g) : g \in {<<>>, [schema |-> Caps!Schema({0, 1})]}}
    \cup {Caps!Media("tensor", [shape |-> c, dtype |-> d]) :
            c \in {Caps!Exact(<<<<1>>, Caps!Dynamic>>), Caps!Exact(<<<<1>>, <<2>>>>), Caps!Exact(<<>>),
                   Caps!OneOf({<<Caps!Dynamic>>, <<<<2>>>>}), Caps!Any},
            d \in {Caps!Exact(1), Caps!OneOf({2}), Caps!Any}}

Json(type, v) == [json |-> type, is |-> v]
Type(name) == [type |-> <<name>>]
Scalars == <<Type("string"), Type("integer"), Type("boolean"), Type("null"),
             [type |-> <<"string", "null">>],
             [enum |-> <<Json("string", "x"), Json("string", "y")>>],
             [oneOf |-> <<Type("string"), Type("integer")>>]>>
Fields(required, properties) ==
    [type |-> <<"object">>, required |-> required, properties |-> properties]
Schemas == Scalars
    \o [i \in DOMAIN Scalars |-> [type |-> <<"array">>, items |-> Scalars[i]]]
    \o [i \in DOMAIN Scalars |-> [type |-> <<"object">>, properties |-> [p |-> Scalars[i]]]]
    \o [i \in DOMAIN Scalars |-> [type |-> <<"object">>, additionalProperties |-> Scalars[i]]]
    \o <<Type("array"), Type("object")>>
    \o [i \in DOMAIN Scalars |-> Fields({"p"}, [p |-> Scalars[i]])]
    \o <<Fields({"p"}, [p |-> Type("integer"), q |-> Type("string")]),
         Fields({"p", "q"}, [p |-> Type("integer"), q |-> Type("string")]),
         Fields({"p"}, [p |-> Fields({"p"}, [p |-> Type("string")])])>>
Plain == <<Json("string", "x"), Json("string", "z"), Json("number", 1), Json("bool", TRUE),
           Json("null", "null")>>
JsonCasesOf ==
    Plain \o [i \in DOMAIN Plain |-> Json("array", <<Plain[i], Plain[1]>>)]
          \o [i \in DOMAIN Plain |-> Json("object", [p |-> Plain[i]])]
          \o [i \in DOMAIN Plain |-> Json("object", [p |-> Json("number", 1), q |-> Plain[i]])]
          \o <<Json("array", <<>>), Json("object", <<>>),
               Json("object", [p |-> Json("object", [p |-> Plain[1]])])>>

Config(type, required, many) ==
    [node_type |-> type, accepts |-> <<IF many THEN "Image" ELSE "Audio">>, produces |-> <<"Text">>, multi_output |-> many,
     defaults |-> <<>>,
     json_schema |-> [type |-> <<"object">>, required |-> required,
                      properties |-> [p |-> Scalars[1], q |-> Scalars[5]]]]
Configs == SeqsUpTo({Config(t, r, m) : t \in {"n1", "n2"}, r \in {{}, {"p"}}, m \in BOOLEAN}, 3)

MCFrameCases == [format : Frames!Formats, width : 0..7, height : 0..6, length : 0..170]

\* A requirement: its name, a version, a marker.
NameCases == {<<"a">>, <<"A">>, <<"b">>, <<"a", "-", "b">>, <<"a", "_", "b">>, <<"A", ".", "B">>}
Tails == {<<>>, <<"=", "a">>, <<";", "w">>, <<" ", ";", " ", "w">>, <<"=", "b", ";", "w">>}
MCDeps == {n \o s : n \in NameCases, s \in Tails}
DepLists == SeqsUpTo({<<"a">>, <<"A", "=", "a">>, <<"b", ";", "w">>, <<"scope">>, <<" ", "a">>,
                      <<"a", "_", "b">>, <<"a", "-", "b">>}, 2)
Asked == [version : {<<"a">>, <<"b">>}, deps : DepLists, scope : {<<>>, <<"w">>}]
Managers ==
    [config : {Req!ApplyEnvOverrides([Req!DefaultConfig EXCEPT !.base = base], mode, version) :
                base \in {<<>>, <<<<"a">>>>},
                mode \in {Req!None, "system", "uv", "uv_python", "conda"},
                version \in {<<>>, <<" ">>, <<"b">>}},
     src : {<<>>, <<"a">>, <<"b">>, <<" ", "b">>}]

\* Trees of at most two entries in a directory, one directory deep.
Contents == {<<>>, <<"a">>, <<"nul">>}
Maps(S, T) == UNION {[N -> T] : N \in {M \in SUBSET S : Cardinality(M) <= 2}}
FlatTrees == [files : Maps({<<"a">>, <<"b">>, <<"a", "a">>, <<"a", ".">>}, Contents), dirs : {<<>>}]
SubTrees == {t \in FlatTrees : Cardinality(DOMAIN t.files) <= 1}
DeepTrees == [files : Maps({<<"a">>}, Contents),
              dirs : Maps({<<"a">>, <<"a", ".">>, <<"b">>}, SubTrees)]
Trees == FlatTrees \cup DeepTrees

\* Bodies of string literals, two of them with a character of two bytes.
Bodies == SeqsUpTo({"a", " ", ")", "\"", "\\", "#"}, 2) \cup {<<"c3", "a9">>, <<"a", "c3", "a9">>}

-----------------------------------------------------------------------------
TakeCase ==
    \/ \E i \in DOMAIN Bare : probe' = [of |-> "bridge", v |-> Bare[i]]
    \/ \E kind \in DOMAIN Bridge!Required : \E optional \in SUBSET Bridge!Optional[kind] :
            \E f \in FormatCases(kind) :
                probe' = [of |-> "bridge", v |-> DictCase(kind, optional, f)]
    \/ \E o \in Objects, k \in Keys : probe' = [of |-> "params", object |-> o, field |-> k]
    \/ \E i \in DOMAIN Schemas, j \in DOMAIN JsonCasesOf :
            probe' = [of |-> "schema", prop |-> Schemas[i], v |-> JsonCasesOf[j]]
    \/ \E c \in Configs : probe' = [of |-> "configs", configs |-> c]
    \/ \E a, b \in Asked : probe' = [of |-> "key", a |-> a, b |-> b]
    \/ probe' = [of |-> "trees"]
    \/ \E a, b \in Managers, uv \in BOOLEAN :
            probe' = [of |-> "python", a |-> a, b |-> b, uv |-> uv]
    \/ \E x, y \in Bodies, q \in PyReq!Quotes, c \in {<<>>, <<"a", "\"", ")">>}, b \in BOOLEAN :
            probe' = [of |-> "source", items |-> <<x, y>>, quote |-> q, comment |-> c,
                      bracketed |-> b]

MCInit ==
    /\ PartsInit
    /\ ValuesInit
    /\ subject \in {"stream", "resampler", "port", "uv", "source", "cases"}

MCNext ==
    \/ PartsNext /\ UNCHANGED probe
    \/ subject = "cases" /\ ValuesNext /\ UNCHANGED partVars
    \/ /\ subject = "cases" /\ probe = Idle
       /\ TakeCase
       /\ UNCHANGED partVars

MCSpec == MCInit /\ [][MCNext]_<<partVars, probe>>

-----------------------------------------------------------------------------
\* What a node in this process answers depends on the form of the answer, and on
\* nothing else (inprocess_python.rs 53-557): an object with the attributes of the
\* dict that was given is the value that went, but for control messages, JSON that
\* is no dict or list or has a data_type, integers beyond an i64, and image formats
\* without a name; the dict itself is JSON, against the words of the template
\* (templates/inprocess_python_plugin.py 63); a stream with an item that does not
\* convert is lost.
InProcessAnswers == probe.of = "bridge" => Bridge!BridgeAnswers(probe.v)

\* What two parts are told of one declaration agrees: a parameter under either
\* of its names (params.rs 34-95), a schema and its TypeScript (schema.rs
\* 510-672) but for the name of images and objects with optional fields,
\* requirements as they are written and as they are read, byte by byte
\* (python_subprocess.rs 57-145).  Plugins get the environment they ask for: only
\* equal lists share one (py-env-manager lib.rs 385-405), with the Python they
\* asked for, and only equal sources share a directory (166-187).
DeclarationsAgree ==
    /\ probe.of = "params" => Params!FieldFound(probe.object, probe.field)
    /\ probe.of = "schema" => Schema!Typed(probe.prop, probe.v)
    /\ probe.of = "configs" => Schema!Declared(probe.configs)
    /\ probe.of = "source" =>
            PyReq!ReadBack(<<"@(", "a", ")">>, probe.items, probe.quote, probe.comment,
                           probe.bracketed, <<"\n", "a", "(", "\"">>)
    /\ probe.of = "key" => Req!KeyTellsApart(probe.a, probe.b)
    /\ probe.of = "python" =>
            Req!Reused(probe.a, probe.b, probe.uv, <<"b">>, {<<"3.11">>, <<"b">>})
    /\ probe.of = "trees" => Tree!NamedApart(Trees)
=============================================================================
