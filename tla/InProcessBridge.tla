--------------------------- MODULE InProcessBridge ---------------------------
(***************************************************************************)
(* The conversions of a Python node that runs in the host's process: a     *)
(* RuntimeData becomes a Python value for process(), and what process()    *)
(* returns becomes a RuntimeData.                                          *)
(* A Python value is [is |-> its type, as |-> its value]: a dict's value   *)
(* is a function, so is an object's (its attributes).  A RuntimeData is    *)
(* [kind |-> ..., is |-> its fields], an optional field that is None is    *)
(* left out of the fields.  A JSON value is [json |-> its type,            *)
(* is |-> its value].  A result is <<>> for an exception, <<v>> for v.     *)
(***************************************************************************)
EXTENDS Integers, Sequences

CONSTANT MaxI64     \* 2^63 - 1, scaled

BridgeAssumption == MaxI64 \in Nat

Py(type, value) == [is |-> type, as |-> value]
JsonValue(type, value) == [json |-> type, is |-> value]
Runtime(kind, fields) == [kind |-> kind, is |-> fields]
Raised == <<>>
Value(v) == <<v>>

Extend(f, g) == [x \in DOMAIN f \cup DOMAIN g |-> IF x \in DOMAIN g THEN g[x] ELSE f[x]]
Only(f, names) == [x \in DOMAIN f \cap names |-> f[x]]

\* Numbers that are no i64 become floats.
RECURSIVE JsonToPython(_)
JsonToPython(v) ==
    CASE v.json = "null" -> Py("None", "None")
      [] v.json = "bool" -> Py("bool", v.is)
      [] v.json = "number" -> Py(IF v.is <= MaxI64 THEN "int" ELSE "float", v.is)
      [] v.json = "float" -> Py("float", v.is)
      [] v.json = "string" -> Py("str", v.is)
      [] v.json = "array" -> Py("list", [i \in DOMAIN v.is |-> JsonToPython(v.is[i])])
      [] v.json = "object" -> Py("dict", [k \in DOMAIN v.is |-> JsonToPython(v.is[k])])

\* What has no JSON counterpart (bytes, objects) becomes its string.
RECURSIVE PyAnyToJson(_)
PyAnyToJson(p) ==
    CASE p.is = "None" -> JsonValue("null", "null")
      [] p.is = "bool" -> JsonValue("bool", p.as)
      [] p.is = "int" -> JsonValue(IF p.as <= MaxI64 THEN "number" ELSE "float", p.as)
      [] p.is = "float" -> JsonValue("float", p.as)
      [] p.is = "str" -> JsonValue("string", p.as)
      [] p.is = "native" -> JsonValue("native", p.as)
      [] p.is = "list" -> JsonValue("array", [i \in DOMAIN p.as |-> PyAnyToJson(p.as[i])])
      [] p.is = "dict" -> JsonValue("object", [k \in DOMAIN p.as |-> PyAnyToJson(p.as[k])])
      [] OTHER -> JsonValue("string", "repr")

-----------------------------------------------------------------------------
FormatByte == [Unspecified |-> 0, Yuv420p |-> 1, I420 |-> 2, NV12 |-> 3, Rgb24 |-> 4,
               Rgba32 |-> 5, Encoded |-> 255]
CodecByte == [Vp8 |-> 1, H264 |-> 2, Av1 |-> 3]

\* Image formats are named; a raw format that has no name is "raw".
FormatName == [Jpeg |-> "jpeg", Png |-> "png", WebP |-> "webp", Rgb24 |-> "rgb24",
               Rgba32 |-> "rgba32", Yuv420p |-> "yuv420p", I420 |-> "i420", NV12 |-> "nv12",
               Unspecified |-> "raw", Encoded |-> "raw"]

PixelFormatOf(byte) ==
    IF \E f \in DOMAIN FormatByte : FormatByte[f] = byte
    THEN CHOOSE f \in DOMAIN FormatByte : FormatByte[f] = byte
    ELSE "Unspecified"

VideoCodecOf(byte) ==
    IF \E c \in DOMAIN CodecByte : CodecByte[c] = byte
    THEN CHOOSE c \in DOMAIN CodecByte : CodecByte[c] = byte
    ELSE "Vp8"

ImageFormatOf(name) ==
    CASE name = "jpg" -> "Jpeg"
      [] name = "i420" -> "Yuv420p"
      [] name \notin {FormatName[f] : f \in DOMAIN FormatName} \cup {"jpg"} -> "Rgb24"
      [] name = "raw" -> "Rgb24"
      [] OTHER -> CHOOSE f \in DOMAIN FormatName : FormatName[f] = name

\* The variants that become dicts, and the fields a reader must find.
DataType == [Audio |-> "audio", Video |-> "video", Image |-> "image", Tensor |-> "tensor",
             Numpy |-> "numpy", ControlMessage |-> "control_message", File |-> "file"]

Required == [Audio |-> {"samples", "sample_rate", "channels"},
             Video |-> {"pixel_data", "width", "height", "pixel_format", "timestamp_us"},
             Image |-> {"data", "format", "width", "height"},
             Tensor |-> {"data", "shape", "dtype"},
             Numpy |-> {"data", "shape", "dtype", "strides", "c_contiguous", "f_contiguous"},
             File |-> {"path"}]

Optional == [Audio |-> {"stream_id", "timestamp_us", "arrival_ts_us", "metadata"},
             Video |-> {"codec", "frame_number", "is_keyframe", "stream_id", "arrival_ts_us"},
             Image |-> {"timestamp_us", "stream_id", "metadata"},
             Tensor |-> {"metadata"},
             Numpy |-> {},
             File |-> {"filename", "mime_type", "size", "offset", "length", "stream_id"}]

\* The converted fields: names, discriminants and metadata change, the others
\* become a native value of their type.
FieldToPython(kind, name, value) ==
    CASE name = "metadata" -> JsonToPython(value)
      [] name = "pixel_format" -> Py("int", FormatByte[value])
      [] name = "codec" -> Py("int", CodecByte[value])
      [] kind = "Image" /\ name = "format" -> Py("str", FormatName[value])
      [] kind = "ControlMessage" /\ name = "message_type" -> Py("str", value.type)
      [] name \in {"data", "pixel_data"} -> Py("bytes", value)
      [] OTHER -> Py("native", value)

RuntimeDataToPython(v) ==
    CASE v.kind = "Json" -> JsonToPython(v.is)
      [] v.kind = "Text" -> Py("str", v.is)
      [] v.kind = "Binary" -> Py("bytes", v.is)
      [] OTHER ->
            Py("dict", Extend([n \in DOMAIN v.is |-> FieldToPython(v.kind, n, v.is[n])],
                              [data_type |-> Py("str", DataType[v.kind])]))

\* A field that cannot be extracted counts as absent when it is optional;
\* metadata is taken whatever it is, None as JSON null.
FieldFromPython(kind, name, p) ==
    CASE name = "metadata" -> PyAnyToJson(p)
      [] name = "pixel_format" -> PixelFormatOf(p.as)
      [] name = "codec" -> VideoCodecOf(p.as)
      [] kind = "Image" /\ name = "format" -> ImageFormatOf(p.as)
      [] OTHER -> p.as

VideoDefaults == [frame_number |-> Py("native", 0), is_keyframe |-> Py("native", FALSE)]

Fields(kind, attributes) ==
    LET given == {n \in Required[kind] \cup Optional[kind] : n \in DOMAIN attributes}
        held == {n \in given : attributes[n].is # "None" \/ n = "metadata"}
        read == IF kind = "Video" THEN Extend(VideoDefaults, Only(attributes, held))
                ELSE Only(attributes, held)
    IN  IF Required[kind] \subseteq held
        THEN Value(Runtime(kind, [n \in DOMAIN read |-> FieldFromPython(kind, n, read[n])]))
        ELSE Raised

\* data_type is an attribute: a dict has none, whatever its keys are.
PythonToRuntimeData(p) ==
    LET type == IF p.is = "object" /\ "data_type" \in DOMAIN p.as
                THEN p.as["data_type"].as ELSE "none"
    IN  CASE type = "control_message" -> Value(Runtime("Json", PyAnyToJson(p)))
          [] \E k \in DOMAIN Required : DataType[k] = type ->
                Fields(CHOOSE k \in DOMAIN Required : DataType[k] = type, p.as)
          [] type \in {"text", "binary"} -> Raised
          [] OTHER ->
                CASE p.is = "str" -> Value(Runtime("Text", p.as))
                  [] p.is = "bytes" -> Value(Runtime("Binary", p.as))
                  [] p.is \in {"dict", "list"} -> Value(Runtime("Json", PyAnyToJson(p)))
                  [] OTHER -> Raised

-----------------------------------------------------------------------------
\* What the code of a plugin does with the value it is given: one answers with
\* it, one answers a dict that has a data_type with an object of the same
\* attributes, one raises.
Plugin(name, p) ==
    CASE name = "same" -> Value(p)
      [] name = "namespace" ->
            Value(IF p.is = "dict" /\ "data_type" \in DOMAIN p.as THEN Py("object", p.as) ELSE p)
      [] name = "raises" -> Raised

\* PythonNodeHandle: process() of a plugin, and process_streaming(), whose items
\* come from a sequence of plugins and are collected before any is returned.
Process(plugin, v) ==
    LET out == Plugin(plugin, RuntimeDataToPython(v))
    IN  IF out = Raised THEN Raised ELSE PythonToRuntimeData(out[1])

\* Faulty variant: the items that convert are returned, the others skipped.
ProcessStreamingSkips(plugins, v) ==
    LET results == [i \in DOMAIN plugins |-> Process(plugins[i], v)]
    IN  Value([i \in 1..Len(SelectSeq(results, LAMBDA r : r # Raised)) |->
                SelectSeq(results, LAMBDA r : r # Raised)[i][1]])

ProcessStreaming(plugins, v) ==
    LET results == [i \in DOMAIN plugins |-> Process(plugins[i], v)]
    IN  IF \E i \in DOMAIN results : results[i] = Raised THEN Raised
        ELSE Value([i \in DOMAIN results |-> results[i][1]])

\* Every number in a JSON value is an i64.
RECURSIVE NumbersFit(_)
NumbersFit(v) ==
    CASE v.json = "number" -> v.is <= MaxI64
      [] v.json \in {"array", "object"} -> \A x \in DOMAIN v.is : NumbersFit(v.is[x])
      [] OTHER -> TRUE

\* What comes back of an answer with the attributes of what was given.  The same
\* value, but: an image format without a name of its own becomes another one, a
\* JSON string becomes a text, a control message the JSON string of how Python
\* prints it; a number, a boolean or null is refused, and so is a JSON object
\* with a data_type and none of its fields.
Renamed == [Unspecified |-> "Rgb24", Encoded |-> "Rgb24", I420 |-> "Yuv420p"]

Answered(v) ==
    CASE v.kind = "Json" /\ v.is.json = "string" -> Value(Runtime("Text", v.is.is))
      [] v.kind = "Json" /\ v.is.json \in {"null", "bool", "number", "float"} -> Raised
      [] v.kind = "Json" /\ v.is.json = "object" /\ "data_type" \in DOMAIN v.is.is -> Raised
      [] v.kind = "Image" /\ v.is.format \in DOMAIN Renamed ->
            Value([v EXCEPT !.is.format = Renamed[v.is.format]])
      [] v.kind = "ControlMessage" -> Value(Runtime("Json", JsonValue("string", "repr")))
      [] OTHER -> Value(v)

\* An answer with attributes is what Answered says (of numbers that fit an i64);
\* the dict itself, given back, is a JSON object of the same keys, whatever kind
\* it was made from, although the template for such plugins has "Return the same
\* types from `process()` for automatic conversion back" under the dicts that are
\* given (templates/inprocess_python_plugin.py 52-63); one bad item of a stream leaves none of it, and otherwise
\* each item is what it would be alone.
BridgeAnswers(v) ==
    /\ LET numbers == CASE v.kind = "Json" -> NumbersFit(v.is)
                        [] v.kind \in DOMAIN DataType /\ "metadata" \in DOMAIN v.is ->
                              NumbersFit(v.is.metadata)
                        [] OTHER -> TRUE
       IN  numbers => Process("namespace", v) = Answered(v)
    /\ LET same == Process("same", v)
       IN  IF v.kind \in DOMAIN DataType
           THEN same[1].kind = "Json" /\ DOMAIN same[1].is.is = DOMAIN v.is \cup {"data_type"}
           ELSE ~(v.kind = "Json" /\ v.is.json = "object") => same = Process("namespace", v)
    /\ ProcessStreaming(<<"same", "raises">>, v) = Raised
    /\ LET stream == ProcessStreaming(<<"namespace", "same">>, v)
       IN  stream # Raised => stream[1] = <<Process("namespace", v)[1], Process("same", v)[1]>>
=============================================================================
