------------------------------ MODULE WireCodec ------------------------------
(***************************************************************************)
(* The blobs between the host and a Python runner.  encode_input writes a  *)
(* RuntimeData as a blob, decode_output_to_ffi reads one back.             *)
(* A blob is a sequence of cells: one cell for each field of the header or *)
(* payload, for each sample, byte of data, byte of text, and so on.  What  *)
(* a field's width decides is where its value wraps.  Text, pixels, tensor *)
(* data and JSON texts are sequences of cells, an optional value is <<>>   *)
(* or <<v>>, and a result is <<>> for an error, <<v>> for Ok(v).           *)
(***************************************************************************)
EXTENDS Integers, Sequences

CONSTANTS
    ByteLimit,      \* 2^8, scaled
    ShortLimit,     \* 2^16, scaled
    WordLimit,      \* 2^32, scaled
    Cells           \* what a text, a list of samples or an image consists of

CodecAssumption ==
    /\ ByteLimit \in Nat \ {0}
    /\ ShortLimit \in Nat \ {0}
    /\ WordLimit \in Nat \ {0}
    /\ WordLimit % 2 = 0

None == <<>>
Some(v) == <<v>>
Failed == <<>>
Done(v) == <<v>>

Types == [Audio |-> 1, Video |-> 2, Text |-> 3, Tensor |-> 4, ControlMessage |-> 5,
          Numpy |-> 6, File |-> 7, EndOfInput |-> 8]

\* The JSON text of null; every other JSON text is some other sequence.
JsonNull == <<0>>

From(s, first) == SubSeq(s, first, Len(s))

-----------------------------------------------------------------------------
\* The frame: type, session length, session, timestamp, payload length, payload.
ToBytes(w) ==
    <<w.type, Len(w.session) % ShortLimit>> \o w.session
        \o <<w.timestamp, Len(w.payload) % WordLimit>> \o w.payload

\* Faulty variant: the payload is whatever follows the header.
FromBytesOpen(b) ==
    LET session == b[2]
    IN  IF Len(b) < 4 \/ b[1] \notin 1..8 \/ session + 4 > Len(b)
        THEN Failed
        ELSE Done([type |-> b[1], session |-> SubSeq(b, 3, session + 2),
                   timestamp |-> b[session + 3], payload |-> From(b, session + 5)])

\* Bytes past the payload are ignored.
FromBytes(b) ==
    LET session == b[2]
        payload == b[session + 4]
    IN  IF \/ Len(b) < 4
           \/ b[1] \notin 1..8
           \/ session + 4 > Len(b)
           \/ session + 4 + payload > Len(b)
        THEN Failed
        ELSE Done([type |-> b[1], session |-> SubSeq(b, 3, session + 2),
                   timestamp |-> b[session + 3],
                   payload |-> SubSeq(b, session + 5, session + 4 + payload)])

AudioPayload(v) == <<v.rate, v.channels, 0>> \o v.samples

DecodeAudio(p) ==
    IF Len(p) < 3 \/ 3 + p[3] > Len(p) THEN Failed
    ELSE Done([rate |-> p[1], channels |-> p[2], samples |-> From(p, 4 + p[3])])

\* At most 255 dimensions are written, whatever the shape has.
NumDims(shape) == IF Len(shape) < ByteLimit THEN Len(shape) ELSE ByteLimit - 1

TensorPayload(v, shape, dtype) ==
    LET extras == IF v.metadata = None THEN <<>> ELSE v.metadata[1]
    IN  <<NumDims(shape)>> \o SubSeq(shape, 1, NumDims(shape)) \o <<dtype>>
            \o <<Len(extras) % WordLimit>> \o extras \o v.data

\* No metadata reads as JSON null.
DecodeTensor(p) ==
    LET dims == p[1]
        extras == p[dims + 3]
    IN  IF Len(p) < 1 \/ dims + 3 > Len(p) \/ dims + 3 + extras > Len(p) THEN Failed
        ELSE Done([shape |-> SubSeq(p, 2, dims + 1), dtype |-> p[dims + 2],
                   extras |-> IF extras = 0 THEN JsonNull
                              ELSE SubSeq(p, dims + 4, dims + 3 + extras),
                   data |-> From(p, dims + 4 + extras)])

VideoPayload(v, format, codec) ==
    <<v.width, v.height, format, codec, v.frame, IF v.key THEN 1 ELSE 0>> \o v.pixels

DecodeVideo(p) ==
    IF Len(p) < 6 THEN Failed
    ELSE Done([width |-> p[1], height |-> p[2], format |-> p[3], codec |-> p[4],
               frame |-> p[5], key |-> p[6] # 0, pixels |-> From(p, 7)])

\* A JSON object is one cell: a function from the names of its members.
ControlPayload(v) ==
    <<[message_type |-> v.message, segment_id |-> v.segment,
       timestamp_ms |-> v.time, metadata |-> v.metadata]>>

-----------------------------------------------------------------------------
\* The formats and codecs by discriminant; the tables of the two directions.
Formats == [Unspecified |-> 0, Yuv420p |-> 1, I420 |-> 2, NV12 |-> 3, Rgb24 |-> 4,
            Rgba32 |-> 5, Encoded |-> 255]
Codecs == [Vp8 |-> 1, H264 |-> 2, Av1 |-> 3]

PixelFormatFromU8(b) == {f \in DOMAIN Formats \ {"Unspecified"} : Formats[f] = b}
VideoCodecFromU8(b) == {c \in DOMAIN Codecs : Codecs[c] = b}

Wire(type, session, now, payload) ==
    [type |-> Types[type], session |-> session, timestamp |-> now, payload |-> payload]

\* Stream ids, audio metadata and the value's own timestamps stay behind.
EncodeInput(v, session, now) ==
    LET Framed(type, payload) == Done(ToBytes(Wire(type, session, now, payload)))
    IN  CASE v.kind = "Text" -> Framed("Text", v.text)
          [] v.kind = "Json" -> Framed("Text", v.json)
          [] v.kind = "Audio" ->
                IF v.channels >= ShortLimit THEN Failed ELSE Framed("Audio", AudioPayload(v))
          [] v.kind = "Tensor" ->
                IF (\E i \in DOMAIN v.shape : v.shape[i] < 0) \/ v.dtype \notin 0..ByteLimit - 1
                THEN Failed
                ELSE Framed("Tensor", TensorPayload(v, v.shape, v.dtype))
          [] v.kind = "Video" ->
                Framed("Video", VideoPayload(v, Formats[v.format],
                                             IF v.codec = None THEN 0 ELSE Codecs[v.codec[1]]))
          [] v.kind = "ControlMessage" -> Framed("ControlMessage", ControlPayload(v))
          [] OTHER -> Failed

AsI32(n) == IF n >= WordLimit \div 2 THEN n - WordLimit ELSE n

Member(object, name, default) == IF name \in DOMAIN object THEN object[name] ELSE default

PublicAudio(a, now) ==
    [kind |-> "Audio", samples |-> a.samples, rate |-> a.rate, channels |-> a.channels,
     timestamp |-> Some(now), stream |-> None, metadata |-> None]
PublicTensor(t) ==
    [kind |-> "Tensor", data |-> t.data, dtype |-> t.dtype,
     shape |-> [i \in DOMAIN t.shape |-> AsI32(t.shape[i])],
     metadata |-> IF t.extras = JsonNull THEN None ELSE Some(t.extras)]
\* At most one: none where the tables do not have the format or the codec.
PublicVideos(v, now) ==
    {[kind |-> "Video", width |-> v.width, height |-> v.height, format |-> f, codec |-> c,
      frame |-> v.frame, key |-> v.key, pixels |-> v.pixels, timestamp |-> now, stream |-> None] :
        f \in PixelFormatFromU8(v.format),
        c \in IF v.codec = 0 THEN {None} ELSE {Some(x) : x \in VideoCodecFromU8(v.codec)}}
PublicControl(m) ==
    [kind |-> "ControlMessage", message |-> m.message_type, segment |-> Member(m, "segment_id", None),
     time |-> Member(m, "timestamp_ms", 0), metadata |-> Member(m, "metadata", JsonNull)]

DecodeFrame(w) ==
    LET audio == DecodeAudio(w.payload)
        tensor == DecodeTensor(w.payload)
        video == DecodeVideo(w.payload)
    IN  CASE w.type = Types.Text -> Done([kind |-> "Text", text |-> w.payload])
          [] w.type = Types.Audio ->
                IF audio = Failed THEN Failed ELSE Done(PublicAudio(audio[1], w.timestamp))
          [] w.type = Types.Tensor ->
                IF tensor = Failed THEN Failed ELSE Done(PublicTensor(tensor[1]))
          [] w.type = Types.Video ->
                IF video = Failed THEN Failed
                ELSE IF PublicVideos(video[1], w.timestamp) = {} THEN Failed
                ELSE Done(CHOOSE v \in PublicVideos(video[1], w.timestamp) : TRUE)
          [] w.type = Types.ControlMessage ->
                IF Len(w.payload) # 1 \/ "message_type" \notin DOMAIN w.payload[1] THEN Failed
                ELSE Done(PublicControl(w.payload[1]))
          [] OTHER -> Failed

DecodeOutput(b) == IF FromBytes(b) = Failed THEN Failed ELSE DecodeFrame(FromBytes(b)[1])

-----------------------------------------------------------------------------
\* The values a node handles.  A JSON text is not empty; a dimension is an i32.
Optional(S) == {o \in Seq(S) : Len(o) <= 1}
JsonTexts == {s \in Seq(Cells) : s # None}
Dimensions == -(WordLimit \div 2)..WordLimit \div 2 - 1

Texts == [kind : {"Text"}, text : Seq(Cells)]
Jsons == [kind : {"Json"}, json : JsonTexts]
Audios == [kind : {"Audio"}, samples : Seq(Cells), rate : Nat, channels : Nat,
           timestamp : Optional(Nat), stream : Optional(Nat), metadata : Optional(JsonTexts)]
Tensors == [kind : {"Tensor"}, data : Seq(Cells), dtype : Int, shape : Seq(Dimensions),
            metadata : Optional(JsonTexts)]
Videos == [kind : {"Video"}, width : Nat, height : Nat, format : DOMAIN Formats,
           codec : Optional(DOMAIN Codecs), frame : Nat, key : BOOLEAN, pixels : Seq(Cells),
           timestamp : Nat, stream : Optional(Nat)]
Controls == [kind : {"ControlMessage"}, message : JsonTexts, segment : Optional(Nat), time : Nat,
             metadata : JsonTexts]
Others == [kind : {"Numpy", "Image", "Binary", "File"}]
RuntimeData == Texts \cup Jsons \cup Audios \cup Tensors \cup Videos \cup Controls \cup Others

-----------------------------------------------------------------------------
\* What the tables of the two directions allow: the inputs that are refused,
\* those that a runner which sends its input back cannot return, and what
\* becomes of the others.
Refused(v) ==
    \/ v.kind \in {"Numpy", "Image", "Binary", "File"}
    \/ v.kind = "Audio" /\ v.channels >= ShortLimit
    \/ /\ v.kind = "Tensor"
       /\ (v.dtype < 0 \/ v.dtype >= ByteLimit \/ \E d \in {v.shape[i] : i \in DOMAIN v.shape} : d < 0)

Unreturnable(v) == v.kind = "Video" /\ v.format = "Unspecified"

\* The shape is cut at 255 dimensions and the data kept.
Returned(v, now) ==
    CASE v.kind = "Json" -> [kind |-> "Text", text |-> v.json]
      [] v.kind = "Audio" -> [v EXCEPT !.stream = None, !.metadata = None, !.timestamp = Some(now)]
      [] v.kind = "Video" -> [v EXCEPT !.stream = None, !.timestamp = now]
      [] v.kind = "Tensor" ->
            [v EXCEPT !.shape = SubSeq(v.shape, 1, NumDims(v.shape)),
                      !.metadata = IF v.metadata = Some(JsonNull) THEN None ELSE v.metadata]
      [] OTHER -> v

\* A runner that returns what it is given: the value comes back but for what
\* the frame has no place for, and of a torn blob nothing is taken for a value.
Echoes(v, session, now) ==
    LET sent == EncodeInput(v, session, now)
        blob == sent[1]
    IN  /\ sent = Failed <=> Refused(v)
        /\ ~Refused(v) /\ Len(session) < ShortLimit /\ Len(blob) - Len(session) - 4 < WordLimit =>
            /\ DecodeOutput(blob) = IF Unreturnable(v) THEN Failed ELSE Done(Returned(v, now))
            /\ FromBytes(blob)[1].session = session
            /\ \A n \in 0..Len(blob) - 1 : DecodeOutput(SubSeq(blob, 1, n)) = Failed
=============================================================================
