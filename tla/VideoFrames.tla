----------------------------- MODULE VideoFrames -----------------------------
(***************************************************************************)
(* Whether a video frame is as large as its dimensions and its pixel       *)
(* format say, computed in u32.                                            *)
(***************************************************************************)
EXTENDS Naturals

CONSTANT WordLimit  \* 2^32, scaled

FrameAssumption == WordLimit \in Nat \ {0}

Planar == {"Yuv420p", "I420", "NV12"}
Packed == [Rgb24 |-> 3, Rgba32 |-> 4]
Formats == Planar \cup DOMAIN Packed \cup {"Encoded", "Unspecified"}

\* A product that does not fit wraps, as release builds do.
Times(a, b) == (a * b) % WordLimit

\* 0 where the size varies or is not known.
BufferSize(format, width, height) ==
    CASE format \in Planar -> Times(Times(width, height), 3) \div 2
      [] format \in DOMAIN Packed -> Times(Times(width, height), Packed[format])
      [] OTHER -> 0

RequiresEvenDimensions(format) == format \in Planar

ValidateVideoFrame(frame) ==
    LET expected == BufferSize(frame.format, frame.width, frame.height)
    IN  /\ frame.width # 0 /\ frame.height # 0
        /\ RequiresEvenDimensions(frame.format) => frame.width % 2 = 0 /\ frame.height % 2 = 0
        /\ expected > 0 => frame.length = expected

-----------------------------------------------------------------------------
\* The planes of a format (types lib.rs 260-285): how many bytes the pixels of
\* a frame take.
Planes(format, width, height) ==
    CASE format \in Planar -> width * height + 2 * ((width \div 2) * (height \div 2))
      [] format \in DOMAIN Packed -> Packed[format] * width * height

\* validate_video_frame (851-884): a frame is valid exactly if its data are the
\* planes that its dimensions declare, unless computing their size overflows
\* a u32.  What varies in size is valid with any data.
AsDeclared(frame) ==
    LET positive == frame.width > 0 /\ frame.height > 0
        even == frame.width % 2 = 0 /\ frame.height % 2 = 0
        bytes == IF frame.format \in Planar THEN 3 ELSE Packed[frame.format]
        fits == frame.width * frame.height * bytes < WordLimit
    IN  IF frame.format \in Planar \cup DOMAIN Packed
        THEN fits => (ValidateVideoFrame(frame) <=>
                /\ positive
                /\ frame.format \in Planar => even
                /\ frame.length = Planes(frame.format, frame.width, frame.height))
        ELSE ValidateVideoFrame(frame) <=> positive
=============================================================================
