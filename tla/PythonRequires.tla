--------------------------- MODULE PythonRequires ---------------------------
(***************************************************************************)
(* The narrow parser that reads a plugin's requirements out of its Python  *)
(* source.  A source is the sequence of its bytes; the needle              *)
(* @python_requires( is one symbol.  A byte beyond ASCII is taken for a    *)
(* character of its own when it is copied, and written as two bytes.       *)
(***************************************************************************)
EXTENDS Naturals, Sequences
LOCAL INSTANCE SequencesExt
LOCAL INSTANCE FiniteSetsExt

CONSTANTS
    Needle,     \* "@python_requires(", which ends in an open parenthesis
    Latin1      \* for each byte beyond ASCII, the bytes of the character of its number

Quotes == {"\"", "'"}
Start == [depth |-> 1, quote |-> "", mode |-> "code", end |-> 0, at |-> 0]

\* One byte of the scan for the closing parenthesis.  A backslash in a string
\* hides the byte after it, a comment everything up to the end of its line.
Step(scan, byte) ==
    LET s == [scan EXCEPT !.at = @ + 1]
    IN CASE scan.end # 0 -> scan
         [] scan.mode = "escape" -> [s EXCEPT !.mode = "string"]
         [] scan.mode = "comment" -> IF byte = "\n" THEN [s EXCEPT !.mode = "code"] ELSE s
         [] scan.mode = "string" ->
                IF byte = scan.quote THEN [s EXCEPT !.mode = "code"]
                ELSE IF byte = "\\" THEN [s EXCEPT !.mode = "escape"] ELSE s
         [] OTHER ->
                CASE byte \in {"(", Needle} -> [s EXCEPT !.depth = @ + 1]
                  [] byte = ")" -> [s EXCEPT !.depth = @ - 1, !.end = IF scan.depth = 1 THEN s.at ELSE 0]
                  [] byte = "#" -> [s EXCEPT !.mode = "comment"]
                  [] byte \in Quotes -> [s EXCEPT !.mode = "string", !.quote = byte]
                  [] OTHER -> s

\* What stands between the parentheses of the last decorator, or None.
None == <<"none">>
Inside(source) ==
    LET needles == {i \in DOMAIN source : source[i] = Needle}
        after == SubSeq(source, Max(needles) + 1, Len(source))
        scan == FoldLeft(Step, Start, after)
    IN IF needles = {} THEN None
       ELSE IF scan.end = 0 THEN None ELSE SubSeq(after, 1, scan.end - 1)

Blank == {" ", "\n"}
TrimBlank(s) ==
    LET kept == {i \in DOMAIN s : s[i] \notin Blank}
    IN IF kept = {} THEN <<>> ELSE SubSeq(s, Min(kept), Max(kept))
Unbracket(s) ==
    LET from == IF s # <<>> /\ s[1] = "[" THEN 2 ELSE 1
        to == IF Len(s) >= from /\ s[Len(s)] = "]" THEN Len(s) - 1 ELSE Len(s)
    IN SubSeq(s, from, to)

\* "byte as char".
AsChar(byte) == IF byte \in DOMAIN Latin1 THEN Latin1[byte] ELSE <<byte>>

\* One byte of the collection of string literals: a backslash stands for the
\* byte after it, an unfinished string ends with the list.
Collect(acc, byte) ==
    CASE acc.mode = "escape" -> [acc EXCEPT !.mode = "string", !.buf = @ \o AsChar(byte)]
      [] acc.mode = "comment" -> IF byte = "\n" THEN [acc EXCEPT !.mode = "code"] ELSE acc
      [] acc.mode = "string" ->
            IF byte = acc.quote
            THEN [acc EXCEPT !.mode = "code", !.out = Append(@, acc.buf), !.buf = <<>>]
            ELSE IF byte = "\\" THEN [acc EXCEPT !.mode = "escape"]
            ELSE [acc EXCEPT !.buf = @ \o AsChar(byte)]
      [] OTHER ->
            IF byte = "#" THEN [acc EXCEPT !.mode = "comment"]
            ELSE IF byte \in Quotes THEN [acc EXCEPT !.mode = "string", !.quote = byte]
            ELSE acc

ExtractPythonRequires(source) ==
    LET inside == Inside(source)
        collected == FoldLeft(Collect, [mode |-> "code", quote |-> "", buf |-> <<>>, out |-> <<>>],
                              Unbracket(TrimBlank(inside)))
        literals == IF collected.mode \in {"string", "escape"}
                    THEN Append(collected.out, collected.buf) ELSE collected.out
        trimmed == [i \in DOMAIN literals |-> TrimBlank(literals[i])]
    IN IF inside = None THEN <<>> ELSE SelectSeq(trimmed, LAMBDA s : s # <<>>)

-----------------------------------------------------------------------------
\* How an author writes the list down: a literal in either quote, with what
\* would end it escaped, and comments between the items.
Literal(text, quote) ==
    <<quote>>
    \o FlattenSeq([i \in DOMAIN text |->
            IF text[i] \in {quote, "\\"} THEN <<"\\", text[i]>> ELSE <<text[i]>>])
    \o <<quote>>
Written(items, quote, comment, bracketed) ==
    LET lines == [i \in DOMAIN items |->
            Literal(items[i], quote) \o <<",", " ", "#">> \o comment \o <<"\n">>]
        open == IF bracketed THEN <<"[", "\n">> ELSE <<>>
        close == IF bracketed THEN <<"]">> ELSE <<>>
    IN <<Needle>> \o open \o FlattenSeq(lines) \o close \o <<")">>

\* A text of which every byte counts as a character.
ByteWise(text) == FlattenSeq([i \in DOMAIN text |-> AsChar(text[i])])

\* extract_python_requires (59-159): the requirements of the last decorator
\* are read back, whatever quotes, parentheses and comments are in the way, and
\* in order.  They are "exactly as they appeared in source" (57-58) where that is ASCII;
\* otherwise each byte has become a character (138, 145).  A trailing comment after a list without
\* brackets, or a needle in a comment, is not tried here.
ReadBack(before, items, quote, comment, bracketed, rest) ==
    ExtractPythonRequires(before \o Written(items, quote, comment, bracketed) \o rest)
        = SelectSeq([i \in DOMAIN items |-> TrimBlank(ByteWise(items[i]))], LAMBDA s : s # <<>>)
=============================================================================
