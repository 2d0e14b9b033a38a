------------------------------ MODULE LlmTools ------------------------------
(***************************************************************************)
(* What a chat node keeps and does with tools: the window of its history   *)
(* that goes into the next request, the dispatch of a tool call to the     *)
(* channels of its output, and the channel header of a text.               *)
(* A text is a sequence of bytes.  A result is <<>> for a panic or an      *)
(* error, <<v>> for v.                                                     *)
(***************************************************************************)
EXTENDS Integers, SequencesExt

CONSTANTS
    DefaultChannel, \* TEXT_CHANNEL_DEFAULT
    UiChannel       \* "ui"

Nul == 0
Newline == 10
AsciiMax == 127
ByteMax == 255      \* u8::MAX

\* Texts of one-byte and two-byte characters.
IsLead(b) == b \in 194..223
IsContinuation(b) == b \in 128..191
Utf8(s) ==
    /\ \A i \in DOMAIN s : s[i] <= AsciiMax \/ IsLead(s[i]) \/ IsContinuation(s[i])
    /\ \A i \in DOMAIN s : IsLead(s[i]) => i < Len(s) /\ IsContinuation(s[i + 1])
    /\ \A i \in DOMAIN s : IsContinuation(s[i]) => i > 1 /\ IsLead(s[i - 1])

Texts == {s \in Seq(0..255) : Utf8(s)}

ToolsAssumption ==
    /\ DefaultChannel \in Texts /\ Len(DefaultChannel) \in 1..AsciiMax
    /\ UiChannel \in Texts /\ Len(UiChannel) \in 1..AsciiMax
    /\ DefaultChannel # UiChannel

\* A header is NUL, the length of the name, the name; without one the channel
\* is the default.
SplitText(s) ==
    LET length == s[2]
        channel == SubSeq(s, 3, 2 + length)
        content == SubSeq(s, 3 + length, Len(s))
    IN  IF Len(s) >= 2 /\ s[1] = Nul /\ 2 + length <= Len(s)
        THEN IF channel # <<>> /\ Utf8(channel) /\ Utf8(content)
             THEN <<channel, content>> ELSE <<DefaultChannel, s>>
        ELSE <<DefaultChannel, s>>

\* A name that does not fit a byte is cut; the conversion back to a string
\* panics unless all bytes, that of the length too, are UTF-8.
TagText(text, channel) ==
    LET cut == SubSeq(channel, 1, Min({Len(channel), ByteMax}))
        out == (<<Nul, Len(cut)>> \o cut) \o text
    IN  IF channel = <<>> \/ channel = DefaultChannel THEN <<text>>
        ELSE IF ~Utf8(out) THEN <<>> ELSE <<out>>

-----------------------------------------------------------------------------
\* Messages of the history: who speaks, and the ids of the calls made or answered.
User == [role |-> "user", calls |-> {}]
Assistant(calls) == [role |-> "assistant", calls |-> calls]
ToolResult(call) == [role |-> "tool", calls |-> {call}]

Entries(calls) ==
    {User} \cup {Assistant(made) : made \in SUBSET calls} \cup {ToolResult(c) : c \in calls}

\* Faulty variant: counts messages instead of turns.
WindowStartRaw(entries, maxTurns) == IF Len(entries) > maxTurns THEN Len(entries) - maxTurns ELSE 0

\* Counted in user turns from the end, as zero-based indices; where there are
\* fewer, the first of them.
WindowStart(entries, maxTurns) ==
    LET users == {i \in DOMAIN entries : entries[i].role = "user"}
        later(i) == Quantify(users, LAMBDA j : j >= i)
        seen == {i \in users : later(i) <= maxTurns}
    IN  IF maxTurns = 0 \/ users = {} THEN Len(entries) ELSE Min(seen) - 1

-----------------------------------------------------------------------------
\* The tools every node may offer: what they take, and whether a barge-in may
\* cut a call of theirs off.
DefaultTools ==
    <<[name |-> "say", kind |-> "SideEffect", required |-> "text", cancelable |-> TRUE],
      [name |-> "show", kind |-> "SideEffect", required |-> "content", cancelable |-> TRUE],
      [name |-> "perform_motion", kind |-> "SideEffect", required |-> "prompt",
       cancelable |-> FALSE]>>

\* The names under which a tool's text is looked for, in this order.
Keys == [say |-> <<"text", "content", "message", "body", "spoken">>,
         show |-> <<"content", "markdown", "text", "body">>,
         perform_motion |-> <<"prompt", "description", "action">>]

ToolSpecs == [name : STRING, kind : {"SideEffect", "ReturnValue"}, required : STRING,
              cancelable : BOOLEAN]

LookupTool(registry, name) ==
    LET i == SelectInSeq(registry, LAMBDA spec : spec.name = name)
    IN  IF i = 0 THEN <<>> ELSE <<registry[i]>>

\* Arguments are an object of strings, a bare string, or do not parse; these
\* count as an empty object.
IsArguments(args) ==
    \/ args.json = "object" /\ \A k \in DOMAIN args.is : args.is[k] \in Texts
    \/ args.json = "string" /\ args.is \in Texts
    \/ args.json = "null"

ExtractString(args, keys) ==
    CASE args.json = "object" ->
            LET i == SelectInSeq(keys, LAMBDA k : k \in DOMAIN args.is /\ args.is[k] # <<>>)
            IN  IF i = 0 THEN <<>> ELSE <<args.is[keys[i]]>>
      [] args.json = "string" /\ args.is # <<>> -> <<args.is>>
      [] OTHER -> <<>>

Flushable(text) == IF text # <<>> /\ Last(text) = Newline THEN text ELSE Append(text, Newline)

TextOutput(tagged) == IF tagged = <<>> THEN [kind |-> "Panic"] ELSE [kind |-> "Text", is |-> tagged[1]]

\* A say call is heard on its channel, and also on the default one.
Said(spoken, channel) ==
    IF channel = DefaultChannel THEN <<TextOutput(TagText(spoken, channel))>>
    ELSE <<TextOutput(TagText(spoken, channel)), TextOutput(TagText(spoken, DefaultChannel))>>

\* What a call emits when every callback succeeds.
Emissions(registry, call, channel) ==
    LET spec == LookupTool(registry, call.name)
        text == ExtractString(call.args, Keys[call.name])
    IN  IF \/ call.name = "" \/ spec = <<>> \/ spec[1].kind = "ReturnValue"
           \/ call.name \notin DOMAIN Keys \/ text = <<>>
        THEN <<>>
        ELSE CASE call.name = "say" -> Said(Flushable(text[1]), channel)
               [] call.name = "show" -> <<TextOutput(TagText(text[1], UiChannel))>>
               [] call.name = "perform_motion" ->
                    <<[kind |-> "Json", is |-> [kind |-> "motion_intent", prompt |-> text[1]]]>>

\* The callback that fails ends the dispatch, as a panic does; fails is the
\* number of the callback that fails, 0 if none does.
Dispatch(registry, call, channel, fails) ==
    LET all == Emissions(registry, call, channel)
        panic == SelectInSeq(all, LAMBDA e : e.kind = "Panic")
        ends == {n \in {panic, fails} : n \in DOMAIN all}
    IN  IF ends = {} THEN [emitted |-> all, ok |-> TRUE]
        ELSE [emitted |-> SubSeq(all, 1, Min(ends) - 1), ok |-> FALSE]

-----------------------------------------------------------------------------
\* Every call is answered and every answer has its call before it.
Paired(entries) ==
    /\ \A i \in DOMAIN entries : entries[i].role = "assistant" =>
        \A c \in entries[i].calls : \E j \in i + 1..Len(entries) : entries[j] = ToolResult(c)
    /\ \A j \in DOMAIN entries : entries[j].role = "tool" =>
        \E i \in 1..j - 1 : entries[i].role = "assistant" /\ entries[j].calls \subseteq entries[i].calls

\* No user speaks between a call and its answer, as a turn is stored whole.
Whole(entries) ==
    \A i, j \in DOMAIN entries :
        i < j /\ entries[i].role = "assistant" /\ entries[j].role = "tool"
              /\ entries[j].calls \subseteq entries[i].calls =>
            \A k \in i..j : entries[k].role # "user"

\* The window starts at a user turn (history.rs 13-15), holds as many as are
\* wanted, and cuts no call from its answers.
WindowPairs(entries, maxTurns) ==
    LET window == SubSeq(entries, WindowStart(entries, maxTurns) + 1, Len(entries))
        Users(s) == Quantify(DOMAIN s, LAMBDA i : s[i].role = "user")
    IN  /\ window # <<>> => window[1] = User
        /\ Users(window) = Min({Users(entries), maxTurns})
        /\ Paired(entries) /\ Whole(entries) => Paired(window)

\* A text that is taken for one with a header, be it for the default channel.
Headed(text) == SplitText(text) # <<DefaultChannel, text>>

\* Whatever name has no more than 127 bytes can be tagged, and no longer one: its
\* length is no UTF-8, against the comment that all parts are (types lib.rs 493),
\* and it panics where it was to be cut (486-488).  The text comes back from its channel unless it
\* looks tagged itself.
ChannelKept(text, channel) ==
    LET tagged == TagText(text, channel)
    IN  /\ tagged # <<>> <=> Len(channel) <= AsciiMax
        /\ Len(channel) \in 1..AsciiMax /\ (channel = DefaultChannel => ~Headed(text)) =>
            SplitText(tagged[1]) = <<channel, text>>

\* The texts that the arguments of a call hold.
TextsGiven(args) ==
    IF args.json = "object" THEN {args.is[k] : k \in DOMAIN args.is} \ {<<>>}
    ELSE IF args.json = "string" THEN {args.is} \ {<<>>} ELSE {}

Registered(registry, name) ==
    \E i \in DOMAIN registry :
        /\ registry[i].name = name /\ registry[i].kind = "SideEffect"
        /\ \A j \in 1..i - 1 : registry[j].name # name

\* What a say call sends to a channel is one of its texts, closed by a newline;
\* a text that would be taken for a tagged one is a different matter.
HeardOn(output, channel, texts) ==
    /\ output.kind = "Text"
    /\ (\A t \in texts : ~Headed(Flushable(t))) =>
        \E t \in texts : SplitText(output.is) = <<channel, Flushable(t)>>

\* A call of a registered side-effect tool is heard on the channels it is for,
\* once on each and in full (tool_dispatch.rs 40-57), also when it gives its
\* text under another name; no other call is, and after a failure nothing is.
Dispatched(registry, call, channel, fails) ==
    LET out == Dispatch(registry, call, channel, fails)
        texts == TextsGiven(call.args)
        sent == out.emitted
    IN  /\ sent # <<>> => Registered(registry, call.name) /\ texts # {}
        /\ out.ok /\ Registered(registry, call.name) /\ call.name \in DOMAIN Keys
              /\ call.args.json = "string" /\ texts # {} => sent # <<>>
        /\ fails # 0 => Len(sent) < fails
        /\ ~out.ok /\ Len(channel) <= AsciiMax => fails = Len(sent) + 1
        /\ out.ok /\ sent # <<>> /\ channel # <<>> =>
            /\ call.name = "say" =>
                /\ Len(channel) <= AsciiMax
                /\ HeardOn(sent[1], channel, texts)
                /\ IF channel = DefaultChannel THEN Len(sent) = 1
                   ELSE Len(sent) = 2 /\ HeardOn(sent[2], DefaultChannel, texts)
            /\ call.name = "show" =>
                /\ Len(sent) = 1 /\ sent[1].kind = "Text"
                /\ \E t \in texts : SplitText(sent[1].is) = <<UiChannel, t>>
            /\ call.name = "perform_motion" =>
                Len(sent) = 1 /\ sent[1].kind = "Json" /\ sent[1].is.prompt \in texts

\* What the model is asked for is what the dispatch looks for: a call that
\* gives a built-in tool the argument it requires is never dropped.
Understood(spec, text) ==
    text # <<>> =>
        LET args == [json |-> "object", is |-> [k \in {spec.required} |-> text]]
        IN  Emissions(DefaultTools, [name |-> spec.name, args |-> args], DefaultChannel) # <<>>
=============================================================================
