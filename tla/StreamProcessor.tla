--------------------------- MODULE StreamProcessor ---------------------------
(***************************************************************************)
(* The Stream Processor (services/streaming/processor.py) with its Tool    *)
(* Handler Registry (services/tool_handler.py): one run's processor turns  *)
(* each agent message into render events and keeps the active tools.       *)
(*                                                                         *)
(* Text is a sequence of character tokens over a small alphabet, so that   *)
(* strip, first-line and truncation are modelled by what they do.  A tool  *)
(* name is a sequence of tokens in which "__" and "_" are separators.      *)
(***************************************************************************)
EXTENDS Naturals, Sequences, SequencesExt

CONSTANTS
    Ids,          \* tool_use ids
    NoId,         \* a ToolResultBlock without tool_use_id
    Parents,      \* parent_tool_use_id values of assistant messages
    NoParent,     \* parent_tool_use_id = None
    Names,        \* tool names, as token sequences
    Inputs,       \* tool inputs: functions from keys to texts
    NoInput,      \* a ToolUseBlock whose input is not a dict
    Texts,        \* texts a text or thinking block may carry
    MaxDescLen,   \* _MAX_DESC_LEN (60 in the code)
    MaxMsgs,      \* bound: agent messages in the run
    MaxBlocks,    \* bound: content blocks per message
    SampleTexts   \* texts _truncate is checked on

ASSUME MaxDescLen \in Nat \ {0} /\ MaxMsgs \in Nat /\ MaxBlocks \in Nat \ {0}

\* Character tokens.  Ellipsis is "…".
Space    == {" ", "\n"}
Ellipsis == "..."

-----------------------------------------------------------------------------
(* Text helpers of tool_handler.py                                         *)

RECURSIVE LStrip(_)
LStrip(s) == IF s # <<>> /\ Head(s) \in Space THEN LStrip(Tail(s)) ELSE s

\* str.strip()
Strip(s) == Reverse(LStrip(Reverse(LStrip(s))))

\* s.split("\n", 1)[0]
FirstLine(s) ==
    LET nl == SelectInSeq(s, LAMBDA c : c = "\n") IN
    IF nl = 0 THEN s ELSE SubSeq(s, 1, nl - 1)

\* Mutant: the cut keeps max_len characters before the ellipsis.
TruncateOffByOne(s) ==
    LET l == Strip(FirstLine(Strip(s))) IN
    IF Len(l) > MaxDescLen THEN SubSeq(l, 1, MaxDescLen) \o <<Ellipsis>>
    ELSE l

\* _truncate: the first line of the stripped text, stripped, cut to
\* max_len - 1 characters and an ellipsis when longer than max_len.
Truncate(s) ==
    LET l == Strip(FirstLine(Strip(s))) IN
    IF Len(l) > MaxDescLen THEN SubSeq(l, 1, MaxDescLen - 1) \o <<Ellipsis>>
    ELSE l

\* A tool name equal to one of the given one-token names.
IsTool(name, alts) == Len(name) = 1 /\ name[1] \in alts

\* The keys _extract_tool_description reads for a known tool, in order;
\* <<>> for a tool it does not know.
ToolKeys(name) ==
    CASE IsTool(name, {"Bash", "bash"}) -> <<"description", "command">>
      [] IsTool(name, {"Task", "task"}) -> <<"description">>
      [] IsTool(name, {"Read", "read", "Write", "write", "Edit", "edit"}) ->
            <<"file_path">>
      [] IsTool(name, {"Glob", "glob", "Grep", "grep"}) -> <<"pattern">>
      [] IsTool(name, {"WebFetch", "web_fetch"}) -> <<"url">>
      [] IsTool(name, {"WebSearch", "web_search"}) -> <<"query">>
      [] IsTool(name, {"TodoWrite", "TaskCreate"}) -> <<"subject">>
      [] OTHER -> <<>>

GenericKeys == <<"description", "prompt", "query", "file_path", "pattern", "command">>

\* tool_input.get(key), with a missing key as the empty (falsy) text.
Get(in, k) == IF k \in DOMAIN in THEN in[k] ELSE <<>>

\* _extract_tool_description: a known tool takes its first truthy field
\* (`a or b`, `x if x else ""`); any other tool the first field that is
\* not blank.
Description(name, in) ==
    LET known == ToolKeys(name)
        i == IF known # <<>> THEN SelectInSeq(known, LAMBDA k : Get(in, k) # <<>>)
             ELSE SelectInSeq(GenericKeys, LAMBDA k : Strip(Get(in, k)) # <<>>)
        keys == IF known # <<>> THEN known ELSE GenericKeys
    IN IF i = 0 THEN <<>> ELSE Truncate(Get(in, keys[i]))

\* The base name: for mcp__<server>__<tool> the part after the second
\* "__" (split with maxsplit=2), underscores turned into spaces.
BaseName(name) ==
    LET seps == {i \in 1..Len(name) : name[i] = "__"}
        second == IF Len(name) >= 2 /\ name[1] = "mcp" /\ name[2] = "__"
                     /\ \E i \in seps : i > 2
                  THEN CHOOSE i \in seps : i > 2 /\ \A j \in seps : j > 2 => i <= j
                  ELSE 0
    IN IF second = 0 THEN name
       ELSE LET tool == SubSeq(name, second + 1, Len(name)) IN
            FlattenSeq([i \in 1..Len(tool) |->
                          CASE tool[i] = "_"  -> <<" ">>
                            [] tool[i] = "__" -> <<" ", " ">>
                            [] OTHER          -> <<tool[i]>>])

\* _format_tool_title, as its two parts: Base(desc), or Base alone when
\* the input is empty or yields no description (desc = <<>>).
FormatTitle(name, in) ==
    [base |-> BaseName(name),
     desc |-> IF in = NoInput \/ DOMAIN in = {} THEN <<>> ELSE Description(name, in)]

UnknownTitle == [base |-> <<"Unknown tool">>, desc |-> <<>>]

-----------------------------------------------------------------------------
(* ToolHandlerRegistry: the active tools and the tool events               *)

VARIABLES
    active,     \* ToolHandlerRegistry._active: id -> [title, parent] or NoTool
    events,     \* the render events emit_events_for_message yielded, in order
    totalCost,  \* StreamProcessor.total_cost_usd
    usage,      \* StreamProcessor.usage
    msgs        \* agent messages processed (bound only)

vars == <<active, events, totalCost, usage, msgs>>

NoTool == [title |-> UnknownTitle, parent |-> NoParent, known |-> FALSE]

\* A render event; fields a kind does not carry are <<>>.
Ev(type, id, tool, text) ==
    [type |-> type, id |-> id, title |-> tool.title, parent |-> tool.parent,
     text |-> text]
TextEv(type, text) == Ev(type, <<>>, [title |-> <<>>, parent |-> <<>>], text)

\* The result of processing: the new active map and the events, in order.
Out(act, evs) == [act |-> act, evs |-> evs]

\* start_tool: no event for a block without id; otherwise record the tool
\* (a second start of one id replaces the first) and emit tool_started.
StartTool(act, b, parent) ==
    IF b.id = "" THEN Out(act, <<>>)
    ELSE LET st == [title |-> FormatTitle(b.name, b.input), parent |-> parent,
                    known |-> TRUE]
         IN Out([act EXCEPT ![b.id] = st], <<Ev("tool_started", b.id, st, <<>>)>>)

\* Mutant: the state is read with get() and stays active.
FinishToolNoPop(act, b) ==
    IF b.id = NoId THEN Out(act, <<>>)
    ELSE LET st == IF act[b.id].known THEN act[b.id] ELSE NoTool
         IN Out(act, <<Ev(IF b.isError THEN "tool_failed" ELSE "tool_completed",
                          b.id, st, <<>>)>>)

\* finish_tool: pop the tool, or an "Unknown tool" placeholder when its
\* start was not seen; emit tool_failed or tool_completed.
FinishTool(act, b) ==
    IF b.id = NoId THEN Out(act, <<>>)
    ELSE LET st == IF act[b.id].known THEN act[b.id] ELSE NoTool
         IN Out([act EXCEPT ![b.id] = NoTool],
                <<Ev(IF b.isError THEN "tool_failed" ELSE "tool_completed",
                     b.id, st, <<>>)>>)

-----------------------------------------------------------------------------
(* StreamProcessor                                                         *)

\* _emit_text_block: a <prompt_suggestions> block holding a JSON list gives
\* prompt_suggestions; any such block is cut out and the rest stripped;
\* what is left, if non-empty, is assistant_text.
TextBlockEvents(b) ==
    LET sugg == IF b.wrap = "suggestions" THEN <<TextEv("prompt_suggestions", <<>>)>>
                ELSE <<>>
        text == IF b.wrap = "none" THEN b.text ELSE Strip(b.text)
    IN sugg \o (IF text # <<>> THEN <<TextEv("assistant_text", text)>> ELSE <<>>)

\* _emit_block_events for one block of an assistant message.
AssistantBlock(act, b, parent) ==
    CASE b.kind = "text"        -> Out(act, TextBlockEvents(b))
      [] b.kind = "thinking"    ->
            Out(act, IF b.text # <<>> THEN <<TextEv("assistant_thinking", b.text)>>
                     ELSE <<>>)
      [] b.kind = "tool_use"    -> StartTool(act, b, parent)
      [] b.kind = "tool_result" -> FinishTool(act, b)

\* _emit_user_events for one block: a <local-command-stdout> wrapper is
\* replaced by its stripped content; other blocks than text and tool
\* results are ignored.
UserBlock(act, b) ==
    CASE b.kind = "text" ->
            LET text == IF b.wrap = "stdout" THEN Strip(b.text) ELSE b.text IN
            Out(act, IF text # <<>> THEN <<TextEv("user_text", text)>> ELSE <<>>)
      [] b.kind = "tool_result" -> FinishTool(act, b)
      [] OTHER -> Out(act, <<>>)

\* The generator runs over the blocks in order, threading the registry.
RECURSIVE BlocksEvents(_, _, _, _)
BlocksEvents(act, bs, user, parent) ==
    IF bs = <<>> THEN Out(act, <<>>)
    ELSE LET r == IF user THEN UserBlock(act, Head(bs))
                  ELSE AssistantBlock(act, Head(bs), parent)
             rest == BlocksEvents(r.act, Tail(bs), user, parent)
         IN Out(rest.act, r.evs \o rest.evs)

\* The blocks an assistant or a user message may carry.
TextBlocks(wraps) == [kind : {"text"}, text : Texts, wrap : wraps]
AssistantBlocks ==
    TextBlocks({"none", "suggestions", "badSuggestions"})
    \cup [kind : {"thinking"}, text : Texts]
    \cup [kind : {"tool_use"}, id : Ids \cup {""}, name : Names,
          input : Inputs \cup {NoInput}]
    \cup [kind : {"tool_result"}, id : Ids \cup {NoId}, isError : BOOLEAN]
UserBlocks ==
    TextBlocks({"none", "stdout"})
    \cup [kind : {"tool_result"}, id : Ids \cup {NoId}, isError : BOOLEAN]

\* One call of emit_events_for_message, consumed in full by run.
Process(evs, act) ==
    /\ msgs < MaxMsgs
    /\ msgs' = msgs + 1
    /\ events' = events \o evs
    /\ active' = act

\* SystemMessage: the session_init event (run passes no callback).
ReceiveSystem ==
    /\ Process(<<TextEv("system", <<>>)>>, active)
    /\ UNCHANGED <<totalCost, usage>>

\* AssistantMessage: its blocks with its parent_tool_use_id.
ReceiveAssistant ==
    \E parent \in Parents \cup {NoParent},
      bs \in SeqOf(AssistantBlocks, MaxBlocks) \ {<<>>} :
        LET r == BlocksEvents(active, bs, FALSE, parent) IN
        /\ Process(r.evs, r.act)
        /\ UNCHANGED <<totalCost, usage>>

\* UserMessage: its text and tool-result blocks.
ReceiveUser ==
    \E bs \in SeqOf(UserBlocks, MaxBlocks) \ {<<>>} :
        LET r == BlocksEvents(active, bs, TRUE, NoParent) IN
        /\ Process(r.evs, r.act)
        /\ UNCHANGED <<totalCost, usage>>

\* Mutant: usage is taken without the isinstance(dict) check.
ReceiveResultAnyUsage ==
    \E hasCost \in BOOLEAN, u \in {"none", "dict", "other"} :
        /\ Process(<<>>, active)
        /\ totalCost' = IF hasCost THEN totalCost + 1 ELSE totalCost
        /\ usage' = CASE u = "none" -> usage [] u = "dict" -> "given" [] OTHER -> u

\* ResultMessage: no event; add cost_usd when present, and take usage (a
\* non-dict usage becomes {}).  Costs are counted in whole units.
ReceiveResult ==
    \E hasCost \in BOOLEAN, u \in {"none", "dict", "other"} :
        /\ Process(<<>>, active)
        /\ totalCost' = IF hasCost THEN totalCost + 1 ELSE totalCost
        /\ usage' = CASE u = "none" -> usage [] u = "dict" -> "given" [] OTHER -> "empty"

\* StreamProcessor.__init__ with a fresh ToolHandlerRegistry.
Init ==
    /\ active = [i \in Ids |-> NoTool]
    /\ events = <<>>
    /\ totalCost = 0
    /\ usage = "empty"
    /\ msgs = 0

\* The processor only runs while the agent sends messages; it may stop
\* after any of them.
Next == ReceiveSystem \/ ReceiveAssistant \/ ReceiveUser \/ ReceiveResult

Spec == Init /\ [][Next]_vars

-----------------------------------------------------------------------------
(* Properties                                                              *)

Titles == [base : Seq(STRING), desc : Seq(STRING)]
ToolStates == [title : Titles, parent : Parents \cup {NoParent}, known : BOOLEAN]

TypeOK ==
    /\ active \in [Ids -> ToolStates]
    /\ \A i \in 1..Len(events) :
          events[i].type \in {"system", "assistant_text", "assistant_thinking",
                              "prompt_suggestions", "user_text", "tool_started",
                              "tool_completed", "tool_failed"}
    /\ totalCost \in 0..MaxMsgs /\ usage \in {"empty", "given"}
    /\ msgs \in 0..MaxMsgs

IsToolEv(e) == e.type \in {"tool_started", "tool_completed", "tool_failed"}
IsFinish(e) == e.type \in {"tool_completed", "tool_failed"}

\* Spec 4.2 (finish_tool pops the state): a tool_completed or tool_failed
\* that names a tool (not the "Unknown tool" placeholder) answers the last
\* tool event of its id, and that event is the tool_started with the same
\* title and parent.  With results out of order, duplicated, or ids
\* reused, a tool is never reported finished twice nor under another
\* tool's title.
ToolEventsPaired ==
    \A j \in 1..Len(events) :
        IsFinish(events[j]) /\ events[j].title # UnknownTitle =>
            \E i \in 1..j-1 :
                /\ events[i].type = "tool_started"
                /\ events[i].id = events[j].id
                /\ events[i].title = events[j].title
                /\ events[i].parent = events[j].parent
                /\ \A k \in i+1..j-1 : ~(IsToolEv(events[k]) /\ events[k].id = events[j].id)

\* Spec 4.2 on _truncate: "desc is trimmed to its first line and truncated
\* to 60 characters with a trailing ellipsis when longer", stated without
\* the code's steps: the result has no line break and no leading blank,
\* fits in MaxDescLen, is empty only for a blank text, and is a prefix of
\* the text after its leading blanks, or is MaxDescLen long and ends in the
\* ellipsis after such a prefix, which happens only when the first line is
\* longer than MaxDescLen.  Checked for every sample text and every text
\* the run has emitted.
TruncationMeetsSpec ==
    \A s \in SampleTexts \cup {events[i].text : i \in 1..Len(events)} :
        LET r == Truncate(s)
            start == SelectInSeq(s, LAMBDA c : c \notin Space)
            body == IF start = 0 THEN <<>> ELSE SubSeq(s, start, Len(s))
            nl == SelectInSeq(body, LAMBDA c : c = "\n")
            line == IF nl = 0 THEN body ELSE SubSeq(body, 1, nl - 1)
            clipped == r # <<>> /\ Last(r) = Ellipsis
        IN /\ Len(r) <= MaxDescLen
           /\ "\n" \notin ToSet(r)
           /\ r # <<>> => r[1] \notin Space
           /\ (r = <<>>) = (body = <<>>)
           /\ IF clipped
              THEN /\ Len(r) = MaxDescLen /\ IsPrefix(Front(r), line)
                   /\ Len(line) > MaxDescLen
              ELSE /\ IsPrefix(r, line)
                   /\ \A k \in Len(r)+1..Len(line) : line[k] \in Space

====
