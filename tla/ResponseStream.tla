--------------------------- MODULE ResponseStream ---------------------------
(***************************************************************************)
(* How an API provider's answer is read (api_providers.rs): the events of  *)
(* an Anthropic stream are assembled into a message, an OpenAI stream      *)
(* counts only by the response its last event carries, and a body that is  *)
(* not streamed is that one value.  An event is a record; what its fields  *)
(* hold is a member of a small set, and an event that is not valid JSON,   *)
(* has no type, or has another type than its frame says is "garbage".      *)
(* Text is the sequence of its pieces; a tool's input is whole when its    *)
(* pieces are: "open" then "close".                                        *)
(***************************************************************************)
EXTENDS Integers, Sequences, FiniteSetsExt

CONSTANTS Index,       \* indices of the blocks of a message
          MaxItems,    \* MAX_ITEMS
          MaxPieces,   \* pieces of a text within MAX_TEXT_BYTES
          MaxCount,    \* the largest value of a 64-bit counter
          None

Count == 0..MaxCount
Usage == [input: Count, cached: Count, created: Count]

\* The reason a message ended; any other refuses the message.
Terminal == [end_turn |-> "completed", stop_sequence |-> "completed",
             tool_use |-> "tool_use", refusal |-> "refused",
             max_tokens |-> "truncated", pause_turn |-> "paused"]
TerminalState == {"completed", "tool_use", "refused", "truncated", "paused"}

\* A response object, the parts of a message that is assembled, and an answer.
Response == [status: STRING, model: STRING, items: Seq([kind: STRING, pieces: Seq(STRING)]),
             usage: Usage, output: Count, total: Count]
StartRow == [model: STRING, usage: Usage]
BlockRow == [kind: {"text", "tool"}, pieces: Seq(STRING), stopped: BOOLEAN]
FinishRow == [status: DOMAIN Terminal, output: Count]
ItemRow == [kind: {"text", "refusal", "tool"}, pieces: Seq(STRING)]
AnswerRow == [model: STRING, items: Seq(ItemRow), terminal: TerminalState,
              usage: Usage, output: Count]

ASSUME StreamAssumption ==
    /\ Index \subseteq Nat /\ IsFiniteSet(Index)
    /\ MaxItems \in Nat \ {0} /\ MaxPieces \in Nat /\ MaxCount \in Nat
    /\ None \notin StartRow \cup BlockRow \cup FinishRow

-----------------------------------------------------------------------------
(* Usage: what a provider says was consumed. *)

\* Anthropic counts the three categories apart; the sum may overflow.
SummedUsage(u) ==
    LET total == u.input + u.created + u.cached IN
    IF total > MaxCount THEN None ELSE [u EXCEPT !.input = total]

\* OpenAI's input includes the other categories, and its total must add up.
CheckedUsage(v) ==
    IF \/ v.usage.cached + v.usage.created > v.usage.input
       \/ v.usage.input + v.output # v.total
       \/ v.total > MaxCount
    THEN None ELSE v.usage

-----------------------------------------------------------------------------
(* One value: a response object. *)

\* What is read is a sequence of items [kind, pieces].
Item(kind, pieces) == [kind |-> kind, pieces |-> pieces]
WholeInput(pieces) == pieces = <<>> \/ pieces = <<"open", "close">>

Readable(items) ==
    /\ Len(items) \in 1..MaxItems
    /\ \A n \in DOMAIN items :
        /\ items[n].kind \in {"text", "refusal", "tool"}
        /\ items[n].kind = "tool" => WholeInput(items[n].pieces)

OpenAiTerminal(items) ==
    CASE \E n \in DOMAIN items : items[n].kind = "tool" -> "tool_use"
      [] \A n \in DOMAIN items : items[n].kind = "text" -> "completed"
      [] OTHER -> "refused"

ParseOpenAiValue(v) ==
    IF v.status = "completed" /\ Readable(v.items) /\ CheckedUsage(v) # None
    THEN [model |-> v.model, items |-> v.items, terminal |-> OpenAiTerminal(v.items),
          usage |-> CheckedUsage(v), output |-> v.output]
    ELSE None

ParseAnthropicValue(v) ==
    IF /\ v.status \in DOMAIN Terminal
       /\ Readable(v.items)
       /\ \A n \in DOMAIN v.items : v.items[n].kind # "refusal"
       /\ SummedUsage(v.usage) # None
    THEN [model |-> v.model, items |-> v.items, terminal |-> Terminal[v.status],
          usage |-> SummedUsage(v.usage), output |-> v.output]
    ELSE None

-----------------------------------------------------------------------------
(* The Anthropic stream: a parser's state, the events it takes, and what    *)
(* each does to it.                                                         *)

ParserRow == [start: StartRow \cup {None}, block: [Index -> BlockRow \cup {None}],
              finish: FinishRow \cup AnswerRow \cup {None}, stopped: BOOLEAN]

Nothing == [start |-> None, block |-> [i \in Index |-> None],
            finish |-> None, stopped |-> FALSE]

Began(p) == p.start # None
Blocks(p) == {i \in Index : p.block[i] # None}

Fits(b, e) ==
    /\ ~b.stopped
    /\ <<b.kind, e.kind>> \in {<<"text", "text">>, <<"tool", "tool">>}
    /\ e.piece # ""
    /\ Len(b.pieces) < MaxPieces

MessageStart(p, e) == ~Began(p) /\ SummedUsage(e.usage) # None
BlockStart(p, e) ==
    /\ Began(p)
    /\ Cardinality(Blocks(p)) < MaxItems /\ p.block[e.index] = None
    /\ e.kind \in {"text", "tool"}
BlockDelta(p, e) == p.block[e.index] # None /\ Fits(p.block[e.index], e)
BlockStop(p, e)  == p.block[e.index] # None /\ ~p.block[e.index].stopped
MessageDelta(p, e) ==
    Began(p) /\ p.finish = None /\ e.status \in DOMAIN Terminal

AnthropicTakes(p, e) ==
    \/ e.type = "done"
    \/ /\ ~p.stopped
       /\ \/ e.type = "other"
          \/ e.type = "message_start" /\ MessageStart(p, e)
          \/ e.type = "content_block_start" /\ BlockStart(p, e)
          \/ e.type = "content_block_delta" /\ BlockDelta(p, e)
          \/ e.type = "content_block_stop" /\ BlockStop(p, e)
          \/ e.type = "message_delta" /\ MessageDelta(p, e)
          \/ e.type = "message_stop" /\ Began(p)

AfterAnthropic(p, e) ==
    CASE e.type = "message_start" ->
            [p EXCEPT !.start = [model |-> e.model, usage |-> SummedUsage(e.usage)]]
      [] e.type = "content_block_start" ->
            [p EXCEPT !.block[e.index] =
                [kind |-> e.kind, pieces |-> <<>>, stopped |-> FALSE]]
      [] e.type = "content_block_delta" ->
            [p EXCEPT !.block[e.index].pieces = Append(@, e.piece)]
      [] e.type = "content_block_stop" ->
            [p EXCEPT !.block[e.index].stopped = TRUE]
      [] e.type = "message_delta" ->
            [p EXCEPT !.finish = [status |-> e.status, output |-> e.output]]
      [] e.type = "message_stop" -> [p EXCEPT !.stopped = TRUE]
      [] OTHER -> p

\* Fault: the end of the message ends its blocks.
CompleteMessage(p) == p.stopped /\ p.finish # None /\ Blocks(p) # {}

\* A stream is complete when the message and each of its blocks were stopped.
Complete(p) ==
    /\ p.stopped /\ p.finish # None /\ Blocks(p) # {}
    /\ \A i \in Blocks(p) : p.block[i].stopped

\* Items are in the order of the indices of their blocks.
Rank(i, S) == Cardinality({j \in S : j <= i})
Nth(n, S) == CHOOSE i \in S : Rank(i, S) = n

Assembled(p) ==
    LET item(i) == Item(p.block[i].kind, p.block[i].pieces)
        items == [n \in 1..Cardinality(Blocks(p)) |-> item(Nth(n, Blocks(p)))]
    IN IF Complete(p) /\ \A n \in DOMAIN items :
                            items[n].kind = "tool" => WholeInput(items[n].pieces)
       THEN [model |-> p.start.model, items |-> items,
             terminal |-> Terminal[p.finish.status],
             usage |-> p.start.usage, output |-> p.finish.output]
       ELSE None

-----------------------------------------------------------------------------
(* The OpenAI stream: only the completed response counts. *)

OpenAiTakes(p, e) ==
    \/ e.type = "done"
    \/ /\ p.finish = None
       /\ \/ e.type = "other"
          \/ e.type = "response.completed" /\ ParseOpenAiValue(e.value) # None

AfterOpenAi(p, e) ==
    IF e.type = "response.completed"
    THEN [p EXCEPT !.finish = ParseOpenAiValue(e.value)]
    ELSE p

=============================================================================
