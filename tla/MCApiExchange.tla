---------------------------- MODULE MCApiExchange ---------------------------
(***************************************************************************)
(* Instances of ApiExchange.  Block 0 is a text, block 1 a tool's input.   *)
(***************************************************************************)
EXTENDS ApiExchange

Blocks01 == {0, 1}
KindOf(i) == IF i = 0 THEN "text" ELSE "tool"

Plain(t) == [type |-> t]

Usages == {[input |-> 2, cached |-> 1, created |-> 1],
           [input |-> MaxCount, cached |-> 1, created |-> 0]}

Answers ==
    [status : {"completed", "end_turn"}, model : {"asked", "other"},
     items : {<<>>, <<Item("text", <<"word">>)>>,
              <<Item("text", <<"word">>), Item("tool", <<"open">>)>>,
              <<Item("tool", <<"open", "close">>), Item("refusal", <<"word">>)>>},
     usage : [input : {0, 2, 3}, cached : {0, 1, 2}, created : {0, 1}],
     output : {0, 1, 2}, total : {2, 3, 5}]

Streamed ==
    {Plain(t) : t \in {"done", "error", "garbage", "message_stop"}}
    \cup {[type |-> "message_start", usage |-> u, model |-> "asked"] : u \in Usages}
    \cup {[type |-> "content_block_start", index |-> i, kind |-> KindOf(i)] : i \in Index}
    \cup {[type |-> "content_block_delta", index |-> i, kind |-> KindOf(i), piece |-> p] :
            i \in {0}, p \in {"word"}}
    \cup {[type |-> "content_block_delta", index |-> 1, kind |-> "tool", piece |-> p] :
            p \in {"open", "close"}}
    \cup {[type |-> "content_block_delta", index |-> 1, kind |-> "text", piece |-> "word"]}
    \cup {[type |-> "content_block_stop", index |-> i] : i \in Index}
    \cup {[type |-> "message_delta", status |-> s, output |-> 1] :
            s \in {"end_turn", "unheard"}}
    \cup {[type |-> "response.completed", value |-> v] :
            v \in {a \in Answers : a.status = "completed" /\ a.usage.input = 3
                                    /\ a.model = "asked" /\ a.output = 2}}

Statuses == {302, 401, 403, 404, 418, 429, 503}
Codes    == {"insufficient_quota", "billing_error", "other"}
Rates    == [input |-> 2, cached |-> 1, created |-> 3, output |-> 5]
Reserved == [input |-> 3, output |-> 2]

=============================================================================
