-------------------------- MODULE ApiExchangeProofs --------------------------
(***************************************************************************)
(* Proofs about the conversation with a provider: what is read as an       *)
(* answer, how often a request is carried out, and what an answer costs.   *)
(***************************************************************************)
EXTENDS ApiExchange, FiniteSetTheorems, TLAPS

-----------------------------------------------------------------------------
(* Ranks in a finite set of numbers. *)

LEMMA RankIn ==
    ASSUME NEW S \in SUBSET Nat, IsFiniteSet(S), NEW i \in S
    PROVE  Rank(i, S) \in 1..Cardinality(S)
<1> DEFINE upto == {j \in S : j <= i}
<1>1. IsFiniteSet(upto) /\ Cardinality(upto) <= Cardinality(S)
  BY FS_Subset
<1>2. Cardinality(S) \in Nat /\ Cardinality(upto) \in Nat
  BY <1>1, FS_CardinalityType
<1>3. Cardinality(upto) # 0
  <2>1. i \in upto
    OBVIOUS
  <2> HIDE DEF upto
  <2> QED
    BY <1>1, <2>1, FS_EmptySet
<1> QED
  BY <1>1, <1>2, <1>3 DEF Rank

LEMMA RankDiffers ==
    ASSUME NEW S \in SUBSET Nat, IsFiniteSet(S), NEW i \in S, NEW k \in S, i < k
    PROVE  Rank(i, S) # Rank(k, S)
<1> DEFINE low == {j \in S : j <= i}
           high == {j \in S : j <= k}
<1>1. low \in SUBSET high /\ IsFiniteSet(high)
  <2>1. high \in SUBSET S /\ \A j \in S : j <= i => j <= k
    OBVIOUS
  <2>2. IsFiniteSet(high)
    BY <2>1, FS_Subset
  <2> QED
    BY <2>1, <2>2
<1>2. k \in high /\ k \notin low
  OBVIOUS
<1>3. Cardinality(low) # Cardinality(high)
  <2> HIDE DEF low, high
  <2> QED
    BY <1>1, <1>2, FS_Subset
<1> QED
  BY <1>3 DEF Rank

LEMMA NthOfRank ==
    ASSUME NEW S \in SUBSET Nat, IsFiniteSet(S), NEW i \in S
    PROVE  Nth(Rank(i, S), S) = i
<1>1. \A k \in S : Rank(k, S) = Rank(i, S) => k = i
  <2> SUFFICES ASSUME NEW k \in S, k # i PROVE Rank(k, S) # Rank(i, S)
    OBVIOUS
  <2>1. k < i \/ i < k
    OBVIOUS
  <2> QED
    BY <2>1, RankDiffers
<1> QED
  BY <1>1 DEF Nth

\* Ranks leave no gap: each place is taken.
LEMMA NthIn ==
    ASSUME NEW S \in SUBSET Nat, IsFiniteSet(S), NEW n \in 1..Cardinality(S)
    PROVE  Nth(n, S) \in S /\ Rank(Nth(n, S), S) = n
<1> DEFINE rank == [i \in S |-> Rank(i, S)]
           T == 1..Cardinality(S)
<1>1. rank \in [S -> T]
  BY RankIn
<1>2. \A i, k \in S : rank[i] = rank[k] => i = k
  BY NthOfRank
<1>3. Cardinality(S) \in Nat
  BY FS_CardinalityType
<1>4. IsFiniteSet(T) /\ Cardinality(T) = Cardinality(S)
  BY <1>3, FS_Interval
<1>5. rank \in Injection(S, T)
  <2> HIDE DEF rank, T
  <2> QED
    BY <1>1, <1>2 DEF Injection, IsInjective
<1>6. rank \in Surjection(S, T)
  BY <1>4, <1>5, FS_Injection
<1>7. \E i \in S : Rank(i, S) = n
  BY <1>6 DEF Surjection
<1> QED
  BY <1>7 DEF Nth

\* A number above all others comes last.
LEMMA RankAbove ==
    ASSUME NEW S \in SUBSET Nat, IsFiniteSet(S), NEW m \in Nat, \A i \in S : i < m
    PROVE  /\ \A i \in S : Rank(i, S \cup {m}) = Rank(i, S)
           /\ Rank(m, S \cup {m}) = Cardinality(S) + 1
           /\ Cardinality(S \cup {m}) = Cardinality(S) + 1
<1>1. ASSUME NEW i \in S PROVE Rank(i, S \cup {m}) = Rank(i, S)
  <2>1. {j \in S \cup {m} : j <= i} = {j \in S : j <= i}
    OBVIOUS
  <2> QED
    BY <2>1 DEF Rank
<1>2. Cardinality(S \cup {m}) = Cardinality(S) + 1
  <2>1. m \notin S
    OBVIOUS
  <2> QED
    BY <2>1, FS_AddElement
<1>3. {j \in S \cup {m} : j <= m} = S \cup {m}
  <2>1. \A j \in S \cup {m} : j <= m
    <3>1. m <= m /\ \A j \in S : j \in Nat /\ j < m
      OBVIOUS
    <3> QED
      BY <3>1
  <2> QED
    BY <2>1
<1> QED
  BY <1>1, <1>2, <1>3 DEF Rank

-----------------------------------------------------------------------------
(* Costs. *)

LEMMA ProductGrows ==
    ASSUME NEW a \in Nat, NEW b \in Nat, NEW r \in Nat, a <= b
    PROVE  a * r \in Nat /\ a * r <= b * r /\ r * a <= r * b
<1>1. PICK d \in Nat : b = a + d
  <2>1. b - a \in Nat /\ b = a + (b - a)
    OBVIOUS
  <2> QED
    BY <2>1
<1>2. d * r \in Nat /\ a * r \in Nat /\ b * r = a * r + d * r
  BY <1>1
<1>3. r * a = a * r /\ r * b = b * r
  OBVIOUS
<1> QED
  BY <1>2, <1>3

LEMMA QuotientGrows ==
    ASSUME NEW a \in Nat, NEW b \in Nat, NEW d \in Nat \ {0}, a <= b
    PROVE  a \div d <= b \div d
<1>1. PICK p \in Nat, m \in Nat : p = a \div d /\ a = d * p + m /\ m < d
  <2>1. a \div d \in Nat /\ a % d \in Nat /\ a % d < d /\ a = d * (a \div d) + (a % d)
    OBVIOUS
  <2> QED
    BY <2>1
<1>2. PICK q \in Nat, n \in Nat : q = b \div d /\ b = d * q + n /\ n < d
  <2>1. b \div d \in Nat /\ b % d \in Nat /\ b % d < d /\ b = d * (b \div d) + (b % d)
    OBVIOUS
  <2> QED
    BY <2>1
<1>3. ASSUME q < p PROVE FALSE
  <2>1. q + 1 <= p
    BY <1>3
  <2>2. d * (q + 1) <= d * p
    BY <2>1, ProductGrows
  <2>3. d * (q + 1) = d * q + d
    OBVIOUS
  <2>4. d * q \in Nat /\ d * p \in Nat
    OBVIOUS
  <2> QED
    BY <1>1, <1>2, <2>2, <2>3, <2>4
<1> QED
  BY <1>1, <1>2, <1>3

LEMMA DearestRate ==
           LET rate == Max({Price.input, Price.cached, Price.created})
               dear == Dearest(Tokens.input) IN
           /\ rate \in Nat
           /\ Price.input <= rate /\ Price.cached <= rate /\ Price.created <= rate
           /\ (dear.input - dear.cached - dear.created) * Price.input
                 + dear.cached * Price.cached + dear.created * Price.created
                 = Tokens.input * rate
<1> DEFINE rate == Max({Price.input, Price.cached, Price.created})
<1>1. /\ Price.input \in Nat /\ Price.cached \in Nat /\ Price.created \in Nat
      /\ Tokens.input \in Nat
  BY ExchangeAssumption
<1>2. /\ rate \in {Price.input, Price.cached, Price.created}
      /\ Price.input <= rate /\ Price.cached <= rate /\ Price.created <= rate
  <2>1. \E x \in {Price.input, Price.cached, Price.created} :
            \A y \in {Price.input, Price.cached, Price.created} : x >= y
    BY <1>1
  <2>2. /\ rate \in {Price.input, Price.cached, Price.created}
        /\ \A y \in {Price.input, Price.cached, Price.created} : rate >= y
    BY <2>1 DEF Max
  <2> QED
    BY <1>1, <2>2
<1> HIDE DEF rate
<1>3. Dearest(Tokens.input) =
        [input |-> Tokens.input,
         cached |-> IF rate # Price.input /\ rate = Price.cached THEN Tokens.input ELSE 0,
         created |-> IF rate \notin {Price.input, Price.cached} THEN Tokens.input ELSE 0]
  BY Zenon DEF Dearest, rate
<1>4. PICK dear : dear = Dearest(Tokens.input)
  OBVIOUS
<1>5. /\ dear.input = Tokens.input
      /\ dear.cached = IF rate # Price.input /\ rate = Price.cached THEN Tokens.input ELSE 0
      /\ dear.created = IF rate \notin {Price.input, Price.cached} THEN Tokens.input ELSE 0
  BY <1>3, <1>4
<1>6. (dear.input - dear.cached - dear.created) * Price.input
        + dear.cached * Price.cached + dear.created * Price.created
        = Tokens.input * rate
  <2>1. CASE rate = Price.input
    <3>1. dear.input = Tokens.input /\ dear.cached = 0 /\ dear.created = 0
      BY <1>5, <2>1
    <3> QED
      BY <1>1, <2>1, <3>1
  <2>2. CASE rate # Price.input /\ rate = Price.cached
    <3>1. dear.input = Tokens.input /\ dear.cached = Tokens.input /\ dear.created = 0
      BY <1>5, <2>2
    <3>2. dear.input - dear.cached - dear.created = 0
      BY <1>1, <3>1
    <3> QED
      BY <1>1, <2>2, <3>1, <3>2
  <2>3. CASE rate \notin {Price.input, Price.cached}
    <3>1. dear.input = Tokens.input /\ dear.cached = 0 /\ dear.created = Tokens.input
      BY <1>5, <2>3
    <3>2. dear.input - dear.cached - dear.created = 0 /\ rate = Price.created
      BY <1>1, <1>2, <2>3, <3>1
    <3> QED
      BY <1>1, <3>1, <3>2
  <2> QED
    BY <2>1, <2>2, <2>3
<1> QED
  BY <1>1, <1>2, <1>4, <1>6 DEF rate

\* What a provider may say was consumed.
Sane(u) == u \in Usage /\ u.cached + u.created <= u.input

LEMMA CostWithinReserved ==
    ASSUME NEW u, Sane(u), NEW output \in Count,
           u.input <= Tokens.input, output <= Tokens.output
    PROVE  CostOf(u, output) <= ReservedMicros
<1>1. PICK rate, dear : /\ rate = Max({Price.input, Price.cached, Price.created})
                        /\ dear = Dearest(Tokens.input)
  OBVIOUS
<1>2. /\ rate \in Nat
      /\ Price.input <= rate /\ Price.cached <= rate /\ Price.created <= rate
      /\ (dear.input - dear.cached - dear.created) * Price.input
            + dear.cached * Price.cached + dear.created * Price.created
            = Tokens.input * rate
  BY <1>1, DearestRate
<1>3. /\ Price.input \in Nat /\ Price.cached \in Nat /\ Price.created \in Nat
      /\ Price.output \in Nat /\ Tokens.input \in Nat /\ Tokens.output \in Nat
      /\ Denominator \in Nat \ {0}
  BY ExchangeAssumption
<1>4. /\ u.input \in Nat /\ u.cached \in Nat /\ u.created \in Nat /\ output \in Nat
      /\ u.cached + u.created <= u.input
  BY StreamAssumption DEF Sane, Usage, Count
<1>5. PICK plain \in Nat : /\ plain = u.input - u.cached - u.created
                           /\ plain + u.cached + u.created = u.input
  <2>1. u.input - u.cached - u.created \in Nat
    BY <1>4
  <2> QED
    BY <1>4, <2>1
<1>6. PICK cached, created : cached = u.cached /\ created = u.created
  OBVIOUS
<1>7. /\ plain * Price.input \in Nat /\ plain * Price.input <= plain * rate
      /\ cached * Price.cached \in Nat /\ cached * Price.cached <= cached * rate
      /\ created * Price.created \in Nat /\ created * Price.created <= created * rate
  BY <1>2, <1>3, <1>4, <1>5, <1>6, ProductGrows
<1>8. plain * rate + cached * rate + created * rate = u.input * rate
  <2>1. u.input = plain + cached + created
    BY <1>5, <1>6
  <2>2. (plain + cached + created) * rate = plain * rate + cached * rate + created * rate
    BY <1>2, <1>4, <1>5, <1>6
  <2> QED
    BY <2>1, <2>2
<1>9. /\ u.input * rate \in Nat /\ u.input * rate <= Tokens.input * rate
      /\ output * Price.output \in Nat /\ output * Price.output <= Tokens.output * Price.output
      /\ Tokens.input * rate \in Nat /\ Tokens.output * Price.output \in Nat
  BY <1>2, <1>3, <1>4, ProductGrows
<1>10. PICK cost \in Nat, most \in Nat :
        /\ cost = plain * Price.input + cached * Price.cached + created * Price.created
                    + output * Price.output
        /\ most = Tokens.input * rate + Tokens.output * Price.output
        /\ cost <= most
  <2>1. /\ plain * rate \in Nat /\ cached * rate \in Nat /\ created * rate \in Nat
    BY <1>2, <1>4, <1>5, <1>6
  <2>2. PICK a \in Nat, b \in Nat, c \in Nat, o \in Nat :
            /\ a = plain * Price.input /\ b = cached * Price.cached
            /\ c = created * Price.created /\ o = output * Price.output
    BY <1>7, <1>9
  <2>3. PICK ar \in Nat, br \in Nat, cr \in Nat, ir \in Nat, tr \in Nat, oo \in Nat :
            /\ ar = plain * rate /\ br = cached * rate /\ cr = created * rate
            /\ ir = u.input * rate /\ tr = Tokens.input * rate
            /\ oo = Tokens.output * Price.output
    BY <1>9, <2>1
  <2>4. a <= ar /\ b <= br /\ c <= cr /\ ar + br + cr = ir /\ ir <= tr /\ o <= oo
    BY <1>7, <1>8, <1>9, <2>2, <2>3
  <2>5. a + b + c + o \in Nat /\ tr + oo \in Nat /\ a + b + c + o <= tr + oo
    BY <2>4
  <2> QED
    BY <2>2, <2>3, <2>5
<1>11. CostOf(u, output) = (cost + Denominator - 1) \div Denominator
  BY <1>5, <1>6, <1>10 DEF CostOf
<1>12. ReservedMicros = (most + Denominator - 1) \div Denominator
  BY <1>1, <1>2, <1>10 DEF ReservedMicros, CostOf
<1>13. PICK x \in Nat, y \in Nat :
        x = cost + Denominator - 1 /\ y = most + Denominator - 1 /\ x <= y
  <2>1. cost + Denominator - 1 \in Nat /\ most + Denominator - 1 \in Nat
    BY <1>3, <1>10
  <2> QED
    BY <1>3, <1>10, <2>1
<1> QED
  BY <1>3, <1>11, <1>12, <1>13, QuotientGrows

-----------------------------------------------------------------------------
(* What is read has its types. *)

\* A usage whose sum fits holds its parts.
LEMMA SummedUsageIsSane ==
    ASSUME NEW u \in Usage, SummedUsage(u) # None
    PROVE  Sane(SummedUsage(u))
<1> DEFINE total == u.input + u.created + u.cached
<1>1. /\ u.input \in Nat /\ u.cached \in Nat /\ u.created \in Nat /\ MaxCount \in Nat
      /\ total \in Nat
  BY StreamAssumption DEF Usage, Count
<1>2. total <= MaxCount /\ SummedUsage(u) = [u EXCEPT !.input = total]
  BY <1>1 DEF SummedUsage
<1>3. total \in Count
  BY <1>1, <1>2 DEF Count
<1> HIDE DEF total
<1>4. /\ SummedUsage(u) \in Usage
      /\ SummedUsage(u).cached = u.cached /\ SummedUsage(u).created = u.created
      /\ SummedUsage(u).input = total
  BY <1>2, <1>3 DEF Usage
<1>5. u.cached + u.created <= total
  BY <1>1 DEF total
<1> QED
  BY <1>4, <1>5 DEF Sane

LEMMA ReadableItems ==
    ASSUME NEW v \in Response, Readable(v.items)
    PROVE  v.items \in Seq(ItemRow)
<1> DEFINE row == [kind: STRING, pieces: Seq(STRING)]
<1>1. PICK items \in Seq(row) : items = v.items
  BY DEF Response
<1> HIDE DEF row
<1>2. Len(items) \in Nat /\ items \in [1..Len(items) -> row]
  OBVIOUS
<1>3. ASSUME NEW n \in 1..Len(items) PROVE items[n] \in ItemRow
  <2>1. items[n] \in row /\ items[n].kind \in {"text", "refusal", "tool"}
    BY <1>1, <1>2 DEF Readable
  <2> QED
    BY <2>1 DEF ItemRow, row
<1>4. items \in [1..Len(items) -> ItemRow]
  BY <1>2, <1>3
<1>5. items \in Seq(ItemRow)
  BY <1>2, <1>4
<1> QED
  BY <1>1, <1>5

\* What an OpenAI response is read as is what it holds.
LEMMA OpenAiIsRead ==
    ASSUME NEW v \in Response, NEW a, a = ParseOpenAiValue(v), a # None
    PROVE  /\ a \in AnswerRow /\ Sane(a.usage)
           /\ a.items = v.items /\ a.usage.input + a.output = v.total
<1>1. /\ CheckedUsage(v) # None
      /\ a = [model |-> v.model, items |-> v.items, terminal |-> OpenAiTerminal(v.items),
              usage |-> CheckedUsage(v), output |-> v.output]
  BY DEF ParseOpenAiValue
<1>2. /\ CheckedUsage(v) = v.usage
      /\ v.usage.input + v.output = v.total
      /\ ~(v.usage.cached + v.usage.created > v.usage.input)
  BY <1>1 DEF CheckedUsage
<1>3. v.usage \in Usage /\ v.output \in Count /\ v.model \in STRING
  BY DEF Response
<1>4. Sane(v.usage)
  BY <1>2, <1>3, StreamAssumption DEF Sane, Usage, Count
<1>5. OpenAiTerminal(v.items) \in TerminalState
  BY Zenon DEF OpenAiTerminal, TerminalState
<1>6. a.usage = v.usage /\ a.output = v.output /\ a.items = v.items
  BY <1>1, <1>2
<1>7. v.items \in Seq(ItemRow)
  BY <1>1, ReadableItems DEF ParseOpenAiValue
<1>8. a \in AnswerRow
  BY <1>1, <1>2, <1>3, <1>5, <1>7 DEF AnswerRow
<1> QED
  BY <1>2, <1>4, <1>6, <1>8

LEMMA TerminalIsNamed == \A s \in DOMAIN Terminal : Terminal[s] \in TerminalState
<1>1. DOMAIN Terminal = {"end_turn", "stop_sequence", "tool_use", "refusal", "max_tokens",
                         "pause_turn"}
  BY DEF Terminal
<1>2. /\ Terminal["end_turn"] = "completed" /\ Terminal["stop_sequence"] = "completed"
      /\ Terminal["tool_use"] = "tool_use" /\ Terminal["refusal"] = "refused"
      /\ Terminal["max_tokens"] = "truncated" /\ Terminal["pause_turn"] = "paused"
  BY DEF Terminal
<1> QED
  BY <1>1, <1>2 DEF TerminalState

LEMMA AnthropicIsRead ==
    ASSUME NEW v \in Response, NEW a, a = ParseAnthropicValue(v), a # None
    PROVE  a \in AnswerRow /\ Sane(a.usage)
<1>1. /\ SummedUsage(v.usage) # None /\ v.status \in DOMAIN Terminal
      /\ a = [model |-> v.model, items |-> v.items, terminal |-> Terminal[v.status],
              usage |-> SummedUsage(v.usage), output |-> v.output]
      /\ Readable(v.items)
  BY DEF ParseAnthropicValue
<1>2. v.usage \in Usage /\ v.output \in Count /\ v.items \in Seq(ItemRow) /\ v.model \in STRING
  BY <1>1, ReadableItems DEF Response
<1>3. Sane(SummedUsage(v.usage)) /\ SummedUsage(v.usage) \in Usage
  BY <1>1, <1>2, SummedUsageIsSane DEF Sane
<1>4. Terminal[v.status] \in TerminalState
  BY <1>1, TerminalIsNamed
<1>5. a.usage = SummedUsage(v.usage)
  BY <1>1
<1>6. a \in AnswerRow
  BY <1>1, <1>2, <1>3, <1>4 DEF AnswerRow
<1> QED
  BY <1>3, <1>5, <1>6

LEMMA NothingIsTyped == Nothing \in ParserRow /\ Nothing.finish = None /\ Nothing.start = None
BY DEF Nothing, ParserRow

LEMMA BlocksAreNumbered ==
    ASSUME NEW p \in ParserRow
    PROVE  Blocks(p) \in SUBSET Nat /\ IsFiniteSet(Blocks(p))
<1>1. Blocks(p) \in SUBSET Index
  BY DEF Blocks
<1> QED
  BY <1>1, StreamAssumption, FS_Subset

\* A message that is assembled: all of it was there, its items by their ranks.
LEMMA AssembledIsComplete ==
    ASSUME NEW p \in ParserRow, NEW a, a = Assembled(p), a # None
    PROVE  /\ Complete(p)
           /\ a.usage = p.start.usage /\ a.output = p.finish.output
           /\ a.model = p.start.model /\ a.terminal = Terminal[p.finish.status]
           /\ DOMAIN a = {"model", "items", "terminal", "usage", "output"}
           /\ a.items = [n \in 1..Cardinality(Blocks(p)) |->
                            LET i == Nth(n, Blocks(p)) IN
                            Item(p.block[i].kind, p.block[i].pieces)]
           /\ \A n \in DOMAIN a.items :
                a.items[n].kind = "tool" => WholeInput(a.items[n].pieces)
<1> DEFINE items == [n \in 1..Cardinality(Blocks(p)) |->
                        LET i == Nth(n, Blocks(p)) IN
                        Item(p.block[i].kind, p.block[i].pieces)]
<1>1. Assembled(p) =
        IF Complete(p) /\ \A n \in DOMAIN items :
                                items[n].kind = "tool" => WholeInput(items[n].pieces)
        THEN [model |-> p.start.model, items |-> items,
              terminal |-> Terminal[p.finish.status],
              usage |-> p.start.usage, output |-> p.finish.output]
        ELSE None
  BY Zenon DEF Assembled
<1> HIDE DEF items
<1>2. /\ Complete(p)
      /\ \A n \in DOMAIN items : items[n].kind = "tool" => WholeInput(items[n].pieces)
      /\ a = [model |-> p.start.model, items |-> items,
              terminal |-> Terminal[p.finish.status],
              usage |-> p.start.usage, output |-> p.finish.output]
  BY <1>1
<1>3. /\ a.items = items /\ a.usage = p.start.usage /\ a.output = p.finish.output
      /\ a.model = p.start.model /\ a.terminal = Terminal[p.finish.status]
      /\ DOMAIN a = {"model", "items", "terminal", "usage", "output"}
  BY <1>2
<1> QED
  BY <1>2, <1>3 DEF items

LEMMA BlockRowIsItem ==
    ASSUME NEW b \in BlockRow
    PROVE  Item(b.kind, b.pieces) \in ItemRow
<1>1. b.kind \in {"text", "refusal", "tool"} /\ b.pieces \in Seq(STRING)
  BY DEF BlockRow
<1> QED
  BY <1>1 DEF ItemRow, Item

\* What the parser of an Anthropic stream has assembled is an answer.
LEMMA AssembledIsTyped ==
    ASSUME NEW p \in ParserRow, p.finish \in FinishRow \cup {None},
           p.start # None,
           NEW a, a = Assembled(p), a # None
    PROVE  a \in AnswerRow
<1> DEFINE S == Blocks(p)
<1>1. Complete(p) /\ S \in SUBSET Nat /\ IsFiniteSet(S) /\ Cardinality(S) \in Nat
  BY AssembledIsComplete, BlocksAreNumbered, FS_CardinalityType
<1>2. p.finish \in FinishRow /\ p.start \in StartRow /\ p.finish.status \in DOMAIN Terminal
  BY <1>1 DEF Complete, ParserRow, FinishRow
<1>3. a.items = [n \in 1..Cardinality(S) |->
                    LET i == Nth(n, S) IN Item(p.block[i].kind, p.block[i].pieces)]
  BY AssembledIsComplete
<1>4. ASSUME NEW n \in 1..Cardinality(S) PROVE a.items[n] \in ItemRow
  <2>1. PICK i : i = Nth(n, S) /\ i \in S
    <3> HIDE DEF S
    <3> QED
      BY <1>1, NthIn
  <2>2. p.block[i] \in BlockRow
    BY <2>1 DEF Blocks, ParserRow
  <2>3. a.items[n] = Item(p.block[i].kind, p.block[i].pieces)
    BY <1>3, <2>1
  <2> QED
    BY <2>2, <2>3, BlockRowIsItem
<1>5. a.items \in Seq(ItemRow)
  <2>1. a.items \in [1..Cardinality(S) -> ItemRow]
    BY <1>3, <1>4
  <2> QED
    BY <1>1, <2>1
<1>6. /\ a.usage \in Usage /\ a.output \in Count /\ a.model \in STRING
      /\ a.terminal \in TerminalState
  BY <1>2, AssembledIsComplete, TerminalIsNamed DEF StartRow, FinishRow
<1>7. a = [model |-> a.model, items |-> a.items, terminal |-> a.terminal,
           usage |-> a.usage, output |-> a.output]
  BY DEF Assembled
<1> HIDE DEF S
<1> QED
  BY <1>5, <1>6, <1>7 DEF AnswerRow

-----------------------------------------------------------------------------
(* What each event of an Anthropic stream does to the parser. *)

LEMMA MessageIsStarted ==
    ASSUME NEW p \in ParserRow, NEW e \in Event, NEW q, q = AfterAnthropic(p, e),
           e.type = "message_start", MessageStart(p, e)
    PROVE  /\ q \in ParserRow
           /\ q.block = p.block /\ q.finish = p.finish /\ q.stopped = p.stopped
           /\ q.start # None /\ Sane(q.start.usage)
<1> DEFINE row == [model |-> e.model, usage |-> SummedUsage(e.usage)]
<1>1. Sane(SummedUsage(e.usage)) /\ e.model \in STRING
  BY ExchangeAssumption, SummedUsageIsSane DEF MessageStart, Carries
<1>2. row \in StartRow /\ row.usage = SummedUsage(e.usage)
  BY <1>1 DEF StartRow, Sane
<1>3. row # None
  BY <1>2, StreamAssumption
<1>4. q = [p EXCEPT !.start = row]
  BY DEF AfterAnthropic
<1> HIDE DEF row
<1>5. /\ q \in ParserRow
      /\ q.start = row /\ q.block = p.block /\ q.finish = p.finish /\ q.stopped = p.stopped
  BY <1>2, <1>4 DEF ParserRow
<1> QED
  BY <1>1, <1>2, <1>3, <1>5

LEMMA MessageIsEnding ==
    ASSUME NEW p \in ParserRow, NEW e \in Event, NEW q, q = AfterAnthropic(p, e),
           e.type = "message_delta", MessageDelta(p, e)
    PROVE  /\ q \in ParserRow /\ q.finish \in FinishRow /\ q.finish # None
           /\ q.start = p.start /\ q.block = p.block /\ q.stopped = p.stopped
<1> DEFINE row == [status |-> e.status, output |-> e.output]
<1>1. e.status \in DOMAIN Terminal /\ e.output \in Count
  BY ExchangeAssumption DEF MessageDelta, Carries
<1>2. row \in FinishRow /\ row # None
  BY <1>1, StreamAssumption DEF FinishRow
<1>3. q = [p EXCEPT !.finish = row]
  BY DEF AfterAnthropic
<1> HIDE DEF row
<1> QED
  BY <1>2, <1>3 DEF ParserRow

LEMMA MessageIsStopped ==
    ASSUME NEW p \in ParserRow, NEW e, NEW q, q = AfterAnthropic(p, e),
           e.type = "message_stop"
    PROVE  /\ q \in ParserRow /\ q.stopped
           /\ q.start = p.start /\ q.block = p.block /\ q.finish = p.finish
<1>1. q = [p EXCEPT !.stopped = TRUE]
  BY DEF AfterAnthropic
<1> QED
  BY <1>1 DEF ParserRow

\* Block i takes this row, and nothing else changes.
BlockBecomes(p, q, i, row) ==
    /\ q \in ParserRow
    /\ q.start = p.start /\ q.finish = p.finish /\ q.stopped = p.stopped
    /\ q.block[i] = row /\ row \in BlockRow
    /\ \A k \in Index \ {i} : q.block[k] = p.block[k]

LEMMA BlockChanges ==
    ASSUME NEW p \in ParserRow, NEW i \in Index, NEW row \in BlockRow, NEW q,
           q = [p EXCEPT !.block = [p.block EXCEPT ![i] = row]]
    PROVE  BlockBecomes(p, q, i, row)
<1>1. p.block \in [Index -> BlockRow \cup {None}]
  BY DEF ParserRow
<1>2. PICK block \in [Index -> BlockRow \cup {None}] : block = [p.block EXCEPT ![i] = row]
  BY <1>1
<1>3. block[i] = row /\ \A k \in Index \ {i} : block[k] = p.block[k]
  BY <1>1, <1>2
<1>4. q = [p EXCEPT !.block = block]
  BY <1>2
<1>5. /\ q \in ParserRow /\ q.block = block
      /\ q.start = p.start /\ q.finish = p.finish /\ q.stopped = p.stopped
  BY <1>4 DEF ParserRow
<1> QED
  BY <1>3, <1>5 DEF BlockBecomes

LEMMA BlockIsStarted ==
    ASSUME NEW p \in ParserRow, NEW e \in Event, NEW q, q = AfterAnthropic(p, e),
           e.type = "content_block_start", BlockStart(p, e)
    PROVE  BlockBecomes(p, q, e.index, [kind |-> e.kind, pieces |-> <<>>, stopped |-> FALSE])
<1>1. e.index \in Index /\ e.kind \in {"text", "tool"}
  BY ExchangeAssumption DEF BlockStart, Carries, IsBlockEvent
<1>2. <<>> \in Seq(STRING)
  OBVIOUS
<1>3. [kind |-> e.kind, pieces |-> <<>>, stopped |-> FALSE] \in BlockRow
  BY <1>1, <1>2 DEF BlockRow
<1>4. q = [p EXCEPT !.block[e.index] = [kind |-> e.kind, pieces |-> <<>>, stopped |-> FALSE]]
  BY DEF AfterAnthropic
<1> QED
  BY <1>1, <1>3, <1>4, BlockChanges

LEMMA BlockIsRead ==
    ASSUME NEW p \in ParserRow, NEW e \in Event, NEW q, q = AfterAnthropic(p, e),
           e.type = "content_block_delta", BlockDelta(p, e), NEW b, b = p.block[e.index]
    PROVE  BlockBecomes(p, q, e.index, [b EXCEPT !.pieces = Append(b.pieces, e.piece)])
<1>1. e.index \in Index /\ e.piece \in STRING
  BY ExchangeAssumption DEF Carries, IsBlockEvent
<1>2. b \in BlockRow
  BY <1>1 DEF BlockDelta, ParserRow
<1>3. [b EXCEPT !.pieces = Append(b.pieces, e.piece)] \in BlockRow
  <2>1. Append(b.pieces, e.piece) \in Seq(STRING)
    BY <1>1, <1>2 DEF BlockRow
  <2> QED
    BY <1>2, <2>1 DEF BlockRow
<1>4. q = [p EXCEPT !.block[e.index].pieces = Append(@, e.piece)]
  BY DEF AfterAnthropic
<1>5. q = [p EXCEPT !.block = [p.block EXCEPT ![e.index] =
                                [b EXCEPT !.pieces = Append(b.pieces, e.piece)]]]
  BY <1>4
<1> QED
  BY <1>1, <1>3, <1>5, BlockChanges

LEMMA BlockIsStopped ==
    ASSUME NEW p \in ParserRow, NEW e \in Event, NEW q, q = AfterAnthropic(p, e),
           e.type = "content_block_stop", BlockStop(p, e), NEW b, b = p.block[e.index]
    PROVE  BlockBecomes(p, q, e.index, [b EXCEPT !.stopped = TRUE])
<1>1. e.index \in Index
  BY ExchangeAssumption DEF Carries, IsBlockEvent
<1>2. b \in BlockRow
  BY <1>1 DEF BlockStop, ParserRow
<1>3. [b EXCEPT !.stopped = TRUE] \in BlockRow
  BY <1>2 DEF BlockRow
<1>4. q = [p EXCEPT !.block[e.index].stopped = TRUE]
  BY DEF AfterAnthropic
<1>5. q = [p EXCEPT !.block = [p.block EXCEPT ![e.index] = [b EXCEPT !.stopped = TRUE]]]
  BY <1>4
<1> QED
  BY <1>1, <1>3, <1>5, BlockChanges

LEMMA NothingIsRead ==
    ASSUME NEW p, NEW e, e.type \in {"done", "other"}
    PROVE  AfterAnthropic(p, e) = p
BY DEF AfterAnthropic

-----------------------------------------------------------------------------
(* The parser of an Anthropic stream follows the events: what it keeps says *)
(* which of them came, and in which order.                                  *)

AnthropicEvent == {"done", "other", "message_start", "content_block_start",
                   "content_block_delta", "content_block_stop", "message_delta",
                   "message_stop"}

Alone(S) == \A m, n \in S : m = n

MessageFollowed ==
    /\ \A n \in DOMAIN body : body[n].type \in AnthropicEvent
    /\ parser.start # None <=> At("message_start") # {}
    /\ parser.start # None => Sane(parser.start.usage)
    /\ parser.finish # None <=> At("message_delta") # {}
    /\ parser.stopped <=> At("message_stop") # {}
    /\ Alone(At("message_start")) /\ Alone(At("message_delta"))
    /\ \A n \in At("message_delta") : \E f \in At("message_start") : f < n
    /\ \A n \in At("message_stop") : \A k \in DOMAIN body : k > n => body[k].type = "done"

BlockBegun(i) ==
    \E s \in Told(i), f \in At("message_start") :
        /\ AtBlock("content_block_start", i) = {s} /\ f < s
        /\ \A n \in Told(i) : s <= n

BlockEnded(i) ==
    \E t \in Told(i) : /\ AtBlock("content_block_stop", i) = {t}
                       /\ \A n \in Told(i) : n <= t

BlockFollowed(i) ==
    LET b == parser.block[i] IN
    /\ b = None <=> Told(i) = {}
    /\ b # None =>
        /\ BlockBegun(i)
        /\ b.stopped => BlockEnded(i)
        /\ ~b.stopped => AtBlock("content_block_stop", i) = {}
        /\ IsSaid(b.pieces, i)

Followed == MessageFollowed /\ \A i \in Index : BlockFollowed(i)

\* Event e is received, as the m-th.
Grows(e, m) ==
    /\ DOMAIN body \in SUBSET Nat /\ IsFiniteSet(DOMAIN body)
    /\ m \in Nat /\ DOMAIN body' = DOMAIN body \cup {m}
    /\ body'[m] = e
    /\ \A n \in DOMAIN body : body'[n] = body[n] /\ n < m

LEMMA ReceivedGrows ==
    ASSUME ExchangeTypeOK, NEW e \in Event, body' = Append(body, e)
    PROVE  \E m \in Nat : Grows(e, m)
<1> DEFINE sent == Event \cup {WholeValue(v) : v \in Value}
<1>1. body \in Seq(sent) /\ e \in sent
  BY DEF ExchangeTypeOK
<1> HIDE DEF sent
<1>2. /\ Len(body) \in Nat /\ DOMAIN body = 1..Len(body)
      /\ DOMAIN body' = 1..(Len(body) + 1) /\ body'[Len(body) + 1] = e
      /\ \A n \in 1..Len(body) : body'[n] = body[n]
  BY <1>1
<1>3. IsFiniteSet(1..Len(body))
  BY <1>2, FS_Interval
<1>4. Len(body) + 1 \in Nat /\ 1..(Len(body) + 1) = 1..Len(body) \cup {Len(body) + 1}
  BY <1>2
<1> QED
  BY <1>2, <1>3, <1>4 DEF Grows

LEMMA AtGrows ==
    ASSUME NEW e, NEW m, Grows(e, m), NEW type
    PROVE  /\ e.type = type => At(type)' = At(type) \cup {m}
           /\ e.type # type => At(type)' = At(type)
<1>1. m \notin DOMAIN body
  BY DEF Grows
<1> QED
  BY <1>1 DEF Grows, At

LEMMA ToldGrows ==
    ASSUME NEW e, NEW m, Grows(e, m), NEW i
    PROVE  /\ IsBlockEvent(e) /\ e.index = i => Told(i)' = Told(i) \cup {m}
           /\ ~(IsBlockEvent(e) /\ e.index = i) => Told(i)' = Told(i)
<1>1. m \notin DOMAIN body
  BY DEF Grows
<1> QED
  BY <1>1 DEF Grows, Told, IsBlockEvent

LEMMA AtBlockGrows ==
    ASSUME NEW e, NEW m, Grows(e, m), NEW i, NEW type
    PROVE  /\ e.type = type /\ e.index = i => AtBlock(type, i)' = AtBlock(type, i) \cup {m}
           /\ ~(e.type = type /\ e.index = i) => AtBlock(type, i)' = AtBlock(type, i)
<1>1. m \notin DOMAIN body
  BY DEF Grows
<1> QED
  BY <1>1 DEF Grows, AtBlock, At

LEMMA AtBlockIsTold ==
    ASSUME NEW i, NEW type \in {"content_block_start", "content_block_delta",
                                "content_block_stop"}
    PROVE  AtBlock(type, i) \subseteq Told(i) /\ Told(i) \subseteq DOMAIN body
BY DEF AtBlock, At, Told, IsBlockEvent

\* What is received changes the message as the parser's state says.
LEMMA MessageFollows ==
    ASSUME ExchangeTypeOK, MessageFollowed, NEW e \in Event, NEW m, Grows(e, m),
           AnthropicTakes(parser, e), parser' = AfterAnthropic(parser, e)
    PROVE  MessageFollowed'
<1> DEFINE first == At("message_start")
           end == At("message_delta")
           last == At("message_stop")
<1>1. parser \in ParserRow
  BY DEF ExchangeTypeOK
<1>2. e.type \in AnthropicEvent
  BY DEF AnthropicTakes, AnthropicEvent
<1>3. \A n \in DOMAIN body' : body'[n].type \in AnthropicEvent
  BY <1>2 DEF Grows, MessageFollowed
<1>4. e.type = "done" \/ last = {}
  BY DEF AnthropicTakes, MessageFollowed
<1>5. /\ DOMAIN body' = DOMAIN body \cup {m} /\ body'[m] = e
      /\ \A n \in DOMAIN body : body'[n] = body[n] /\ n < m
      /\ first \subseteq DOMAIN body /\ end \subseteq DOMAIN body
      /\ last \subseteq DOMAIN body
      /\ m \in Nat /\ DOMAIN body \subseteq Nat
  BY DEF Grows, At
<1>6. \A n \in last : \A k \in DOMAIN body' : k > n => body'[k].type = "done"
  BY <1>4, <1>5 DEF MessageFollowed
<1>7. CASE e.type = "message_start"
  <2>1. first' = first \cup {m} /\ end' = end /\ last' = last
    BY <1>7, AtGrows
  <2>2. MessageStart(parser, e)
    BY <1>7 DEF AnthropicTakes
  <2>3. first = {} /\ end = {} /\ last = {}
    BY <1>4, <1>7, <2>2 DEF MessageStart, Began, MessageFollowed
  <2>4. /\ parser'.start # None /\ Sane(parser'.start.usage)
        /\ parser'.finish = parser.finish /\ parser'.stopped = parser.stopped
    BY <1>1, <1>7, <2>2, MessageIsStarted
  <2> HIDE DEF first, end, last
  <2>5. Alone(first') /\ Alone(end')
    BY <2>1, <2>3 DEF Alone
  <2> QED
    BY <1>3, <2>1, <2>3, <2>4, <2>5 DEF MessageFollowed, first, end, last
<1>8. CASE e.type = "message_delta"
  <2>1. first' = first /\ end' = end \cup {m} /\ last' = last
    BY <1>8, AtGrows
  <2>2. MessageDelta(parser, e)
    BY <1>8 DEF AnthropicTakes
  <2>3. first # {} /\ end = {} /\ last = {}
    BY <1>4, <1>8, <2>2 DEF MessageDelta, Began, MessageFollowed
  <2>4. /\ parser'.finish # None
        /\ parser'.start = parser.start /\ parser'.stopped = parser.stopped
    BY <1>1, <1>8, <2>2, MessageIsEnding
  <2>5. \E f \in first : f < m
    BY <1>5, <2>3
  <2> HIDE DEF first, end, last
  <2>6. Alone(end')
    BY <2>1, <2>3 DEF Alone
  <2> QED
    BY <1>3, <2>1, <2>3, <2>4, <2>5, <2>6 DEF MessageFollowed, first, end, last
<1>9. CASE e.type = "message_stop"
  <2>1. first' = first /\ end' = end /\ last' = last \cup {m}
    BY <1>9, AtGrows
  <2>2. /\ parser'.stopped
        /\ parser'.start = parser.start /\ parser'.finish = parser.finish
    BY <1>1, <1>9, MessageIsStopped
  <2>3. last = {}
    BY <1>4, <1>9
  <2>4. \A k \in DOMAIN body' : ~(k > m)
    BY <1>5
  <2> HIDE DEF first, end, last
  <2> QED
    BY <1>3, <2>1, <2>2, <2>3, <2>4 DEF MessageFollowed, first, end, last
<1>10. CASE e.type \notin {"message_start", "message_delta", "message_stop"}
  <2>1. first' = first /\ end' = end /\ last' = last
    BY <1>10, AtGrows
  <2>2. /\ parser'.start = parser.start /\ parser'.finish = parser.finish
        /\ parser'.stopped = parser.stopped
    <3>1. CASE e.type = "content_block_start"
      BY <1>1, <3>1, BlockIsStarted DEF AnthropicTakes, BlockBecomes
    <3>2. CASE e.type = "content_block_delta"
      <4>1. BlockDelta(parser, e)
        BY <3>2 DEF AnthropicTakes
      <4>2. PICK b : b = parser.block[e.index]
        OBVIOUS
      <4>3. BlockBecomes(parser, parser', e.index,
                         [b EXCEPT !.pieces = Append(b.pieces, e.piece)])
        BY <1>1, <3>2, <4>1, <4>2, BlockIsRead
      <4> QED
        BY <4>3 DEF BlockBecomes
    <3>3. CASE e.type = "content_block_stop"
      <4>1. BlockStop(parser, e)
        BY <3>3 DEF AnthropicTakes
      <4>2. PICK b : b = parser.block[e.index]
        OBVIOUS
      <4>3. BlockBecomes(parser, parser', e.index, [b EXCEPT !.stopped = TRUE])
        BY <1>1, <3>3, <4>1, <4>2, BlockIsStopped
      <4> QED
        BY <4>3 DEF BlockBecomes
    <3>4. CASE e.type \in {"done", "other"}
      BY <3>4, NothingIsRead
    <3> QED
      BY <1>2, <1>10, <3>1, <3>2, <3>3, <3>4 DEF AnthropicEvent
  <2> HIDE DEF first, end, last
  <2> QED
    BY <1>3, <1>6, <2>1, <2>2 DEF MessageFollowed, first, end, last
<1> QED
  BY <1>7, <1>8, <1>9, <1>10

\* Pieces that were said stay said.
LEMMA SaidStays ==
    ASSUME NEW e, NEW m, Grows(e, m), NEW i, NEW pieces, IsSaid(pieces, i),
           ~(e.type = "content_block_delta" /\ e.index = i)
    PROVE  IsSaid(pieces, i)'
<1> DEFINE said == AtBlock("content_block_delta", i)
<1>1. said' = said
  BY AtBlockGrows
<1>2. said \subseteq DOMAIN body
  BY AtBlockIsTold
<1>3. \A n \in said : body'[n] = body[n]
  BY <1>2 DEF Grows
<1> HIDE DEF said
<1> QED
  BY <1>1, <1>3 DEF IsSaid, said

\* What a block says next is its next piece.
LEMMA SaidNext ==
    ASSUME NEW e, NEW m, Grows(e, m), NEW i, NEW pieces \in Seq(STRING), IsSaid(pieces, i),
           e.type = "content_block_delta", e.index = i, e.piece \in STRING
    PROVE  IsSaid(Append(pieces, e.piece), i)'
<1> DEFINE said == AtBlock("content_block_delta", i)
<1>1. said' = said \cup {m}
  BY AtBlockGrows
<1>2. said \subseteq DOMAIN body
  BY AtBlockIsTold
<1>3. /\ said \in SUBSET Nat /\ m \in Nat /\ \A n \in said : n < m /\ body'[n] = body[n]
      /\ body'[m] = e /\ IsFiniteSet(DOMAIN body)
  BY <1>2 DEF Grows
<1>4. IsFiniteSet(said)
  BY <1>2, <1>3, FS_Subset
<1> HIDE DEF said
<1>5. Cardinality(said) \in Nat
  BY <1>4, FS_CardinalityType
<1>6. /\ \A n \in said : Rank(n, said \cup {m}) = Rank(n, said)
      /\ Rank(m, said \cup {m}) = Cardinality(said) + 1
      /\ Cardinality(said \cup {m}) = Cardinality(said) + 1
  BY <1>3, <1>4, RankAbove
<1>7. \A n \in said : Rank(n, said) \in 1..Cardinality(said)
  BY <1>3, <1>4, RankIn
<1>8. Len(pieces) = Cardinality(said) /\ \A n \in said : pieces[Rank(n, said)] = body[n].piece
  BY DEF IsSaid, said
<1>9. PICK more \in Seq(STRING) : more = Append(pieces, e.piece)
  <2>1. PICK piece \in STRING : piece = e.piece
    OBVIOUS
  <2>2. Append(pieces, piece) \in Seq(STRING)
    OBVIOUS
  <2> QED
    BY <2>1, <2>2
<1>10. /\ Len(more) = Cardinality(said) + 1
       /\ more[Cardinality(said) + 1] = e.piece
       /\ \A k \in 1..Cardinality(said) : more[k] = pieces[k]
  BY <1>5, <1>8, <1>9
<1>11. ASSUME NEW n \in said \cup {m}
       PROVE  more[Rank(n, said \cup {m})] = body'[n].piece
  <2>1. CASE n = m
    BY <1>3, <1>6, <1>10, <2>1
  <2>2. CASE n \in said
    BY <1>3, <1>6, <1>7, <1>8, <1>10, <2>2
  <2> QED
    BY <2>1, <2>2
<1> QED
  BY <1>1, <1>6, <1>9, <1>10, <1>11 DEF IsSaid, said

\* A block that an event is not about is as it was.
LEMMA OtherBlockStays ==
    ASSUME parser \in ParserRow, NEW e \in Event, AnthropicTakes(parser, e),
           parser' = AfterAnthropic(parser, e),
           NEW i \in Index, ~(IsBlockEvent(e) /\ e.index = i)
    PROVE  parser'.block[i] = parser.block[i]
<1>1. e.type \in AnthropicEvent
  BY DEF AnthropicTakes, AnthropicEvent
<1>2. CASE e.type = "message_start"
  BY <1>2, MessageIsStarted DEF AnthropicTakes
<1>3. CASE e.type = "message_delta"
  BY <1>3, MessageIsEnding DEF AnthropicTakes
<1>4. CASE e.type = "message_stop"
  BY <1>4, MessageIsStopped
<1>5. CASE e.type \in {"done", "other"}
  BY <1>5, NothingIsRead
<1>6. CASE IsBlockEvent(e)
  <2>1. i \in Index \ {e.index}
    BY <1>6
  <2>2. CASE e.type = "content_block_start"
    <3>1. BlockStart(parser, e)
      BY <2>2 DEF AnthropicTakes
    <3>2. PICK row : row = [kind |-> e.kind, pieces |-> <<>>, stopped |-> FALSE]
      OBVIOUS
    <3>3. BlockBecomes(parser, parser', e.index, row)
      BY <2>2, <3>1, <3>2, BlockIsStarted
    <3> QED
      BY <2>1, <3>3 DEF BlockBecomes
  <2>3. CASE e.type = "content_block_delta"
    <3>1. BlockDelta(parser, e)
      BY <2>3 DEF AnthropicTakes
    <3>2. PICK b : b = parser.block[e.index]
      OBVIOUS
    <3>3. BlockBecomes(parser, parser', e.index,
                       [b EXCEPT !.pieces = Append(b.pieces, e.piece)])
      BY <2>3, <3>1, <3>2, BlockIsRead
    <3> QED
      BY <2>1, <3>3 DEF BlockBecomes
  <2>4. CASE e.type = "content_block_stop"
    <3>1. BlockStop(parser, e)
      BY <2>4 DEF AnthropicTakes
    <3>2. PICK b : b = parser.block[e.index]
      OBVIOUS
    <3>3. BlockBecomes(parser, parser', e.index, [b EXCEPT !.stopped = TRUE])
      BY <2>4, <3>1, <3>2, BlockIsStopped
    <3> QED
      BY <2>1, <3>3 DEF BlockBecomes
  <2> QED
    BY <1>6, <2>2, <2>3, <2>4 DEF IsBlockEvent
<1> QED
  BY <1>1, <1>2, <1>3, <1>4, <1>5, <1>6 DEF AnthropicEvent, IsBlockEvent

\* A block that was begun stays so, by an event that is not its start.
LEMMA BegunStays ==
    ASSUME NEW e, NEW m, Grows(e, m), NEW i, BlockBegun(i),
           ~(e.type = "content_block_start" /\ e.index = i)
    PROVE  BlockBegun(i)'
<1> DEFINE start == AtBlock("content_block_start", i)
<1>1. PICK s \in Told(i), f \in At("message_start") :
        start = {s} /\ f < s /\ \A n \in Told(i) : s <= n
  BY DEF BlockBegun
<1>2. start' = start
  BY AtBlockGrows
<1>3. f \in At("message_start")'
  BY AtGrows
<1>4. s < m /\ s \in Nat /\ m \in Nat
  BY DEF Grows, Told
<1>5. Told(i)' = Told(i) \/ Told(i)' = Told(i) \cup {m}
  BY ToldGrows
<1>6. s \in Told(i)' /\ \A n \in Told(i)' : s <= n
  <2>1. s \in Told(i) /\ \A n \in Told(i) : s <= n
    BY <1>1
  <2>2. s <= m
    BY <1>4
  <2> QED
    BY <1>5, <2>1, <2>2
<1> HIDE DEF start
<1> QED
  BY <1>1, <1>2, <1>3, <1>6 DEF BlockBegun, start

LEMMA BlockFollows ==
    ASSUME ExchangeTypeOK, Followed, NEW e \in Event, NEW m, Grows(e, m),
           AnthropicTakes(parser, e), parser' = AfterAnthropic(parser, e),
           NEW i \in Index
    PROVE  BlockFollowed(i)'
<1> DEFINE start == AtBlock("content_block_start", i)
           stop == AtBlock("content_block_stop", i)
           said == AtBlock("content_block_delta", i)
<1>1. parser \in ParserRow
  BY DEF ExchangeTypeOK
<1>2. PICK b : b = parser.block[i] /\ b \in BlockRow \cup {None}
  BY <1>1 DEF ParserRow
<1>3. /\ b = None <=> Told(i) = {}
      /\ b # None => BlockBegun(i) /\ IsSaid(b.pieces, i)
      /\ b # None /\ b.stopped => BlockEnded(i)
      /\ b # None /\ ~b.stopped => stop = {}
  <2>1. BlockFollowed(i)
    BY DEF Followed
  <2> HIDE DEF start, stop, said
  <2> QED
    BY <1>2, <2>1 DEF BlockFollowed, stop
<1>4. start \subseteq Told(i) /\ stop \subseteq Told(i) /\ said \subseteq Told(i)
      /\ Told(i) \subseteq DOMAIN body
  BY AtBlockIsTold
<1>5. m \in Nat /\ \A n \in DOMAIN body : n < m /\ n \in Nat
  BY DEF Grows
<1>6. CASE ~(IsBlockEvent(e) /\ e.index = i)
  <2>1. parser'.block[i] = b
    BY <1>1, <1>2, <1>6, OtherBlockStays
  <2>2. Told(i)' = Told(i) /\ stop' = stop
    BY <1>6, ToldGrows, AtBlockGrows DEF IsBlockEvent
  <2>3. b # None => BlockBegun(i)' /\ IsSaid(b.pieces, i)'
    BY <1>3, <1>6, BegunStays, SaidStays DEF IsBlockEvent
  <2> HIDE DEF start, stop, said
  <2>4. BlockEnded(i) => BlockEnded(i)'
    BY <2>2 DEF BlockEnded, stop
  <2> QED
    BY <1>3, <2>1, <2>2, <2>3, <2>4 DEF BlockFollowed, stop
<1>7. CASE e.type = "content_block_start" /\ e.index = i
  <2>1. BlockStart(parser, e)
    BY <1>7 DEF AnthropicTakes
  <2>2. PICK row : row = [kind |-> e.kind, pieces |-> <<>>, stopped |-> FALSE]
    OBVIOUS
  <2>3. BlockBecomes(parser, parser', i, row)
    <3>1. BlockBecomes(parser, parser', e.index, row)
      BY <1>1, <1>7, <2>1, <2>2, BlockIsStarted
    <3> QED
      BY <1>7, <3>1
  <2>4. parser'.block[i] = row /\ row # None /\ ~row.stopped /\ row.pieces = <<>>
    <3>1. parser'.block[i] = row /\ row \in BlockRow
      BY <2>3 DEF BlockBecomes
    <3>2. row # None
      BY <3>1, StreamAssumption
    <3> QED
      BY <2>2, <3>1, <3>2
  <2>5. b = None /\ Told(i) = {}
    BY <1>2, <1>3, <1>7, <2>1 DEF BlockStart
  <2>6. Told(i)' = {m} /\ start' = {m} /\ stop' = {} /\ said' = {}
    <3>1. start = {} /\ stop = {} /\ said = {}
      BY <1>4, <2>5
    <3>2. /\ Told(i)' = Told(i) \cup {m}
          /\ start' = start \cup {m} /\ stop' = stop /\ said' = said
      BY <1>7, ToldGrows, AtBlockGrows DEF IsBlockEvent
    <3> HIDE DEF start, stop, said
    <3> QED
      BY <2>5, <3>1, <3>2
  <2>7. PICK f \in At("message_start") : f < m
    <3>1. At("message_start") # {}
      BY <2>1 DEF BlockStart, Began, Followed, MessageFollowed
    <3> QED
      BY <1>5, <3>1 DEF At
  <2>8. f \in At("message_start")'
    BY AtGrows
  <2> HIDE DEF start, stop, said
  <2>9. BlockBegun(i)'
    BY <1>5, <2>6, <2>7, <2>8 DEF BlockBegun, start
  <2>10. IsSaid(<<>>, i)'
    <3>1. Cardinality(said') = 0 /\ Len(<<>>) = 0
      BY <2>6, FS_EmptySet
    <3> QED
      BY <2>6, <3>1 DEF IsSaid, said
  <2> QED
    BY <2>4, <2>6, <2>9, <2>10 DEF BlockFollowed, stop
<1>8. CASE e.type = "content_block_delta" /\ e.index = i
  <2>1. BlockDelta(parser, e)
    BY <1>8 DEF AnthropicTakes
  <2>2. PICK row : row = [b EXCEPT !.pieces = Append(b.pieces, e.piece)]
    OBVIOUS
  <2>3. BlockBecomes(parser, parser', i, row)
    <3>1. BlockBecomes(parser, parser', e.index, row)
      BY <1>1, <1>2, <1>8, <2>1, <2>2, BlockIsRead
    <3> QED
      BY <1>8, <3>1
  <2>4. b # None /\ b \in BlockRow /\ ~b.stopped
    <3>1. parser.block[e.index] = b
      BY <1>2, <1>8
    <3>2. b # None /\ Fits(b, e)
      BY <2>1, <3>1 DEF BlockDelta
    <3>3. ~b.stopped
      BY <3>2, Zenon DEF Fits
    <3> QED
      BY <1>2, <3>2, <3>3
  <2>5. /\ parser'.block[i] = row /\ row # None /\ ~row.stopped
        /\ row.pieces = Append(b.pieces, e.piece)
    <3>1. parser'.block[i] = row /\ row \in BlockRow
      BY <2>3 DEF BlockBecomes
    <3>2. row # None
      BY <3>1, StreamAssumption
    <3> QED
      BY <2>2, <2>4, <3>1, <3>2 DEF BlockRow
  <2>6. Told(i)' = Told(i) \cup {m} /\ stop' = stop
    BY <1>8, ToldGrows, AtBlockGrows DEF IsBlockEvent
  <2>7. BlockBegun(i)'
    BY <1>3, <1>8, <2>4, BegunStays
  <2>8. e.piece \in STRING /\ b.pieces \in Seq(STRING)
    BY <1>8, <2>4, ExchangeAssumption DEF Carries, BlockRow
  <2>9. IsSaid(row.pieces, i)'
    BY <1>3, <1>8, <2>4, <2>5, <2>8, SaidNext
  <2> HIDE DEF start, stop, said
  <2> QED
    BY <1>3, <2>4, <2>5, <2>6, <2>7, <2>9 DEF BlockFollowed, stop
<1>9. CASE e.type = "content_block_stop" /\ e.index = i
  <2>1. BlockStop(parser, e)
    BY <1>9 DEF AnthropicTakes
  <2>2. PICK row : row = [b EXCEPT !.stopped = TRUE]
    OBVIOUS
  <2>3. BlockBecomes(parser, parser', i, row)
    BY <1>1, <1>2, <1>9, <2>1, <2>2, BlockIsStopped
  <2>4. b # None /\ b \in BlockRow /\ ~b.stopped
    BY <1>2, <1>9, <2>1 DEF BlockStop
  <2>5. /\ parser'.block[i] = row /\ row # None /\ row.stopped
        /\ row.pieces = b.pieces
    <3>1. parser'.block[i] = row /\ row \in BlockRow
      BY <2>3 DEF BlockBecomes
    <3>2. row # None
      BY <3>1, StreamAssumption
    <3> QED
      BY <2>2, <2>4, <3>1, <3>2 DEF BlockRow
  <2>6. Told(i)' = Told(i) \cup {m} /\ stop' = stop \cup {m}
    BY <1>9, ToldGrows, AtBlockGrows DEF IsBlockEvent
  <2>7. BlockBegun(i)'
    BY <1>3, <1>9, <2>4, BegunStays
  <2>8. IsSaid(row.pieces, i)'
    BY <1>3, <1>9, <2>4, <2>5, SaidStays
  <2>9. stop = {}
    BY <1>3, <2>4
  <2> HIDE DEF start, stop, said
  <2>10. BlockEnded(i)'
    <3>1. stop' = {m} /\ m \in Told(i)' /\ \A n \in Told(i)' : n <= m
      BY <1>4, <1>5, <2>6, <2>9
    <3> QED
      BY <3>1 DEF BlockEnded, stop
  <2> QED
    BY <2>5, <2>6, <2>7, <2>8, <2>10 DEF BlockFollowed, stop
<1> QED
  BY <1>6, <1>7, <1>8, <1>9 DEF IsBlockEvent

LEMMA StreamIsFollowed ==
    ASSUME ExchangeTypeOK, Followed, NEW e \in Event, body' = Append(body, e),
           AnthropicTakes(parser, e), parser' = AfterAnthropic(parser, e)
    PROVE  Followed'
<1>1. PICK m \in Nat : Grows(e, m)
  BY ReceivedGrows
<1>2. MessageFollowed'
  BY <1>1, MessageFollows DEF Followed
<1>3. \A i \in Index : BlockFollowed(i)'
  BY <1>1, BlockFollows
<1> QED
  BY <1>2, <1>3 DEF Followed

\* A message that was assembled is the whole of what was sent.
LEMMA StreamIsWhole ==
    ASSUME ExchangeTypeOK, Followed, Complete(parser)
    PROVE  WholeStream
<1>1. DOMAIN body \subseteq Nat
  BY DEF ExchangeTypeOK
<1>2. /\ MessageFollowed
      /\ parser.stopped /\ parser.finish # None /\ Blocks(parser) # {}
      /\ \A i \in Blocks(parser) : parser.block[i].stopped
  BY DEF Followed, Complete
<1>3. At("error") = {} /\ At("garbage") = {}
  BY <1>2 DEF MessageFollowed, At, AnthropicEvent
<1>4. PICK end \in At("message_delta"), first \in At("message_start") : first < end
  BY <1>2 DEF MessageFollowed
<1>5. At("message_start") = {first} /\ At("message_delta") = {end}
  BY <1>2, <1>4 DEF MessageFollowed, Alone
<1>6. PICK last \in At("message_stop") : TRUE
  BY <1>2 DEF MessageFollowed
<1>7. \A n \in DOMAIN body : n > last => body[n].type = "done"
  BY <1>2, <1>6 DEF MessageFollowed
<1>8. At("message_stop") = {last}
  <2> SUFFICES ASSUME NEW n \in At("message_stop"), n # last PROVE FALSE
    BY <1>6
  <2>1. n \in DOMAIN body /\ last \in DOMAIN body /\ body[n].type = "message_stop"
        /\ body[last].type = "message_stop"
    BY <1>6 DEF At
  <2>2. n < last \/ last < n
    BY <1>1, <2>1
  <2>3. \A k \in DOMAIN body : k > n => body[k].type = "done"
    BY <1>2 DEF MessageFollowed
  <2> QED
    BY <1>1, <1>7, <2>1, <2>2, <2>3
<1>9. end < last
  <2>1. end \in DOMAIN body /\ last \in DOMAIN body
        /\ body[end].type = "message_delta" /\ body[last].type = "message_stop"
    BY <1>4, <1>6 DEF At
  <2>2. ~(end > last) /\ end # last
    BY <1>7, <2>1
  <2> QED
    BY <1>1, <2>1, <2>2
<1>10. ASSUME NEW i \in Index, Told(i) # {}
       PROVE  \E s \in AtBlock("content_block_start", i), t \in AtBlock("content_block_stop", i) :
                /\ first < s
                /\ AtBlock("content_block_start", i) = {s}
                /\ AtBlock("content_block_stop", i) = {t}
                /\ \A n \in Told(i) : s <= n /\ n <= t
  <2>1. BlockFollowed(i)
    BY DEF Followed
  <2>2. parser.block[i] # None
    BY <1>10, <2>1 DEF BlockFollowed
  <2>3. parser.block[i].stopped
    BY <1>2, <2>2 DEF Blocks
  <2>4. BlockBegun(i) /\ BlockEnded(i)
    BY <2>1, <2>2, <2>3 DEF BlockFollowed
  <2>5. PICK s \in Told(i), f \in At("message_start") :
            /\ AtBlock("content_block_start", i) = {s} /\ f < s
            /\ \A n \in Told(i) : s <= n
    BY <2>4 DEF BlockBegun
  <2>6. PICK t \in Told(i) : /\ AtBlock("content_block_stop", i) = {t}
                             /\ \A n \in Told(i) : n <= t
    BY <2>4 DEF BlockEnded
  <2> QED
    BY <1>5, <2>5, <2>6
<1>11. At("content_block_start") # {}
  <2>1. PICK i \in Index : parser.block[i] # None
    BY <1>2 DEF Blocks
  <2>2. BlockBegun(i)
    BY <2>1 DEF Followed, BlockFollowed
  <2>3. AtBlock("content_block_start", i) # {}
    BY <2>2 DEF BlockBegun
  <2> QED
    BY <2>3 DEF AtBlock
<1> QED
  BY <1>3, <1>4, <1>5, <1>6, <1>7, <1>8, <1>9, <1>10, <1>11 DEF WholeStream

\* The blocks of the answer are those that were told of, each with its pieces.
LEMMA BlocksAreTold ==
    ASSUME ExchangeTypeOK, Followed, NEW a, a = Assembled(parser), a # None
    PROVE  LET told == {i \in Index : Told(i) # {}} IN
           /\ Len(a.items) = Cardinality(told)
           /\ \A i \in told : IsSaid(a.items[Rank(i, told)].pieces, i)
<1> DEFINE told == {i \in Index : Told(i) # {}}
           S == Blocks(parser)
<1>1. \A i \in Index : BlockFollowed(i)
  BY DEF Followed
<1>2. told = S
  BY <1>1 DEF BlockFollowed, Blocks
<1>3. S \in SUBSET Nat /\ IsFiniteSet(S) /\ Cardinality(S) \in Nat
  BY BlocksAreNumbered, FS_CardinalityType DEF ExchangeTypeOK
<1>4. a.items = [n \in 1..Cardinality(S) |->
                    LET i == Nth(n, S) IN
                    Item(parser.block[i].kind, parser.block[i].pieces)]
  BY AssembledIsComplete DEF ExchangeTypeOK
<1>5. Len(a.items) = Cardinality(S)
  BY <1>3, <1>4
<1>6. ASSUME NEW i \in S PROVE IsSaid(a.items[Rank(i, S)].pieces, i)
  <2>1. parser.block[i] # None /\ i \in Index
    BY DEF Blocks
  <2>2. IsSaid(parser.block[i].pieces, i)
    BY <1>1, <2>1 DEF BlockFollowed
  <2> HIDE DEF S
  <2>3. PICK n : n = Rank(i, S) /\ n \in 1..Cardinality(S) /\ Nth(n, S) = i
    BY <1>3, RankIn, NthOfRank
  <2>4. a.items[n].pieces = parser.block[i].pieces
    BY <1>4, <2>3 DEF Item
  <2> QED
    BY <2>2, <2>3, <2>4
<1> HIDE DEF S, told
<1> QED
  BY <1>2, <1>5, <1>6 DEF told

-----------------------------------------------------------------------------
(* The parser of an OpenAI stream keeps the value of the event that was the *)
(* last.                                                                    *)

OpenAiFollowed ==
    /\ \A n \in DOMAIN body : body[n].type \in {"done", "other", "response.completed"}
    /\ parser.finish # None =>
        \E n \in DOMAIN body :
            /\ body[n].type = "response.completed" /\ body[n].value \in Response
            /\ parser.finish = ParseOpenAiValue(body[n].value)
            /\ \A k \in DOMAIN body : k > n => body[k].type = "done"

LEMMA OpenAiStreamIsFollowed ==
    ASSUME ExchangeTypeOK, OpenAiFollowed, NEW e \in Event, body' = Append(body, e),
           OpenAiTakes(parser, e), parser' = AfterOpenAi(parser, e)
    PROVE  /\ OpenAiFollowed'
           /\ parser' \in ParserRow
           /\ parser'.finish # parser.finish =>
                e.type = "response.completed" /\ parser'.finish = ParseOpenAiValue(e.value)
<1>1. PICK m \in Nat : Grows(e, m)
  BY ReceivedGrows
<1>2. /\ DOMAIN body' = DOMAIN body \cup {m} /\ body'[m] = e
      /\ \A n \in DOMAIN body : body'[n] = body[n] /\ n < m
      /\ m \in Nat /\ DOMAIN body \subseteq Nat
  BY <1>1 DEF Grows
<1>3. e.type \in {"done", "other", "response.completed"}
  BY DEF OpenAiTakes
<1>4. \A n \in DOMAIN body' : body'[n].type \in {"done", "other", "response.completed"}
  BY <1>2, <1>3 DEF OpenAiFollowed
<1>5. parser \in ParserRow
  BY DEF ExchangeTypeOK
<1>6. CASE e.type = "response.completed"
  <2>1. PICK a : a = ParseOpenAiValue(e.value)
    OBVIOUS
  <2>2. a # None /\ e.value \in Response
    BY <1>6, <2>1, ExchangeAssumption DEF OpenAiTakes, Carries
  <2>3. a \in AnswerRow
    BY <2>1, <2>2, OpenAiIsRead
  <2>4. parser' = [parser EXCEPT !.finish = a]
    BY <1>6, <2>1 DEF AfterOpenAi
  <2>5. parser' \in ParserRow /\ parser'.finish = a
    BY <1>5, <2>3, <2>4 DEF ParserRow
  <2>6. \A k \in DOMAIN body' : ~(k > m)
    BY <1>2
  <2> QED
    BY <1>2, <1>4, <1>6, <2>1, <2>2, <2>5, <2>6 DEF OpenAiFollowed
<1>7. CASE e.type # "response.completed"
  <2>1. parser' = parser
    BY <1>7 DEF AfterOpenAi
  <2>2. ASSUME parser.finish # None
        PROVE  \E n \in DOMAIN body' :
                /\ body'[n].type = "response.completed" /\ body'[n].value \in Response
                /\ parser.finish = ParseOpenAiValue(body'[n].value)
                /\ \A k \in DOMAIN body' : k > n => body'[k].type = "done"
    <3>1. e.type = "done"
      BY <1>7, <2>2 DEF OpenAiTakes
    <3>2. PICK n \in DOMAIN body :
            /\ body[n].type = "response.completed" /\ body[n].value \in Response
            /\ parser.finish = ParseOpenAiValue(body[n].value)
            /\ \A k \in DOMAIN body : k > n => body[k].type = "done"
      BY <2>2 DEF OpenAiFollowed
    <3> QED
      BY <1>2, <3>1, <3>2
  <2> QED
    BY <1>4, <1>5, <2>1, <2>2 DEF OpenAiFollowed
<1> QED
  BY <1>6, <1>7

LEMMA NothingIsFollowed ==
    body = <<>> /\ parser = Nothing => Followed /\ OpenAiFollowed
<1> SUFFICES ASSUME body = <<>>, parser = Nothing PROVE Followed /\ OpenAiFollowed
  OBVIOUS
<1>1. DOMAIN body = {}
  OBVIOUS
<1>2. parser.start = None /\ parser.finish = None /\ ~parser.stopped
      /\ \A i \in Index : parser.block[i] = None
  BY DEF Nothing
<1>3. \A type : At(type) = {}
  BY <1>1 DEF At
<1>4. \A i : Told(i) = {}
  BY <1>1 DEF Told
<1>5. MessageFollowed
  BY <1>1, <1>2, <1>3 DEF MessageFollowed, Alone
<1>6. \A i \in Index : BlockFollowed(i)
  BY <1>2, <1>4 DEF BlockFollowed
<1> QED
  BY <1>1, <1>2, <1>5, <1>6 DEF Followed, OpenAiFollowed

LEMMA NothingIsFollowedNext ==
    ASSUME body' = <<>>, parser' = Nothing
    PROVE  Followed' /\ OpenAiFollowed'
<1>1. (body = <<>> /\ parser = Nothing => Followed /\ OpenAiFollowed)'
  BY NothingIsFollowed, PTL
<1> QED
  BY <1>1 DEF Nothing

\* What is taken of an Anthropic stream keeps the parser's types.
LEMMA AnthropicIsTyped ==
    ASSUME NEW p \in ParserRow, p.finish \in FinishRow \cup {None},
           NEW e \in Event, AnthropicTakes(p, e), NEW q, q = AfterAnthropic(p, e)
    PROVE  q \in ParserRow /\ q.finish \in FinishRow \cup {None}
<1>1. CASE e.type = "message_start"
  BY <1>1, MessageIsStarted DEF AnthropicTakes
<1>2. CASE e.type = "message_delta"
  BY <1>2, MessageIsEnding DEF AnthropicTakes
<1>3. CASE e.type = "message_stop"
  BY <1>3, MessageIsStopped
<1>4. CASE e.type \in {"done", "other"}
  BY <1>4, NothingIsRead
<1>5. CASE e.type = "content_block_start"
  <2>1. BlockStart(p, e)
    BY <1>5 DEF AnthropicTakes
  <2>2. PICK row : row = [kind |-> e.kind, pieces |-> <<>>, stopped |-> FALSE]
    OBVIOUS
  <2>3. BlockBecomes(p, q, e.index, row)
    BY <1>5, <2>1, <2>2, BlockIsStarted
  <2> QED
    BY <2>3 DEF BlockBecomes
<1>6. CASE e.type = "content_block_delta"
  <2>1. BlockDelta(p, e)
    BY <1>6 DEF AnthropicTakes
  <2>2. PICK b : b = p.block[e.index]
    OBVIOUS
  <2>3. BlockBecomes(p, q, e.index, [b EXCEPT !.pieces = Append(b.pieces, e.piece)])
    BY <1>6, <2>1, <2>2, BlockIsRead
  <2> QED
    BY <2>3 DEF BlockBecomes
<1>7. CASE e.type = "content_block_stop"
  <2>1. BlockStop(p, e)
    BY <1>7 DEF AnthropicTakes
  <2>2. PICK b : b = p.block[e.index]
    OBVIOUS
  <2>3. BlockBecomes(p, q, e.index, [b EXCEPT !.stopped = TRUE])
    BY <1>7, <2>1, <2>2, BlockIsStopped
  <2> QED
    BY <2>3 DEF BlockBecomes
<1> QED
  BY <1>1, <1>2, <1>3, <1>4, <1>5, <1>6, <1>7 DEF AnthropicTakes

-----------------------------------------------------------------------------
(* The inductive invariant. *)

Sent == Event \cup {WholeValue(v) : v \in Value}

\* What the parser keeps is what was sent so far.
ParserFollows ==
    /\ provider = "anthropic" /\ streamed => Followed
    /\ provider = "openai" /\ streamed => OpenAiFollowed

\* An answer is what was read of all that was sent.
ResultIsRead ==
    result # None =>
        /\ at = "ended" /\ Sane(result.usage)
        /\ provider = "anthropic" /\ streamed => Complete(parser) /\ result = Assembled(parser)
        /\ provider = "openai" /\ streamed => result = parser.finish
        /\ ~streamed => \E v \in Value :
            body = <<WholeValue(v)>> /\ (provider = "openai" => result = ParseOpenAiValue(v))

\* The provider has done nothing while a request may still be sent.
CarriedOutLate ==
    /\ at \in {"ready", "sending"} => carriedOut = 0
    /\ CarriedOutOnce

ExchangeInv ==
    /\ ExchangeTypeOK /\ ParserFollows /\ ResultIsRead /\ CarriedOutLate /\ CostIsCovered

LEMMA FollowedStays ==
    ASSUME UNCHANGED <<body, parser>>
    PROVE  (Followed => Followed') /\ (OpenAiFollowed => OpenAiFollowed')
<1>1. body' = body /\ parser' = parser
  OBVIOUS
<1>2. \A type : At(type)' = At(type)
  BY <1>1 DEF At
<1>3. \A type, i : AtBlock(type, i)' = AtBlock(type, i)
  BY <1>1, <1>2 DEF AtBlock
<1>4. \A i : Told(i)' = Told(i)
  BY <1>1 DEF Told, IsBlockEvent
<1>5. MessageFollowed => MessageFollowed'
  BY <1>1, <1>2 DEF MessageFollowed
<1>6. ASSUME NEW i \in Index, BlockFollowed(i) PROVE BlockFollowed(i)'
  <2>1. BlockBegun(i) => BlockBegun(i)'
    BY <1>2, <1>3, <1>4 DEF BlockBegun
  <2>2. BlockEnded(i) => BlockEnded(i)'
    BY <1>3, <1>4 DEF BlockEnded
  <2>3. \A pieces : IsSaid(pieces, i) => IsSaid(pieces, i)'
    BY <1>1, <1>3 DEF IsSaid
  <2> QED
    BY <1>1, <1>3, <1>4, <1>6, <2>1, <2>2, <2>3 DEF BlockFollowed
<1>7. OpenAiFollowed => OpenAiFollowed'
  BY <1>1 DEF OpenAiFollowed
<1> QED
  BY <1>5, <1>6, <1>7 DEF Followed

LEMMA AttemptIsLast ==
    ASSUME journal \in Seq(Outcome), NEW outcome \in Outcome, Attempt(outcome)
    PROVE  journal' \in Seq(Outcome) /\ journal'[Len(journal')] = outcome
BY DEF Attempt

LEMMA ClearedIsTyped ==
    ASSUME NEW p, p = Nothing
    PROVE  p \in ParserRow /\ p.finish = None
BY NothingIsTyped

\* An answer that is not read leaves nothing to follow.
LEMMA UncertainKeeps ==
    ASSUME ExchangeInv, Uncertain, at # "ended", carriedOut' \in Nat, CarriedOutOnce'
    PROVE  ExchangeInv'
<1>1. /\ provider' = provider /\ streamed' = streamed /\ result' = result /\ at' = "ended"
      /\ body' = <<>> /\ parser' = Nothing /\ Attempt("uncertain")
  BY DEF Uncertain
<1>2. result' = None
  BY <1>1 DEF ExchangeInv, ResultIsRead
<1>3. journal' \in Seq(Outcome)
  BY <1>1, AttemptIsLast DEF ExchangeInv, ExchangeTypeOK, Outcome
<1>4. parser' \in ParserRow /\ parser'.finish = None
  BY <1>1, ClearedIsTyped
<1>5. ExchangeTypeOK'
  BY <1>1, <1>2, <1>3, <1>4 DEF ExchangeInv, ExchangeTypeOK
<1>6. ParserFollows'
  BY <1>1, NothingIsFollowedNext DEF ParserFollows
<1> QED
  BY <1>1, <1>2, <1>5, <1>6 DEF ExchangeInv, ResultIsRead, CarriedOutLate, CostIsCovered

\* An answer that is read is paid for, and what was received is kept.
LEMMA SettleKeeps ==
    ASSUME ExchangeInv, NEW answer \in AnswerRow, NEW received \in Seq(Sent),
           Settle(answer, received), UNCHANGED carriedOut,
           answer # None, Sane(answer.usage), streamed => received = body,
           provider = "anthropic" /\ streamed => Complete(parser) /\ answer = Assembled(parser),
           provider = "openai" /\ streamed => answer = parser.finish,
           ~streamed => \E v \in Value :
             received = <<WholeValue(v)>> /\ (provider = "openai" => answer = ParseOpenAiValue(v))
    PROVE  ExchangeInv'
<1> DEFINE fits == /\ answer.usage.input <= Tokens.input
                   /\ answer.output <= Tokens.output
                   /\ CostOf(answer.usage, answer.output) <= ReservedMicros
<1>1. /\ provider' = provider /\ streamed' = streamed /\ at' = "ended"
      /\ body' = received /\ parser' = parser /\ result' = answer
      /\ Attempt(IF fits THEN "settled" ELSE "started")
  BY DEF Settle
<1>2. answer.output \in Count
  BY DEF AnswerRow
<1>3. answer.usage.input <= Tokens.input /\ answer.output <= Tokens.output => fits
  BY <1>2, CostWithinReserved
<1> HIDE DEF fits
<1>4. /\ journal' \in Seq(Outcome)
      /\ fits => journal'[Len(journal')] = "settled"
  BY <1>1, AttemptIsLast DEF ExchangeInv, ExchangeTypeOK, Outcome
<1>5. CostIsCovered'
  BY <1>1, <1>3, <1>4 DEF CostIsCovered
<1>6. ExchangeTypeOK'
  BY <1>1, <1>4 DEF ExchangeInv, ExchangeTypeOK, Sent
<1>7. ParserFollows'
  <2>1. streamed => body' = body
    BY <1>1
  <2>2. streamed => (Followed => Followed') /\ (OpenAiFollowed => OpenAiFollowed')
    BY <1>1, <2>1, FollowedStays
  <2> QED
    BY <1>1, <2>2 DEF ExchangeInv, ParserFollows
<1>8. ResultIsRead'
  <2>1. Complete(parser') = Complete(parser) /\ Assembled(parser') = Assembled(parser)
    BY <1>1
  <2> QED
    BY <1>1, <2>1 DEF ResultIsRead
<1>9. CarriedOutLate'
  BY <1>1 DEF ExchangeInv, CarriedOutLate, CarriedOutOnce
<1> QED
  BY <1>5, <1>6, <1>7, <1>8, <1>9 DEF ExchangeInv

LEMMA SendKeeps ==
    ASSUME ExchangeInv, Send
    PROVE  ExchangeInv'
<1>1. /\ provider' = provider /\ streamed' = streamed /\ result' = result /\ at' = "sending"
      /\ body' = <<>> /\ parser' = Nothing /\ journal' = journal
      /\ carriedOut' = carriedOut /\ at = "ready"
  BY DEF Send
<1>2. result' = None
  BY <1>1 DEF ExchangeInv, ResultIsRead
<1>3. parser' \in ParserRow /\ parser'.finish = None
  BY <1>1, ClearedIsTyped
<1>4. ExchangeTypeOK'
  BY <1>1, <1>2, <1>3 DEF ExchangeInv, ExchangeTypeOK
<1>5. ParserFollows'
  BY <1>1, NothingIsFollowedNext DEF ParserFollows
<1>6. CarriedOutLate'
  BY <1>1 DEF ExchangeInv, CarriedOutLate, CarriedOutOnce
<1> QED
  BY <1>1, <1>2, <1>4, <1>5, <1>6 DEF ExchangeInv, ResultIsRead, CostIsCovered

\* A reply that says nothing was read changes neither the parser nor the body.
LEMMA UnreadKeeps ==
    ASSUME ExchangeInv, at = "sending", UNCHANGED <<provider, streamed, body, parser, result>>,
           at' \in {"ready", "reading", "ended"}, journal' \in Seq(Outcome),
           carriedOut' \in Nat, CarriedOutLate'
    PROVE  ExchangeInv'
<1>1. result' = None
  BY DEF ExchangeInv, ResultIsRead
<1>2. ExchangeTypeOK'
  BY <1>1 DEF ExchangeInv, ExchangeTypeOK
<1>3. (Followed => Followed') /\ (OpenAiFollowed => OpenAiFollowed')
  BY FollowedStays
<1>4. ParserFollows'
  BY <1>3 DEF ExchangeInv, ParserFollows
<1> QED
  BY <1>1, <1>2, <1>4 DEF ExchangeInv, ResultIsRead, CostIsCovered

LEMMA RefuseKeeps ==
    ASSUME ExchangeInv, NEW status, NEW code, Refuse(status, code)
    PROVE  ExchangeInv'
<1>1. PICK again : again = (Retryable(status, code) /\ Len(journal) + 1 < Requests)
  OBVIOUS
<1>2. /\ at = "sending" /\ UNCHANGED <<provider, streamed, body, parser, result, carriedOut>>
      /\ at' \in {"ready", "ended"}
      /\ Attempt("retryable_failure") \/ Attempt("terminal_failure")
  BY DEF Refuse
<1>3. journal' \in Seq(Outcome)
  BY <1>2, AttemptIsLast DEF ExchangeInv, ExchangeTypeOK, Outcome
<1>4. carriedOut' \in Nat /\ CarriedOutLate'
  BY <1>2 DEF ExchangeInv, ExchangeTypeOK, CarriedOutLate, CarriedOutOnce
<1> QED
  BY <1>2, <1>3, <1>4, UnreadKeeps

LEMMA AcceptKeeps ==
    ASSUME ExchangeInv, Accept
    PROVE  ExchangeInv'
<1>1. /\ at = "sending" /\ UNCHANGED <<provider, streamed, body, parser, result, journal>>
      /\ at' = "reading" /\ carriedOut' = carriedOut + 1
  BY DEF Accept
<1>2. carriedOut' = 1
  BY <1>1 DEF ExchangeInv, CarriedOutLate
<1>3. journal' \in Seq(Outcome) /\ carriedOut' \in Nat /\ CarriedOutLate'
  BY <1>1, <1>2 DEF ExchangeInv, ExchangeTypeOK, CarriedOutLate, CarriedOutOnce
<1> QED
  BY <1>1, <1>3, UnreadKeeps

LEMMA LostKeeps ==
    ASSUME ExchangeInv, Lost
    PROVE  ExchangeInv'
<1>1. at = "sending" /\ Uncertain /\ carriedOut' \in {carriedOut, carriedOut + 1}
  BY DEF Lost
<1>2. carriedOut' \in {0, 1}
  BY <1>1 DEF ExchangeInv, CarriedOutLate
<1> QED
  BY <1>1, <1>2, UncertainKeeps DEF CarriedOutOnce

LEMMA ReceiveKeeps ==
    ASSUME ExchangeInv, NEW e \in Event, Receive(e)
    PROVE  ExchangeInv'
<1>1. /\ at = "reading" /\ streamed /\ carriedOut' = carriedOut
      /\ ExchangeTypeOK /\ ParserFollows
  BY DEF Receive, ExchangeInv
<1>2. carriedOut' \in Nat /\ CarriedOutOnce'
  BY <1>1 DEF ExchangeInv, ExchangeTypeOK, CarriedOutLate, CarriedOutOnce
<1>3. CASE ~Takes(e)
  BY <1>1, <1>2, <1>3, UncertainKeeps DEF Receive
<1>4. CASE Takes(e)
  <2>1. /\ body' = Append(body, e) /\ parser' = After(e)
        /\ UNCHANGED <<provider, streamed, at, journal, result>>
    BY <1>4 DEF Receive
  <2>2. result' = None
    BY <1>1, <2>1 DEF ExchangeInv, ResultIsRead
  <2>3. body' \in Seq(Sent)
    <3>1. body \in Seq(Sent) /\ e \in Sent
      BY <1>1 DEF ExchangeTypeOK, Sent
    <3> QED
      BY <2>1, <3>1
  <2>4. /\ parser' \in ParserRow /\ ParserFollows'
        /\ parser'.finish \in (IF provider = "openai" THEN AnswerRow ELSE FinishRow) \cup {None}
    <3>1. CASE provider = "anthropic"
      <4>1. AnthropicTakes(parser, e) /\ parser' = AfterAnthropic(parser, e) /\ Followed
        BY <1>1, <1>4, <2>1, <3>1 DEF Takes, After, ParserFollows
      <4>2. Followed'
        BY <1>1, <2>1, <4>1, StreamIsFollowed
      <4>3. parser' \in ParserRow /\ parser'.finish \in FinishRow \cup {None}
        BY <1>1, <3>1, <4>1, AnthropicIsTyped DEF ExchangeTypeOK
      <4> QED
        BY <2>1, <3>1, <4>2, <4>3 DEF ParserFollows
    <3>2. CASE provider = "openai"
      <4>1. OpenAiTakes(parser, e) /\ parser' = AfterOpenAi(parser, e) /\ OpenAiFollowed
        BY <1>1, <1>4, <2>1, <3>2 DEF Takes, After, ParserFollows
      <4>2. /\ OpenAiFollowed' /\ parser' \in ParserRow
            /\ parser'.finish # parser.finish =>
                e.type = "response.completed" /\ parser'.finish = ParseOpenAiValue(e.value)
        BY <1>1, <2>1, <4>1, OpenAiStreamIsFollowed
      <4>3. parser'.finish \in AnswerRow \cup {None}
        <5>1. CASE parser'.finish = parser.finish
          BY <1>1, <3>2, <5>1 DEF ExchangeTypeOK
        <5>2. CASE parser'.finish # parser.finish
          <6>1. e.value \in Response /\ parser'.finish = ParseOpenAiValue(e.value)
            BY <4>2, <5>2, ExchangeAssumption DEF Carries
          <6>2. PICK a : a = ParseOpenAiValue(e.value)
            OBVIOUS
          <6>3. a # None => a \in AnswerRow
            BY <6>1, <6>2, OpenAiIsRead
          <6> QED
            BY <6>1, <6>2, <6>3
        <5> QED
          BY <5>1, <5>2
      <4> QED
        BY <2>1, <3>2, <4>2, <4>3 DEF ParserFollows
    <3> QED
      BY <1>1, <3>1, <3>2 DEF ExchangeTypeOK
  <2>5. ExchangeTypeOK'
    BY <1>1, <1>2, <2>1, <2>2, <2>3, <2>4 DEF ExchangeTypeOK, Sent
  <2>6. CarriedOutLate'
    BY <1>1, <1>2, <2>1 DEF CarriedOutLate
  <2> QED
    BY <2>2, <2>4, <2>5, <2>6 DEF ExchangeInv, ResultIsRead, CostIsCovered
<1> QED
  BY <1>3, <1>4

LEMMA EndOfStreamKeeps ==
    ASSUME ExchangeInv, EndOfStream
    PROVE  ExchangeInv'
<1>1. PICK a : a = IF provider = "anthropic" THEN Assembled(parser) ELSE parser.finish
  OBVIOUS
<1>2. /\ at = "reading" /\ streamed /\ carriedOut' = carriedOut /\ Read(a, body)
      /\ ExchangeTypeOK /\ ParserFollows
  BY <1>1, Zenon DEF EndOfStream, ExchangeInv
<1>3. carriedOut' \in Nat /\ CarriedOutOnce'
  BY <1>2 DEF ExchangeInv, ExchangeTypeOK, CarriedOutLate, CarriedOutOnce
<1>4. CASE ~(a # None /\ a.model = "asked")
  BY <1>2, <1>3, <1>4, UncertainKeeps DEF Read
<1>5. CASE a # None /\ a.model = "asked"
  <2>1. Settle(a, body) /\ body \in Seq(Sent)
    BY <1>2, <1>5 DEF Read, ExchangeTypeOK, Sent
  <2>2. CASE provider = "anthropic"
    <3>1. /\ a = Assembled(parser) /\ Followed /\ parser \in ParserRow
          /\ parser.finish \in FinishRow \cup {None}
      BY <1>1, <1>2, <2>2 DEF ParserFollows, ExchangeTypeOK
    <3>2. Complete(parser) /\ a.usage = parser.start.usage
      <4>1. a = Assembled(parser) /\ a # None /\ parser \in ParserRow
        BY <1>5, <3>1
      <4> QED
        BY <4>1, AssembledIsComplete
    <3>3. parser.start # None /\ Sane(parser.start.usage)
      BY <3>1, <3>2 DEF Complete, Followed, MessageFollowed
    <3>4. a \in AnswerRow
      BY <1>5, <3>1, <3>3, AssembledIsTyped
    <3> QED
      BY <1>2, <1>5, <2>1, <2>2, <3>1, <3>2, <3>3, <3>4, SettleKeeps
  <2>3. CASE provider = "openai"
    <3>1. a = parser.finish /\ OpenAiFollowed
      BY <1>1, <1>2, <2>3 DEF ParserFollows
    <3>2. PICK v \in Response : a = ParseOpenAiValue(v)
      BY <1>5, <3>1 DEF OpenAiFollowed
    <3>3. a \in AnswerRow /\ Sane(a.usage)
      BY <1>5, <3>2, OpenAiIsRead
    <3> QED
      BY <1>2, <1>5, <2>1, <2>3, <3>1, <3>3, SettleKeeps
  <2> QED
    BY <1>2, <2>2, <2>3 DEF ExchangeTypeOK
<1> QED
  BY <1>4, <1>5

LEMMA WholeBodyKeeps ==
    ASSUME ExchangeInv, NEW v \in Value, WholeBody(v)
    PROVE  ExchangeInv'
<1>1. PICK a : a = IF provider = "anthropic" THEN ParseAnthropicValue(v) ELSE ParseOpenAiValue(v)
  OBVIOUS
<1>2. PICK received : received = <<WholeValue(v)>>
  OBVIOUS
<1>3. /\ at = "reading" /\ ~streamed /\ carriedOut' = carriedOut /\ Read(a, received)
      /\ ExchangeTypeOK
  BY <1>1, <1>2, Zenon DEF WholeBody, ExchangeInv
<1>4. carriedOut' \in Nat /\ CarriedOutOnce'
  BY <1>3 DEF ExchangeInv, ExchangeTypeOK, CarriedOutLate, CarriedOutOnce
<1>5. CASE ~(a # None /\ a.model = "asked")
  BY <1>3, <1>4, <1>5, UncertainKeeps DEF Read
<1>6. CASE a # None /\ a.model = "asked"
  <2>1. Settle(a, received)
    BY <1>3, <1>6 DEF Read
  <2>2. received \in Seq(Sent)
    <3>1. WholeValue(v) \in Sent
      BY DEF Sent
    <3> HIDE DEF Sent, WholeValue
    <3> QED
      BY <1>2, <3>1
  <2>3. v \in Response
    BY ExchangeAssumption
  <2>4. a \in AnswerRow /\ Sane(a.usage)
    BY <1>1, <1>6, <2>3, OpenAiIsRead, AnthropicIsRead
  <2>5. provider = "openai" => a = ParseOpenAiValue(v)
    BY <1>1
  <2> QED
    BY <1>2, <1>3, <1>6, <2>1, <2>2, <2>4, <2>5, SettleKeeps
<1> QED
  BY <1>5, <1>6

\* An answer that was read is the whole of what was sent.
LEMMA ReadIsWhole ==
    ASSUME ExchangeInv
    PROVE  AnswerIsWhole
<1> SUFFICES ASSUME result # None PROVE AnswerIsWhole
  BY DEF AnswerIsWhole
<1>1. PICK a : a = result
  OBVIOUS
<1>2. /\ a # None /\ ExchangeTypeOK /\ ParserFollows /\ parser \in ParserRow
      /\ Sane(a.usage)
      /\ provider = "anthropic" /\ streamed => Complete(parser) /\ a = Assembled(parser)
      /\ provider = "openai" /\ streamed => a = parser.finish
      /\ ~streamed => \E v \in Value :
            body = <<WholeValue(v)>> /\ (provider = "openai" => a = ParseOpenAiValue(v))
  BY <1>1 DEF ExchangeInv, ExchangeTypeOK, ResultIsRead
<1>3. a.usage.cached + a.usage.created <= a.usage.input /\ a.usage.input <= MaxCount
  <2>1. a.usage.input \in Count /\ a.usage.cached + a.usage.created <= a.usage.input
    BY <1>2 DEF Sane, Usage
  <2> QED
    BY <2>1, StreamAssumption DEF Count
<1>4. ASSUME streamed, provider = "anthropic"
      PROVE  /\ WholeStream
             /\ LET told == {i \in Index : Told(i) # {}} IN
                /\ Len(a.items) = Cardinality(told)
                /\ \A i \in told : IsSaid(a.items[Rank(i, told)].pieces, i)
             /\ \A n \in DOMAIN a.items :
                a.items[n].kind = "tool" => WholeInput(a.items[n].pieces)
  <2>1. Followed /\ Complete(parser) /\ a = Assembled(parser)
    BY <1>2, <1>4 DEF ParserFollows
  <2>2. WholeStream
    BY <1>2, <2>1, StreamIsWhole
  <2>3. LET told == {i \in Index : Told(i) # {}} IN
        /\ Len(a.items) = Cardinality(told)
        /\ \A i \in told : IsSaid(a.items[Rank(i, told)].pieces, i)
    BY <1>2, <2>1, BlocksAreTold
  <2>4. \A n \in DOMAIN a.items : a.items[n].kind = "tool" => WholeInput(a.items[n].pieces)
    BY <1>2, <2>1, AssembledIsComplete
  <2> QED
    BY <2>2, <2>3, <2>4
<1>5. ASSUME provider = "openai"
      PROVE  \E n \in DOMAIN body :
                /\ body[n].type \in {"value", "response.completed"}
                /\ \A k \in DOMAIN body : k > n => body[k].type = "done"
                /\ At("error") = {} /\ At("garbage") = {}
                /\ body[n].value.items = a.items
                /\ a.usage.input + a.output = body[n].value.total
  <2>1. CASE streamed
    <3>1. OpenAiFollowed /\ parser.finish # None /\ a = parser.finish
      BY <1>2, <1>5, <2>1 DEF ParserFollows
    <3>2. PICK n \in DOMAIN body :
            /\ body[n].type = "response.completed" /\ body[n].value \in Response
            /\ a = ParseOpenAiValue(body[n].value)
            /\ \A k \in DOMAIN body : k > n => body[k].type = "done"
      BY <3>1 DEF OpenAiFollowed
    <3>3. PICK v \in Response : v = body[n].value
      BY <3>2
    <3>4. a.items = v.items /\ a.usage.input + a.output = v.total
      BY <1>2, <3>2, <3>3, OpenAiIsRead
    <3>5. At("error") = {} /\ At("garbage") = {}
      BY <3>1 DEF OpenAiFollowed, At
    <3> QED
      BY <3>2, <3>3, <3>4, <3>5
  <2>2. CASE ~streamed
    <3>1. PICK v \in Value : body = <<WholeValue(v)>> /\ a = ParseOpenAiValue(v)
      BY <1>2, <1>5, <2>2
    <3>2. v \in Response
      BY ExchangeAssumption
    <3>3. a.items = v.items /\ a.usage.input + a.output = v.total
      BY <1>2, <3>1, <3>2, OpenAiIsRead
    <3>4. DOMAIN body = {1} /\ body[1].type = "value" /\ body[1].value = v
      <4>1. DOMAIN body = {1} /\ body[1] = WholeValue(v)
        BY <3>1
      <4> QED
        BY <4>1 DEF WholeValue
    <3>5. At("error") = {} /\ At("garbage") = {}
      BY <3>4 DEF At
    <3> QED
      BY <3>3, <3>4, <3>5
  <2> QED
    BY <2>1, <2>2
<1> QED
  BY <1>1, <1>3, <1>4, <1>5 DEF AnswerIsWhole

LEMMA InitIsRead == Init => ExchangeInv
<1> SUFFICES ASSUME Init PROVE ExchangeInv
  OBVIOUS
<1>1. /\ provider \in {"openai", "anthropic"} /\ streamed \in BOOLEAN
      /\ at = "ready" /\ journal = <<>> /\ carriedOut = 0 /\ body = <<>>
      /\ parser = Nothing /\ result = None
  BY DEF Init
<1>2. parser \in ParserRow /\ parser.finish = None
  BY <1>1, ClearedIsTyped
<1>3. ExchangeTypeOK
  BY <1>1, <1>2 DEF ExchangeTypeOK
<1>4. ParserFollows
  BY <1>1, NothingIsFollowed DEF ParserFollows
<1> QED
  BY <1>1, <1>3, <1>4 DEF ExchangeInv, ResultIsRead, CarriedOutLate, CarriedOutOnce,
                          CostIsCovered

LEMMA NextKeepsExchange == ExchangeInv /\ [Next]_vars => ExchangeInv'
<1> SUFFICES ASSUME ExchangeInv, [Next]_vars PROVE ExchangeInv'
  OBVIOUS
<1>1. CASE Send
  BY <1>1, SendKeeps
<1>2. CASE Lost
  BY <1>2, LostKeeps
<1>3. CASE Accept
  BY <1>3, AcceptKeeps
<1>4. CASE EndOfStream
  BY <1>4, EndOfStreamKeeps
<1>5. CASE \E status \in ReplyStatus, code \in ErrorCode : Refuse(status, code)
  BY <1>5, RefuseKeeps
<1>6. CASE \E e \in Event : Receive(e)
  BY <1>6, ReceiveKeeps
<1>7. CASE \E v \in Value : WholeBody(v)
  BY <1>7, WholeBodyKeeps
<1>8. CASE UNCHANGED vars
  <2>1. UNCHANGED <<body, parser>>
    BY <1>8 DEF vars
  <2>2. ParserFollows'
    BY <1>8, <2>1, FollowedStays DEF vars, ExchangeInv, ParserFollows
  <2>3. ResultIsRead'
    <3>1. /\ result' = result /\ at' = at /\ provider' = provider /\ streamed' = streamed
          /\ parser' = parser /\ body' = body
      BY <1>8 DEF vars
    <3>2. Complete(parser') = Complete(parser) /\ Assembled(parser') = Assembled(parser)
      BY <3>1
    <3> QED
      BY <3>1, <3>2 DEF ExchangeInv, ResultIsRead
  <2> QED
    BY <1>8, <2>2, <2>3 DEF vars, ExchangeInv, ExchangeTypeOK, CarriedOutLate, CarriedOutOnce,
                            CostIsCovered
<1> QED
  BY <1>1, <1>2, <1>3, <1>4, <1>5, <1>6, <1>7, <1>8 DEF Next

THEOREM ExchangeInvariant == Spec => []ExchangeInv
BY InitIsRead, NextKeepsExchange, PTL DEF Spec

\* Everything of a conversation with a provider has its type.
THEOREM ExchangeTypesCorrect == Spec => []ExchangeTypeOK
<1>1. ExchangeInv => ExchangeTypeOK
  BY DEF ExchangeInv
<1> QED
  BY <1>1, ExchangeInvariant, PTL

\* An answer that is settled is the whole of what the provider sent: whatever
\* the events and their order, however long the stream and wherever it is cut
\* (api_providers.rs, parse_anthropic_response_stream, parse_openai_value).
THEOREM AnswersAreWhole == Spec => []AnswerIsWhole
BY ReadIsWhole, ExchangeInvariant, PTL

\* Whatever is lost, refused or cut, the provider carries out at most one of
\* the requests of a reservation (Service::execute_reserved_api_request_at).
THEOREM RequestsAreCarriedOutOnce == Spec => []CarriedOutOnce
<1>1. ExchangeInv => CarriedOutOnce
  BY DEF ExchangeInv, CarriedOutLate
<1> QED
  BY <1>1, ExchangeInvariant, PTL

\* At every price and for every reservation, an answer within the reserved
\* tokens costs no more than was reserved (worst_case_api_cost_micros).
THEOREM CostsAreCovered == Spec => []CostIsCovered
<1>1. ExchangeInv => CostIsCovered
  BY DEF ExchangeInv
<1> QED
  BY <1>1, ExchangeInvariant, PTL

=============================================================================
