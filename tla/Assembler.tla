----------------------------- MODULE Assembler -----------------------------
(***************************************************************************)
(* The context assembler (services/assembler.py) and its token accounting  *)
(* (util/tokens.py): three ranked lists are cut to the caller's            *)
(* max_tokens, tier by tier and line by line.                              *)
(*                                                                         *)
(* A text is known by its size, on which its count depends: its tokens     *)
(* where tiktoken could be loaded (encoded), its characters elsewhere.     *)
(* size is that of the answer "\n\n".join(sections) built so far.          *)
(***************************************************************************)
EXTENDS Gate, Integers, Sequences, FiniteSets, Functions

CONSTANTS
    Id,        \* ids of turns and memories
    Value,     \* contents, stripped
    NoTurn,    \* source_turn is NULL
    Inputs,    \* triples of ranked lists: stable facts, memories, turns
    Budgets,   \* values of max_tokens
    Merged     \* bound: how many tokens fewer a join may have than its parts

\* What tiktoken makes of the content, of the formatted line, and of the line of
\* a turn if its snippet is what the first tokens of the content decode to.
Tokens == [content : Nat, line : Nat, cut : Nat]

\* len: of the formatted line, and of the content in the case of a turn.
Item == [id : Id, value : Value, len : Nat, tokens : Tokens, turn : Id \cup {NoTurn}]

ASSUME AssemblerAssumption ==
    /\ Inputs \subseteq [1..3 -> Seq(Item)]
    /\ Budgets \subseteq Nat \ {0}
    /\ Merged \in Nat

VARIABLES
    ranked, gate, budget,  \* the arguments
    encoded,               \* _ENC: tiktoken is there, or it never will be
    tier,                  \* the section under way; 4 when assemble returns
    next,                  \* the position in its ranking
    used,                  \* tokens charged so far
    local,                 \* per_item_used of the section
    cap,                   \* absolute_cap of the section
    shown,                 \* the lines of each section
    size,                  \* of the context
    citations              \* turn ids of the citations

arguments == <<ranked, gate, budget, encoded>>
text == <<tier, next, used, local, cap, shown, size, citations>>
vars == <<arguments, text>>

----------------------------------------------------------------------------
Smaller(a, b) == IF a < b THEN a ELSE b

\* The number of tokens, or the chars/4 heuristic.
ApproxTokenCount(n) == IF encoded THEN n ELSE IF n < 4 THEN 1 ELSE n \div 4

SnippetTokens == 160
DatePrefix == 15                        \* "- [YYYY-MM-DD] "

\* A turn's snippet is trimmed to its first tokens, or characters, and dated.
LineTokens(t, x) ==
    IF t = 3 /\ x.tokens.content > SnippetTokens THEN x.tokens.cut ELSE x.tokens.line
LineLen(t, x) == IF t = 3 THEN DatePrefix + Smaller(x.len, 4 * SnippetTokens) ELSE x.len
LineSize(t, x) == IF encoded THEN LineTokens(t, x) ELSE LineLen(t, x)

HeaderTokens == <<7, 4, 5>>
HeaderLen == <<31, 21, 29>>
HeaderSize(t) == IF encoded THEN HeaderTokens[t] ELSE HeaderLen[t]
HeaderCost(t) == ApproxTokenCount(HeaderSize(t)) + 1

\* Mutation: a line costs what its content costs.
ContentCost(t, x) ==
    ApproxTokenCount(IF encoded THEN x.tokens.content ELSE x.len) + 1

\* Mutation: the line break is not counted.
BareCost(t, x) == ApproxTokenCount(LineSize(t, x))

Cost(t, x) == ApproxTokenCount(LineSize(t, x)) + 1

\* 40%, 40%, and what remains.
Share(t, spent) == CASE t <= 2 -> (2 * budget) \div 5
                     [] t > 2 /\ spent < budget -> budget - spent
                     [] OTHER -> 0
CapOf(t, spent) == Smaller(spent + Share(t, spent), budget)

TierOpen(t) == IF t = 1 THEN gate.tier1 ELSE gate.tier2

Pending == tier <= 3 /\ TierOpen(tier) /\ next <= Len(ranked[tier])
Line == ranked[tier][next]

\* Mutation: memories are recognised by their id.
KnownById(x) ==
    /\ tier = 2
    /\ gate.tier1
    /\ \E i \in DOMAIN ranked[1] : ranked[1][i].id = x.id

\* A memory whose value is among the stable facts is left to tier 1.
Known(x) ==
    /\ tier = 2
    /\ gate.tier1
    /\ \E i \in DOMAIN ranked[1] : ranked[1][i].value = x.value

Overhead == IF shown[tier] = <<>> THEN HeaderCost(tier) ELSE 0

\* Mutation: the header is free.
ChargeWithoutHeader(x) == used + Cost(tier, x) + (IF tier = 1 THEN 0 ELSE local)

\* What is compared with the cap.  In _fit_lines, used already contains what
\* per_item_used adds once more.
Charge(x) == used + Overhead + Cost(tier, x) + (IF tier = 1 THEN 0 ELSE local)

\* Mutation: pairs are built from the unfiltered ranking.
CitationOfPosition(t, x) ==
    LET y == ranked[t][Len(shown[t]) + 1]
    IN  IF t = 3 THEN <<y.id>>
        ELSE IF y.turn # NoTurn THEN <<y.turn>>
        ELSE IF t = 2 THEN <<y.id>> ELSE <<>>

\* A turn cites itself, a memory the turn it came from; a fact without one cites
\* nothing, another memory its own id.
Citation(t, x) ==
    IF t = 3 THEN <<x.id>>
    ELSE IF x.turn # NoTurn THEN <<x.turn>>
    ELSE IF t = 2 THEN <<x.id>> ELSE <<>>

\* The join: a blank line before another section, a header before its first
\* line, a line break before the others, each a token per character at most.
Joined(x) == (IF shown[tier] # <<>> THEN 1
              ELSE HeaderSize(tier) + (IF size = 0 THEN 0 ELSE 2))
             + LineSize(tier, x)

\* The encoder may merge tokens where two texts meet; it is taken to make no more
\* of the whole than of its parts.
SizesUpTo(n) == IF encoded THEN (IF n < Merged THEN 0 ELSE n - Merged)..n ELSE {n}

----------------------------------------------------------------------------
Skip ==
    /\ Pending
    /\ Known(Line)
    /\ next' = next + 1
    /\ UNCHANGED <<arguments, tier, used, local, cap, shown, size, citations>>

AddLine ==
    /\ Pending
    /\ ~Known(Line)
    /\ Charge(Line) <= cap
    /\ next' = next + 1
    /\ used' = used + Overhead + Cost(tier, Line)
    /\ local' = local + Cost(tier, Line)
    /\ shown' = [shown EXCEPT ![tier] = Append(@, Line)]
    /\ size' \in SizesUpTo(size + Joined(Line))
    /\ citations' = citations \o Citation(tier, Line)
    /\ UNCHANGED <<arguments, tier, cap>>

\* The list is exhausted, the tier closed, or the line does not fit: break.
LeaveTier ==
    /\ tier <= 3
    /\ Pending => ~Known(Line) /\ Charge(Line) > cap
    /\ tier' = tier + 1
    /\ next' = 1
    /\ local' = 0
    /\ cap' = CapOf(tier + 1, used)
    /\ UNCHANGED <<arguments, used, shown, size, citations>>

\* The gates that may be set for these lists: a signal comes from a candidate, and
\* only a question about the user is open-ended about them (services/recall.py).
Gates(given) ==
    {DecideGate(p, o /\ p, m /\ given[2] # <<>>, t /\ given[3] # <<>>, e) :
        p \in BOOLEAN, o \in BOOLEAN, m \in BOOLEAN, t \in BOOLEAN, e \in BOOLEAN}

Empty ==
    /\ tier = 1
    /\ next = 1
    /\ used = 0
    /\ local = 0
    /\ cap = CapOf(1, 0)
    /\ shown = [t \in 1..3 |-> <<>>]
    /\ size = 0
    /\ citations = <<>>

Init ==
    /\ ranked \in Inputs
    /\ budget \in Budgets
    /\ gate \in Gates(ranked)
    /\ encoded \in BOOLEAN
    /\ Empty

Next == Skip \/ AddLine \/ LeaveTier

Spec == Init /\ [][Next]_vars

----------------------------------------------------------------------------
\* The context never exceeds max_tokens, counted as one text, whichever of its two
\* ways approx_token_count has to count: the floors of the per-line estimates, the
\* headers and the separators the join adds are all paid for line by line.
WithinBudget == ApproxTokenCount(size) <= budget

\* What a charged token pays for: itself, or four characters.
PerToken == IF encoded THEN 1 ELSE 4

Arguments == [1..3 -> Seq(Item)] \X GateState \X (Nat \ {0}) \X BOOLEAN

\* The inductive form: the text, and the blank line before another section, are
\* covered by the tokens charged.
Ledger ==
    /\ arguments \in Arguments
    /\ tier \in 1..4
    /\ next \in Nat \ {0}
    /\ used \in Nat /\ local \in Nat /\ cap \in Nat /\ size \in Nat
    /\ shown \in [1..3 -> Seq(Item)]
    /\ citations \in Seq(Id)
    /\ used <= budget
    /\ cap <= budget
    /\ IF used = 0 THEN size = 0 /\ \A t \in 1..3 : shown[t] = <<>>
                   ELSE size + 2 <= PerToken * used

SectionTokens(t) ==
    IF shown[t] = <<>> THEN 0
    ELSE HeaderCost(t) + SumFunction([i \in DOMAIN shown[t] |-> Cost(t, shown[t][i])])

\* Stable facts and memories get at most 40% of max_tokens each, their headers
\* included, and the ledger adds up: nothing is charged twice or not at all.
TierShares ==
    /\ \A t \in {1, 2} : 5 * SectionTokens(t) <= 2 * budget
    /\ used = SectionTokens(1) + SectionTokens(2) + SectionTokens(3)

\* The lines that have a source, in the order in which they are told: only a fact
\* that lost its turn has none.
LineAt(l) == shown[l[1]][l[2]]
LinesShown == UNION {{t} \X DOMAIN shown[t] : t \in 1..3}
Sourced == {l \in LinesShown : l[1] = 1 => LineAt(l).turn # NoTurn}
UpTo(l) == {k \in Sourced : k[1] < l[1] \/ (k[1] = l[1] /\ k[2] <= l[2])}
SourceOf(l) == IF l[1] = 3 \/ LineAt(l).turn = NoTurn THEN LineAt(l).id ELSE LineAt(l).turn

\* Citations follow the lines: one for each line shown that has a source, in their
\* order and to the line's own source, whatever was skipped in between.
CitationsFollowLines ==
    /\ Len(citations) = Cardinality(Sourced)
    /\ \A l \in Sourced : citations[Cardinality(UpTo(l))] = SourceOf(l)

\* No value is told both as a known fact and as a relevant memory.
NoValueTwice ==
    \A i \in DOMAIN shown[1], j \in DOMAIN shown[2] : shown[1][i].value # shown[2][j].value

\* Turn snippets get whatever budget remains: one is left out only if it does
\* not fit into max_tokens.
TurnsGetTheRest ==
    tier = 4 /\ gate.tier2 /\ Len(shown[3]) < Len(ranked[3]) =>
        used + (IF shown[3] = <<>> THEN HeaderCost(3) ELSE 0)
             + Cost(3, ranked[3][Len(shown[3]) + 1]) > budget
=============================================================================
