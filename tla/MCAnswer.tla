------------------------------ MODULE MCAnswer ------------------------------
\* What the retrievers return, and the facts, in the runs of Answer.
EXTENDS Answer

CONSTANTS m1, m2, m3, t1, t2, t3, v1, v2, v3

\* A fact or a memory, by the characters and the tokens of its line.
item(id, value, len, tokens, turn) ==
    [id |-> id, value |-> value, len |-> len, turn |-> turn,
     tokens |-> [content |-> tokens - 1, line |-> tokens, cut |-> tokens]]

\* A turn, by those of its content: the bullet and the date are nine tokens more.
snippet(id, value, len, tokens) ==
    [id |-> id, value |-> value, len |-> len, turn |-> id,
     tokens |-> [content |-> tokens, line |-> tokens + 9, cut |-> SnippetTokens + 9]]

Ranked(rows) == UNION {{s \in [1..n -> rows] : IsInjective(s)} : n \in 0..Cardinality(rows)}

From(run, source, rows) == {[run |-> run, source |-> source, rows |-> s] : s \in Ranked(rows)}

\* Facts, with their "(updated ...)" suffix; m3 states what m1 states.
Facts == {item(m1, v1, 27, 9, t1), item(m2, v2, 34, 11, t2), item(m3, v1, 31, 10, NoTurn)}
FactLists == {s \in UNION {[1..k -> Facts] : k \in 0..2} : IsInjective(s)}

\* The source of a turn is the turn; the longest one is trimmed.
Lines == {item(m1, v1, 7, 2, t1), item(m2, v2, 14, 4, t2), item(m3, v3, 23, 6, NoTurn),
          snippet(t1, v1, 6, 2), snippet(t2, v2, 20, 5), snippet(t3, v3, 700, 161)}
LineOf == [r \in Row |-> CHOOSE x \in Lines : x.id = r]

\* From the smallest max_tokens to one that has room for a trimmed turn.
SmallBudgets == {16, 23, 50, 64, 230}

\* Three memories ranked by meaning for the query and for its expansion, two by
\* words, a turn, and a memory that the graph leads to.
TwoRuns ==
    {<<t, v, f, w, g>> : t \in From(1, "turn_fts", {t1}), v \in From(1, "memory_vector", {m1, m2, m3}),
        f \in From(1, "memory_fts", {m1, m2}), w \in From(2, "memory_vector", {m1, m2, m3}),
        g \in From(1, "edge_hop", {m3})}

\* Every ranking of three memories and three turns.
OneRun ==
    {<<t, v>> : t \in From(1, "turn_vector", {t1, t2, t3}), v \in From(1, "memory_vector", {m1, m2, m3})}

AllLists == TwoRuns \cup OneRun

\* One budget where fusion is rich, every cut where it is plain.
AllQuestions ==
    [lists : TwoRuns, facts : {<<>>}, budget : {50}]
    \cup [lists : OneRun, facts : FactLists, budget : SmallBudgets]

EmptyLists == {<<f, <<>>, <<>>>> : f \in FactLists}
=============================================================================
