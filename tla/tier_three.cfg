CONSTANTS
    m1 = m1
    m2 = m2
    m3 = m3
    t1 = t1
    t2 = t2
    t3 = t3
    v1 = v1
    v2 = v2
    v3 = v3
    Id = {m1, m2, m3, t1, t2, t3}
    Value = {v1, v2, v3}
    NoTurn = NoTurn
    Inputs <- EmptyLists
    Budgets <- SmallBudgets
    Merged = 1
    Row = {m1, m2, m3, t1, t2, t3}
    Memories = {m1, m2, m3}
    Lists <- AllLists
    K = 2
    Common = 840
    Content <- LineOf
    Questions <- AllQuestions
SPECIFICATION AnswerSpec
CHECK_DEADLOCK FALSE
INVARIANTS
    TurnsGetTheRest
