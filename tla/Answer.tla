------------------------------- MODULE Answer -------------------------------
(***************************************************************************)
(* The second half of a recall (services/recall.py): what the retrievers   *)
(* found is fused, the gate decides what it is good for, and the assembler *)
(* cuts it to the caller's budget.                                         *)
(***************************************************************************)
EXTENDS Assembler, Fusion

CONSTANTS
    Content,     \* the line each row becomes
    Questions    \* what was found, the stable facts, and max_tokens

ASSUME AnswerAssumption ==
    /\ Content \in [Row -> Item]
    /\ \A a, b \in Row :
          (a \in Memories <=> b \in Memories) /\ Content[a].id = Content[b].id => a = b
    /\ Questions \subseteq [lists : Lists, facts : Seq(Item), budget : Budgets]

VARIABLE handed    \* the fused list has been handed to the assembler

answerVars == <<vars, fusionVars, handed>>

----------------------------------------------------------------------------
AnswerInit ==
    /\ \E q \in Questions :
          /\ lists = q.lists
          /\ ranked = <<q.facts, <<>>, <<>>>>
          /\ budget = q.budget
    /\ FusionInit
    /\ gate = DecideGate(FALSE, FALSE, FALSE, FALSE, FALSE)
    /\ encoded \in BOOLEAN
    /\ Empty
    /\ handed = FALSE

FuseStep == FusionNext /\ UNCHANGED <<vars, handed>>

\* memory_cands and turn_cands, in the order of the fused list.
OfKind(isMemory) ==
    LET rows == Select(order, {i \in DOMAIN order : (order[i] \in Memories) = isMemory})
    IN  [i \in DOMAIN rows |-> Content[rows[i]]]

HandOver ==
    /\ ~handed
    /\ bucket = <<>>
    /\ Len(order) = Cardinality(Found)
    /\ ranked' = <<ranked[1], OfKind(TRUE), OfKind(FALSE)>>
    /\ gate' \in Gates(ranked')
    /\ handed' = TRUE
    /\ UNCHANGED <<budget, encoded, text, fusionVars>>

AssembleStep == handed /\ Next /\ UNCHANGED <<fusionVars, handed>>

AnswerNext == FuseStep \/ HandOver \/ AssembleStep

AnswerSpec == AnswerInit /\ [][AnswerNext]_answerVars

----------------------------------------------------------------------------
Tells(t, r) == \E i \in DOMAIN shown[t] : shown[t][i].id = Content[r].id
KnownFact(r) == gate.tier1 /\ \E i \in DOMAIN ranked[1] : ranked[1][i].value = Content[r].value

\* From the retrievers to the context: no row is told where another of its kind,
\* which every retriever that found the first ranks higher, is not, unless that
\* one's value is a fact of tier 1.  Fusion must not let the worse one overtake,
\* and a tight budget must cut the list at its end.
NothingWorseIsTold ==
    tier = 4 => \A a, b \in Row :
        LET t == IF b \in Memories THEN 2 ELSE 3
        IN  /\ a \in Memories <=> b \in Memories
            /\ Tells(t, b) /\ ~Tells(t, a)
            /\ t = 2 => ~KnownFact(a)
            => ~Dominates(a, b)
=============================================================================
