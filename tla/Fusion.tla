------------------------------- MODULE Fusion -------------------------------
(***************************************************************************)
(* Weighted reciprocal rank fusion (services/fusion.py) of what the        *)
(* retrievers found for a recall, and the order recall gives its result.   *)
(* A score is a sum of fractions weight / (k + rank); it is kept as an     *)
(* integer, in tenths of 1 / Common.                                       *)
(***************************************************************************)
EXTENDS Naturals, Sequences, FiniteSets, SequencesExt

CONSTANTS
    Row,
    Memories,  \* the rows that are memories; the others are turns
    Lists,     \* what the retrievers may return, one run after the other
    K,         \* Settings.rrf_k
    Common     \* a common multiple of the denominators

Weight == [graph |-> 15, memory_vector |-> 14, memory_fts |-> 11, turn_vector |-> 10,
           edge_hop |-> 9, turn_fts |-> 7]

\* The answer of one retriever to one query: rows in its order, each once.
List == [run : 1..3, source : DOMAIN Weight, rows : Seq(Row)]

VARIABLES
    lists,   \* what was found
    bucket,  \* the sources still to be read, each with its candidates in order
    rank,    \* position in the first of them
    score,   \* fused_score
    kept,    \* chosen_cand
    order    \* the result, once it is sorted

fusionVars == <<lists, bucket, rank, score, kept, order>>

----------------------------------------------------------------------------
\* all_cands: the lists, one after the other.
Candidates(ls) ==
    FlattenSeq([i \in DOMAIN ls |->
        [j \in DOMAIN ls[i].rows |->
            [row |-> ls[i].rows[j], source |-> ls[i].source, run |-> ls[i].run]]])

\* The elements of s at the places in S, in their order.
Select(s, S) ==
    LET upto[n \in 0..Len(s)] ==
            IF n = 0 THEN <<>>
            ELSE IF n \in S THEN Append(upto[n - 1], s[n]) ELSE upto[n - 1]
    IN  upto[Len(s)]

\* group_by_source: a bucket for each source, in the order in which they appear.
OfSource(cands, s) == Select(cands, {i \in DOMAIN cands : cands[i].source = s})

ASSUME FusionAssumption ==
    /\ Memories \subseteq Row
    /\ Common \in Nat /\ K \in Nat
    /\ \A ls \in Lists :
          /\ ls \in Seq(List)
          /\ \A i \in DOMAIN ls : IsInjective(ls[i].rows)
          /\ \A i, j \in DOMAIN ls : i < j /\ ls[i].source = ls[j].source => ls[i].run <= ls[j].run
          /\ \A s \in DOMAIN Weight :
                \A n \in 1..Len(OfSource(Candidates(ls), s)) : Common % (K + n) = 0

GroupBySource(cands) ==
    LET first == {i \in DOMAIN cands : \A j \in 1..(i - 1) : cands[j].source # cands[i].source}
        heads == Select(cands, first)
    IN  [k \in DOMAIN heads |-> OfSource(cands, heads[k].source)]

FusionInit ==
    /\ lists \in Lists
    /\ bucket = GroupBySource(Candidates(lists))
    /\ rank = 1
    /\ score = [r \in Row |-> 0]
    /\ kept = [r \in Row |-> <<>>]
    /\ order = <<>>

Current == bucket[1][rank]

\* Mutation: each source overwrites what the others gave.
OnlyThisShare(c) == (Weight[c.source] * Common) \div (K + rank)

NewScore(c) == score[c.row] + (Weight[c.source] * Common) \div (K + rank)

\* Mutation: the last of equals is kept.
AsStrong(c) == kept[c.row] = <<>> \/ Weight[c.source] >= Weight[kept[c.row][1].source]

Stronger(c) == kept[c.row] = <<>> \/ Weight[c.source] > Weight[kept[c.row][1].source]

\* One turn of the inner loop of rrf_fuse.
Fuse ==
    /\ bucket # <<>>
    /\ LET c == Current
       IN  /\ score' = [score EXCEPT ![c.row] = NewScore(c)]
           /\ kept' = IF Stronger(c) THEN [kept EXCEPT ![c.row] = <<c>>] ELSE kept
    /\ IF rank < Len(bucket[1]) THEN rank' = rank + 1 /\ UNCHANGED bucket
       ELSE rank' = 1 /\ bucket' = Tail(bucket)
    /\ UNCHANGED <<lists, order>>

Found == {r \in Row : kept[r] # <<>>}

\* fused_score keeps its keys in the order of their first candidates.
FirstPlace(r) ==
    LET read == FlattenSeq(GroupBySource(Candidates(lists)))
    IN  CHOOSE i \in DOMAIN read :
            read[i].row = r /\ \A j \in 1..(i - 1) : read[j].row # r

\* Mutation: the least comes first.
Reversed(a, b) ==
    \/ score[a] < score[b]
    \/ score[a] = score[b] /\ FirstPlace(a) < FirstPlace(b)

\* Both sorts are stable: by score, then memories before turns.
Before(a, b) ==
    \/ a \in Memories /\ b \notin Memories
    \/ /\ a \in Memories <=> b \in Memories
       /\ \/ score[a] > score[b]
          \/ score[a] = score[b] /\ FirstPlace(a) < FirstPlace(b)

Sort ==
    /\ bucket = <<>>
    /\ order = <<>>
    /\ order' = [n \in 1..Cardinality(Found) |->
                   CHOOSE r \in Found : Cardinality({q \in Found : Before(q, r)}) = n - 1]
    /\ UNCHANGED <<lists, bucket, rank, score, kept>>

FusionNext == Fuse \/ Sort

----------------------------------------------------------------------------
Done == bucket = <<>> /\ order = <<>>    \* all lists read, nothing sorted
Everything == Candidates(lists)
Places(r) == {i \in DOMAIN Everything : Everything[i].row = r}
RankOf(i) == Cardinality({j \in 1..i : Everything[j].source = Everything[i].source})
Part(i) == (Weight[Everything[i].source] * Common) \div (K + RankOf(i))

\* The score of a row is the sum of weight / (k + rank) over all its places, in
\* whatever order sources and runs came.
ScoresAreSums == Done => \A r \in Row : score[r] = SumFunction([i \in Places(r) |-> Part(i)])

\* What is kept of a row comes from its strongest source and, within it, from the
\* first run that found it: the gate and the citation depend on it.
KeepsTheStrongest ==
    Done => \A r \in Found :
        LET c == kept[r][1]
        IN  \A i \in Places(r) :
               \/ Weight[Everything[i].source] < Weight[c.source]
               \/ Everything[i].source = c.source /\ Everything[i].run >= c.run

\* Each place of one row has an earlier one of the other's in the same bucket.
PlacesBefore(r, i) == {j \in Places(r) : Everything[j].source = Everything[i].source /\ j < i}

Dominates(a, b) ==
    \A i \in Places(b) : Cardinality(PlacesBefore(a, i)) > Cardinality(PlacesBefore(b, i))

----------------------------------------------------------------------------
\* What the formula of fusion.py says and the code does not keep; no run checks it.

SourcesOf(r) == {Everything[i].source : i \in Places(r)}

\* A source counts once for a row, as in the formula: no score exceeds what its
\* sources give to a row they all rank first.
EachSourceCountsOnce ==
    Done => \A r \in Row :
        score[r] <= SumFunction([s \in SourcesOf(r) |-> (Weight[s] * Common) \div (K + 1)])
=============================================================================
