----------------------------- MODULE Reconciler -----------------------------
(***************************************************************************)
(* services/reconciler.py: what to do with one candidate, given the active *)
(* memories that share its scope and key.                                  *)
(***************************************************************************)
EXTENDS Store

\* ReconcileDecision.  The row to INSERT is always active; supersedes is a set
\* of none or one.
Skip == [insert |-> FALSE, supersedes |-> {}, deactivate |-> {}]

\* Mutation: the row supersedes nothing on record.
InsertUnlinked(head, gone) == [insert |-> TRUE, supersedes |-> {}, deactivate |-> gone]

Insert(head, gone) == [insert |-> TRUE, supersedes |-> head, deactivate |-> gone]

\* Mutation: the WHERE clause forgets the scope.
RivalsAnywhere(r, k) == {x \in ActiveFor(r) : KeyOf(x)[2] = k[2] /\ KeyOf(x)[3] = k[3]}

\* Mutation: superseded memories count as well.
RivalsOnRecord(r, k) == {x \in VisibleMemories(r) : KeyOf(x) = k}

\* The active memories of a key that a transaction sees.
Rivals(r, k) == {x \in ActiveFor(r) : KeyOf(x) = k}

\* Mutation: ORDER BY created_at.
Earliest(S) == {x \in S : \A y \in S : begun[x[2]] <= begun[y[2]]}

\* ORDER BY created_at DESC: created_at is now(), the start of the transaction
\* that inserted the row, so the rows of one turn tie.
Latest(S) == {x \in S : \A y \in S : begun[y[2]] <= begun[x[2]]}

Quoted(c, S) == {x \in S : Cand(x).object \in c.quoted}

\* Mutation: a correction never looks at what it quotes.
ReplacedUnread(c, actives) ==
    IF actives = {} THEN {{}}
    ELSE IF c.predicate \in Single THEN {actives}
    ELSE IF ~c.correction THEN {{}}
    ELSE {{x} : x \in Latest(actives)}

\* The sets of rows an inserted candidate may deactivate.
Replaced(c, actives) ==
    IF actives = {} THEN {{}}
    ELSE IF c.predicate \in Single THEN {actives}
    ELSE IF ~c.correction THEN {{}}
    ELSE IF Quoted(c, actives) # {} THEN {Quoted(c, actives)}
    ELSE {{x} : x \in Latest(actives)}

Heads(S) == IF S = {} THEN {{}} ELSE {{x} : x \in Latest(S)}

\* Mutation: the idempotent skip is gone.
DecisionsWithoutSkip(c, actives) ==
    UNION {{Insert(head, gone) : head \in Heads(gone)} : gone \in Replaced(c, actives)}

\* Mutation: an equal key is taken for an equal fact.
DecisionsByKey(c, actives) ==
    IF actives # {} THEN {Skip} ELSE {Insert({}, {})}

Decisions(c, actives) ==
    IF \E x \in actives : Cand(x).object = c.object THEN {Skip}
    ELSE UNION {{Insert(head, gone) : head \in Heads(gone)} : gone \in Replaced(c, actives)}
=============================================================================
