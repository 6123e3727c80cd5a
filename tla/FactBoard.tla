----------------------------- MODULE FactBoard -----------------------------
(***************************************************************************)
(* What POST /turns promises about facts, with no rows, locks or           *)
(* transactions: a board of facts under each scope key.  A turn is heard   *)
(* at once, in full and only once; a turn that fails is never heard.  A    *)
(* single-valued key shows the value heard last; facts of other keys       *)
(* accumulate, and a correction takes back what it quotes or, quoting      *)
(* nothing on the board, some one fact.  A delete wipes the keys of its    *)
(* user or anonymous session.                                              *)
(***************************************************************************)
EXTENDS Naturals, Sequences

CONSTANTS
    Request,
    Jobs,
    Key,
    Single,
    KeyFor(_, _),  \* the key under which job j states candidate c
    Wiped(_)       \* the keys job j wipes

VARIABLES
    job,           \* what each request states
    facts,         \* the objects on the board under each key
    heard          \* requests that were answered 201 or 204

\* The outcomes of stating c where the facts F are on the board.
Told(F, c) ==
    LET others == CASE c.object \in F -> {F}
                    [] c.object \notin F /\ c.predicate \in Single -> {{}}
                    [] OTHER -> IF c.correction /\ F \cap c.quoted # {} THEN {F \ c.quoted}
                                ELSE IF c.correction /\ F # {} THEN {F \ {o} : o \in F}
                                ELSE {F}
    IN  {rest \cup {c.object} : rest \in others}

\* The boards that stating c may make of board b.
Outcomes(b, j, c) ==
    LET k == KeyFor(j, c)
    IN  {[b EXCEPT ![k] = F] : F \in Told(b[k], c)}

\* The boards job j may leave, stating its candidates in order.
Boards(board, j) ==
    LET after[n \in 0..Len(j.cands)] ==
            IF n = 0 THEN {board}
            ELSE UNION {Outcomes(b, j, j.cands[n]) : b \in after[n - 1]}
    IN  after[Len(j.cands)]

Wipe(board, j) == [k \in Key |-> IF k \in Wiped(j) THEN {} ELSE board[k]]

Init ==
    /\ job \in [Request -> Jobs]
    /\ facts = [k \in Key |-> {}]
    /\ heard = {}

Hear(r) ==
    /\ r \notin heard
    /\ heard' = heard \cup {r}
    /\ facts' \in Boards(Wipe(facts, job[r]), job[r])
    /\ UNCHANGED job

Next == \E r \in Request : Hear(r)

Spec == Init /\ [][Next]_<<job, facts, heard>>
=============================================================================
