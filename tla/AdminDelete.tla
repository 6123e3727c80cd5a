---------------------------- MODULE AdminDelete ----------------------------
(***************************************************************************)
(* DELETE /sessions/{id} and DELETE /users/{id} (api/routes_admin.py): each *)
(* one transaction of several statements.  Neither takes an advisory lock. *)
(***************************************************************************)
EXTENDS Reconciler

\* Which statement follows which.  "successors" and "sources" are the updates
\* that ON DELETE SET NULL adds to a DELETE of memories and of turns.
SessionPlan == [affected |-> "memories", memories |-> "successors",
                successors |-> "turns", turns |-> "sources",
                sources |-> "entities", entities |-> "recompute",
                reset |-> "activate", activate |-> "recompute"]

UserPlan == [begin |-> "entities", entities |-> "memories",
             memories |-> "successors", successors |-> "turns",
             turns |-> "sources", sources |-> "commit"]

OwnScope(r) == IF job[r].op = "delete_user"
               THEN <<"user", job[r].user>> ELSE <<"session", job[r].session>>

\* Mutation: delete_by_session spares memories that follow a user.
AnonymousMemories(r) ==
    {x \in VisibleMemories(r) : KeyOf(x)[1] = OwnScope(r)}

\* Mutation: delete_by_user forgets scope_id.
MemoriesOfAnyUser(r) ==
    {x \in VisibleMemories(r) : IF job[r].op = "delete_user"
                                THEN job[x[2]].user # NoUser
                                ELSE job[x[2]].session = job[r].session}

\* Rows the WHERE clauses of the two handlers select.
DoomedMemories(r) ==
    {x \in VisibleMemories(r) : IF job[r].op = "delete_user"
                                THEN KeyOf(x)[1] = OwnScope(r)
                                ELSE job[x[2]].session = job[r].session}

DoomedTurns(r) ==
    {x \in Visible(r) \cap TurnRow : IF job[r].op = "delete_user"
                                     THEN job[x[2]].user = job[r].user
                                     ELSE job[x[2]].session = job[r].session}

\* Mutation: only the deletion of a user removes entities.
EntitiesOfUser(r) ==
    {x \in Visible(r) \cap EntityRow : job[r].op = "delete_user" /\ x[2] = OwnScope(r)}

DoomedEntities(r) == {x \in Visible(r) \cap EntityRow : x[2] = OwnScope(r)}

\* Mutation: the keys are read after the DELETE.
AffectedAfterDelete(r) ==
    {KeyOf(x) : x \in {y \in VisibleMemories(r) \ DoomedMemories(r) :
                         job[y[2]].session = job[r].session}}

\* affected_scope_keys: SELECT DISTINCT, in no particular order.
AffectedKeys(r) == {KeyOf(x) : x \in DoomedMemories(r)}

Orders(S) == UNION {{q \in [1..n -> S] : S = {q[i] : i \in 1..n}} : n \in 0..Cardinality(S)}

\* Mutation: recompute_active forgets the scope.
OfKeyAnywhere(r, k) ==
    {x \in VisibleMemories(r) : KeyOf(x)[2] = k[2] /\ KeyOf(x)[3] = k[3]}

OfKey(r, k) == {x \in VisibleMemories(r) : KeyOf(x) = k}

\* The rows a statement finds when it starts.  The last UPDATE of
\* recompute_active activates one row, the latest by created_at.
Targets(r, statement) ==
    CASE statement = "memories" -> {DoomedMemories(r)}
      [] statement = "successors" -> {{p[1] : p \in {q \in supersedes : q[2] \in w[r].del}}
                                        \cap Visible(r)}
      [] statement = "turns" -> {DoomedTurns(r)}
      [] statement = "sources" -> {{x \in VisibleMemories(r) : Turn(x[2]) \in w[r].del}}
      [] statement = "entities" -> {DoomedEntities(r)}
      [] statement = "reset" -> {OfKey(r, Head(keys[r]))}
      [] statement = "activate" -> Heads(OfKey(r, Head(keys[r])))
      [] OTHER -> {{}}

\* What a statement does to a row it has locked, and the lock it needs.
Deleting == {"memories", "turns", "entities"}
Updating == {"successors", "sources", "reset", "activate"}

Mode(statement) == IF statement \in Deleting THEN "delete" ELSE "update"

\* The transaction of DELETE /sessions opens and reads the affected keys.
BeginDeleteSession(r) ==
    /\ job[r].op = "delete_session"
    /\ Open(r)
    /\ pc' = [pc EXCEPT ![r] = "affected"]
    /\ \E order \in Orders(AffectedKeys(r)) : keys' = [keys EXCEPT ![r] = order]
    /\ UNCHANGED <<job, at, todo, sup, names, locks, w, store>>

BeginDeleteUser(r) ==
    /\ job[r].op = "delete_user"
    /\ Open(r)
    /\ pc' = [pc EXCEPT ![r] = "begin"]
    /\ UNCHANGED <<job, control, locks, w, store>>

\* The next statement starts: its targets are what is visible now.  The loop
\* over the affected keys runs recompute_active for each of them.
Statement(r, next) ==
    /\ pc' = [pc EXCEPT ![r] = next]
    /\ \E targets \in Targets(r, next) : todo' = [todo EXCEPT ![r] = targets]
    /\ keys' = IF next = "activate" THEN [keys EXCEPT ![r] = Tail(@)] ELSE keys
    /\ UNCHANGED <<job, at, sup, names, begun, clock, locks, w, store>>

NextStatement(r) ==
    /\ todo[r] = {}
    /\ LET plan == IF job[r].op = "delete_user" THEN UserPlan ELSE SessionPlan
       IN  /\ job[r].op # "turn"
           /\ pc[r] \in DOMAIN plan
           /\ Statement(r, IF plan[pc[r]] # "recompute" THEN plan[pc[r]]
                           ELSE IF keys[r] = <<>> THEN "commit" ELSE "reset")

\* One row of the running statement, unless it was deleted meanwhile.
VisitRow(r) ==
    /\ pc[r] \in Deleting \cup Updating
    /\ \E x \in todo[r] :
         /\ Free(r, x, Mode(pc[r]))
         /\ todo' = [todo EXCEPT ![r] = @ \ {x}]
         /\ w' = IF x \notin Visible(r) THEN w
                 ELSE IF pc[r] \in Deleting THEN [w EXCEPT ![r].del = @ \cup {x}]
                 ELSE IF pc[r] = "reset"
                      THEN [w EXCEPT ![r].off = @ \cup {x}, ![r].on = @ \ {x}]
                 ELSE IF pc[r] = "activate"
                      THEN [w EXCEPT ![r].on = @ \cup {x}, ![r].off = @ \ {x}]
                 ELSE [w EXCEPT ![r].touch = @ \cup {x}]
    /\ UNCHANGED <<job, pc, at, sup, names, keys, begun, clock, locks, store>>

\* The 204.
CommitDelete(r) == pc[r] = "commit" /\ Commit(r)

DeleteStep(r) ==
    \/ BeginDeleteSession(r)
    \/ BeginDeleteUser(r)
    \/ NextStatement(r)
    \/ VisitRow(r)
    \/ CommitDelete(r)
=============================================================================
