----------------------------- MODULE IngestTurn -----------------------------
(***************************************************************************)
(* POST /turns (api/routes_turns.py), phase 2: one transaction that stores *)
(* the turn, reconciles and inserts its candidates, links their entities   *)
(* and draws the edges of the memory graph.  Phase 1 (extraction and       *)
(* embedding) runs before the transaction and reads no shared state: its   *)
(* result is the job's sequence of candidates.                             *)
(***************************************************************************)
EXTENDS Reconciler

cands(r) == job[r].cands
ThisMemory(r) == Memory(r, at[r])

\* Mutation: an entity is looked up by its name in any scope.
EntityOfAnyScope(r) ==
    LET found == {e \in Visible(r) \cap EntityRow : e[3] = Head(names[r])}
    IN  IF found = {} THEN Entity(ScopeOf(job[r]), Head(names[r]))
        ELSE CHOOSE e \in found : TRUE

\* upsert_entity: the entity of that name in the turn's scope.
ThisEntity(r) == Entity(ScopeOf(job[r]), Head(names[r]))
Inserted(r) == w[r].ins \cap MemoryRow

\* The end of the loop body: the next candidate, or the edges.
NextCandidate(r) ==
    IF at[r] < Len(cands(r))
    THEN /\ pc' = [pc EXCEPT ![r] = "reconcile"]
         /\ at' = [at EXCEPT ![r] = @ + 1]
    ELSE /\ pc' = [pc EXCEPT ![r] = "edges"]
         /\ at' = [at EXCEPT ![r] = 1]

\* for ent in cand.entities: to the next one, or out of the loop.
NextEntity(r, rest) ==
    /\ names' = [names EXCEPT ![r] = rest]
    /\ IF rest = <<>>
       THEN NextCandidate(r)
       ELSE pc' = [pc EXCEPT ![r] = "mentions"] /\ UNCHANGED at

\* The transaction opens and the raw turn is inserted.
BeginTurn(r) ==
    /\ job[r].op = "turn"
    /\ Open(r)
    /\ w' = [w EXCEPT ![r].ins = {Turn(r)}]
    /\ pc' = [pc EXCEPT ![r] = IF cands(r) = <<>> THEN "edges" ELSE "reconcile"]
    /\ at' = [at EXCEPT ![r] = 1]
    /\ UNCHANGED <<job, todo, sup, names, keys, locks, store>>

\* acquire_lock waits for the advisory lock, reconcile reads and decides.
Reconcile(r) ==
    LET k == KeyOf(ThisMemory(r))
    IN  /\ pc[r] = "reconcile"
        /\ LockFree(r, k)
        /\ locks' = [locks EXCEPT ![r] = @ \cup {Hash(k)}]
        /\ \E d \in Decisions(Cand(ThisMemory(r)), Rivals(r, k)) :
             /\ todo' = [todo EXCEPT ![r] = d.deactivate]
             /\ sup' = [sup EXCEPT ![r] = d.supersedes]
             /\ IF d.insert
                THEN pc' = [pc EXCEPT ![r] = "apply"] /\ UNCHANGED at
                ELSE NextCandidate(r)
        /\ UNCHANGED <<job, names, keys, begun, clock, w, store>>

\* apply_decision: one row of the UPDATE ... SET active = false.  A row that
\* was deleted meanwhile is no longer there to update.
Deactivate(r) ==
    /\ pc[r] = "apply"
    /\ \E x \in todo[r] :
         /\ Free(r, x, "update")
         /\ todo' = [todo EXCEPT ![r] = @ \ {x}]
         /\ w' = IF x \in Visible(r)
                 THEN [w EXCEPT ![r].off = @ \cup {x}, ![r].on = @ \ {x}]
                 ELSE w
    /\ UNCHANGED <<job, pc, at, sup, names, keys, begun, clock, locks, store>>

\* insert_memory, whose foreign key needs the superseded row to exist still.
InsertMemory(r) ==
    /\ pc[r] = "apply"
    /\ todo[r] = {}
    /\ sup[r] \subseteq Visible(r)
    /\ w' = [w EXCEPT ![r].ins = @ \cup {ThisMemory(r)},
                      ![r].on = @ \cup {ThisMemory(r)},
                      ![r].chain = @ \cup ({ThisMemory(r)} \X sup[r])]
    /\ sup' = [sup EXCEPT ![r] = {}]
    /\ NextEntity(r, Cand(ThisMemory(r)).entities)
    /\ UNCHANGED <<job, todo, keys, begun, clock, locks, store>>

\* upsert_entity waits for whoever writes the same entity, then updates it or
\* inserts it; link_mention refers to the row it returned.
MentionEntity(r) ==
    LET e == ThisEntity(r)
    IN  /\ pc[r] = "mentions"
        /\ Free(r, e, "update")
        /\ w' = [w EXCEPT ![r].ins = @ \cup ({e} \ Visible(r)),
                          ![r].touch = @ \cup ({e} \cap Visible(r)),
                          ![r].mentions = @ \cup {<<ThisMemory(r), e>>}]
        /\ NextEntity(r, Tail(names[r]))
        /\ UNCHANGED <<job, todo, sup, keys, begun, clock, locks, store>>

\* Mutation: the WHERE clause forgets the scope.
PeersAnywhere(r, m) == {x \in ActiveFor(r) \ {m} : Cand(x).subject = Cand(m).subject}

\* active_memories_with_subject: the peers of an inserted memory.
Peers(r, m) == {x \in ActiveFor(r) \ {m} : /\ KeyOf(x)[1] = KeyOf(m)[1]
                                           /\ Cand(x).subject = Cand(m).subject}

\* One source of the edge loop: its co_extracted edges, and the SELECT of its
\* same_subject peers.  A skipped candidate has no row.
LinkSource(r) ==
    /\ pc[r] = "edges"
    /\ todo[r] = {}
    /\ at[r] <= Len(cands(r))
    /\ IF ThisMemory(r) \in Inserted(r)
       THEN /\ w' = [w EXCEPT ![r].edges = @ \cup
                       {<<ThisMemory(r), x, "co_extracted">> : x \in Inserted(r) \ {ThisMemory(r)}}]
            /\ todo' = [todo EXCEPT ![r] = Peers(r, ThisMemory(r))]
       ELSE UNCHANGED <<w, todo>>
    /\ at' = [at EXCEPT ![r] = @ + 1]
    /\ UNCHANGED <<job, pc, sup, names, keys, begun, clock, locks, store>>

\* Mutation: only the edge towards the peer.
LinkPeerOneWay(r) ==
    LET m == Memory(r, at[r] - 1)
    IN  /\ pc[r] = "edges"
        /\ \E x \in todo[r] :
             /\ Free(r, x, "share")
             /\ x \in Visible(r)
             /\ todo' = [todo EXCEPT ![r] = @ \ {x}]
             /\ w' = [w EXCEPT ![r].share = @ \cup {x},
                               ![r].edges = @ \cup {<<m, x, "same_subject">>}]
        /\ UNCHANGED <<job, pc, at, sup, names, keys, begun, clock, locks, store>>

\* The two edges between the source and a peer.  The foreign key locks the
\* peer against deletion.
LinkPeer(r) ==
    LET m == Memory(r, at[r] - 1)
    IN  /\ pc[r] = "edges"
        /\ \E x \in todo[r] :
             /\ Free(r, x, "share")
             /\ x \in Visible(r)
             /\ todo' = [todo EXCEPT ![r] = @ \ {x}]
             /\ w' = [w EXCEPT ![r].share = @ \cup {x},
                               ![r].edges = @ \cup {<<m, x, "same_subject">>,
                                                    <<x, m, "same_subject">>}]
        /\ UNCHANGED <<job, pc, at, sup, names, keys, begun, clock, locks, store>>

\* An INSERT names a memory that was deleted since it was read: the foreign key
\* fails, the exception rolls the transaction back and the client gets a 500.
ForeignKeyError(r) ==
    /\ \/ pc[r] = "apply" /\ todo[r] = {} /\ ~(sup[r] \subseteq Visible(r))
       \/ pc[r] = "edges" /\ \E x \in todo[r] : x \notin Visible(r)
    /\ Rollback(r)

\* The 201.
CommitTurn(r) ==
    /\ pc[r] = "edges"
    /\ todo[r] = {}
    /\ at[r] > Len(cands(r))
    /\ Commit(r)

TurnStep(r) ==
    \/ BeginTurn(r)
    \/ Reconcile(r)
    \/ Deactivate(r)
    \/ InsertMemory(r)
    \/ MentionEntity(r)
    \/ LinkSource(r)
    \/ LinkPeer(r)
    \/ ForeignKeyError(r)
    \/ CommitTurn(r)
=============================================================================
