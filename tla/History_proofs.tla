--------------------------- MODULE History_proofs ---------------------------
(***************************************************************************)
(* What joins memories.  In any number and interleaving of turns and       *)
(* deletes the memory graph never leaves a scope, every edge has its way   *)
(* back, and a link of history stays in its key.  Turns and user deletes   *)
(* also keep history a chain and leave every key with one value; a session *)
(* delete, whose recompute revives what was replaced, is excluded from     *)
(* that: it breaks both.                                                   *)
(***************************************************************************)
EXTENDS MemoryService_proofs

----------------------------------------------------------------------------
\* Scopes.

JoinsOneScope(e) == KeyOf(e[1])[1] = KeyOf(e[2])[1] /\ e[1] # e[2]

EdgesInScope == \A e \in edges : JoinsOneScope(e)

\* What a transaction will add to the graph stays in its scope: it inserts its own
\* memories, and the peers it still has to link are of its scope and not the
\* memory it links them to.
DrawsInScope(r) ==
    /\ \A x \in w[r].ins \cap MemoryRow : x[2] = r
    /\ \A e \in w[r].edges : JoinsOneScope(e)
    /\ pc[r] \in {"waiting", "mentions"} => todo[r] = {}
    /\ pc[r] = "edges" =>
         \A x \in todo[r] : KeyOf(x)[1] = ScopeOf(job[r]) /\ x # Memory(r, at[r] - 1)

GraphInv == EdgesInScope /\ \A r \in Request : DrawsInScope(r)

\* The scope of a memory is that of the request it came from, and never changes.
LEMMA ScopeOfRow ==
  /\ \A x : KeyOf(x)[1] = ScopeOf(job[x[2]])
  /\ \A r, i : KeyOf(Memory(r, i))[1] = ScopeOf(job[r])
BY DEF KeyOf, Memory

LEMMA GraphStable ==
  ASSUME job' = job
  PROVE  /\ \A x : KeyOf(x)'[1] = KeyOf(x)[1]
         /\ \A r : ScopeOf(job[r])' = ScopeOf(job[r])
BY DEF KeyOf, ScopeOf

LEMMA InitGraph == ASSUME StoreInit PROVE GraphInv
BY DEF StoreInit, GraphInv, EdgesInScope, DrawsInScope, NoWrites

\* A step inside the transaction of r.
LEMMA LocalGraph ==
  ASSUME GraphInv, NEW r \in Request, job' = job, UNCHANGED store, DrawsInScope(r)',
         \A q \in Request \ {r} : /\ pc'[q] = pc[q] /\ at'[q] = at[q] /\ todo'[q] = todo[q]
                                  /\ w'[q] = w[q]
  PROVE  GraphInv'
<1>1. EdgesInScope'
  BY GraphStable DEF GraphInv, EdgesInScope, JoinsOneScope, store
<1>2. ASSUME NEW q \in Request \ {r} PROVE DrawsInScope(q)'
  <2>1. DrawsInScope(q)
    BY DEF GraphInv
  <2> QED
    BY <2>1, GraphStable DEF DrawsInScope, JoinsOneScope, Memory
<1> QED
  BY <1>1, <1>2 DEF GraphInv

\* A step that draws nothing and ends outside the edges.
LEMMA QuietGraph ==
  ASSUME GraphInv, NEW r \in Request, job' = job, UNCHANGED store,
         w'[r].ins = w[r].ins, w'[r].edges = w[r].edges,
         pc'[r] \notin {"waiting", "mentions", "edges"},
         \A q \in Request \ {r} : /\ pc'[q] = pc[q] /\ at'[q] = at[q] /\ todo'[q] = todo[q]
                                  /\ w'[q] = w[q]
  PROVE  GraphInv'
<1>1. DrawsInScope(r)
  BY DEF GraphInv
<1>2. DrawsInScope(r)'
  BY <1>1, GraphStable DEF DrawsInScope, JoinsOneScope
<1> QED
  BY <1>2, LocalGraph

\* The end of a transaction: r has no writes and nothing left to do.
LEMMA ClosedGraph ==
  ASSUME TypeOK, NEW r \in Request, NEW outcome \in {"done", "failed"}, Close(r, outcome)
  PROVE  /\ job' = job /\ DrawsInScope(r)'
         /\ \A q \in Request \ {r} : /\ pc'[q] = pc[q] /\ at'[q] = at[q]
                                     /\ todo'[q] = todo[q] /\ w'[q] = w[q]
<1>1. pc'[r] = outcome /\ w'[r] = NoWrites
  BY DEF Close, TypeOK, HandlersOK
<1>2. DrawsInScope(r)'
  BY <1>1 DEF DrawsInScope, NoWrites
<1> QED
  BY <1>2 DEF Close, TypeOK, HandlersOK

LEMMA CommitGraph ==
  ASSUME TypeOK, GraphInv, NEW r \in Request, Commit(r)
  PROVE  GraphInv'
<1>1. Close(r, "done") /\ edges' \subseteq edges \cup w[r].edges
  BY DEF Commit
<1>2. /\ job' = job /\ DrawsInScope(r)'
      /\ \A q \in Request \ {r} : /\ pc'[q] = pc[q] /\ at'[q] = at[q]
                                  /\ todo'[q] = todo[q] /\ w'[q] = w[q]
  BY <1>1, ClosedGraph
<1>3. EdgesInScope'
  <2>1. \A e \in edges' : JoinsOneScope(e)
    BY <1>1 DEF GraphInv, EdgesInScope, DrawsInScope, JoinsOneScope
  <2> QED
    BY <1>2, <2>1, GraphStable DEF EdgesInScope, JoinsOneScope
<1>4. ASSUME NEW q \in Request \ {r} PROVE DrawsInScope(q)'
  <2>1. DrawsInScope(q)
    BY DEF GraphInv
  <2> QED
    BY <1>2, <2>1, GraphStable DEF DrawsInScope, JoinsOneScope, Memory
<1> QED
  BY <1>2, <1>3, <1>4 DEF GraphInv

LEMMA RollbackGraph ==
  ASSUME TypeOK, GraphInv, NEW r \in Request, Rollback(r)
  PROVE  GraphInv'
BY ClosedGraph, LocalGraph DEF Rollback

LEMMA BeginTurnGraph ==
  ASSUME TypeOK, GraphInv, NEW r \in Request, BeginTurn(r)
  PROVE  GraphInv'
<1>1. /\ UNCHANGED <<job, todo, store>>
      /\ pc[r] = "waiting" /\ pc'[r] \in {"edges", "reconcile"}
      /\ w'[r] = [w[r] EXCEPT !.ins = {Turn(r)}]
  BY DEF BeginTurn, Open, TypeOK, HandlersOK
<1>2. \A q \in Request \ {r} : pc'[q] = pc[q] /\ at'[q] = at[q] /\ w'[q] = w[q]
  BY DEF BeginTurn, TypeOK, HandlersOK
<1>3. DrawsInScope(r) /\ todo[r] = {}
  BY <1>1 DEF GraphInv, DrawsInScope
<1>4. /\ w'[r].ins = {Turn(r)} /\ w'[r].edges = w[r].edges
  BY <1>1 DEF TypeOK, HandlersOK, Writes
<1>5. Turn(r) \notin MemoryRow
  BY DEF Turn, MemoryRow
<1>6. DrawsInScope(r)'
  BY <1>1, <1>3, <1>4, <1>5, GraphStable DEF DrawsInScope, JoinsOneScope
<1> QED
  BY <1>1, <1>2, <1>6, LocalGraph

\* A candidate that is skipped leaves nothing to deactivate.
LEMMA ReconcileGraph ==
  ASSUME TypeOK, GraphInv, NEW r \in Request, Reconcile(r)
  PROVE  GraphInv'
<1> DEFINE k == KeyOf(ThisMemory(r))
<1>1. UNCHANGED <<job, w, store>>
  BY DEF Reconcile
<1>2. PICK d \in Decisions(Cand(ThisMemory(r)), Rivals(r, k)) :
         /\ todo' = [todo EXCEPT ![r] = d.deactivate]
         /\ IF d.insert
            THEN pc' = [pc EXCEPT ![r] = "apply"] /\ UNCHANGED at
            ELSE NextCandidate(r)
  BY DEF Reconcile
<1>3. /\ todo'[r] = d.deactivate
      /\ \A q \in Request \ {r} : todo'[q] = todo[q]
  BY <1>2 DEF TypeOK, HandlersOK
<1>4. CASE d.insert
  <2>1. pc'[r] = "apply" /\ at' = at /\ \A q \in Request \ {r} : pc'[q] = pc[q]
    BY <1>2, <1>4 DEF TypeOK, HandlersOK
  <2> QED
    BY <1>1, <1>3, <2>1, QuietGraph
<1>5. CASE ~d.insert
  <2>1. d.deactivate = {}
    BY <1>2, <1>5 DEF Decisions, Insert, Skip
  <2>2. \A q \in Request \ {r} : pc'[q] = pc[q] /\ at'[q] = at[q]
    BY <1>2, <1>5, NextCandidateGoes
  <2>3. DrawsInScope(r)'
    BY <1>1, <1>3, <2>1, GraphStable
    DEF GraphInv, DrawsInScope, JoinsOneScope
  <2> QED
    BY <1>1, <1>3, <2>2, <2>3, LocalGraph
<1> QED
  BY <1>4, <1>5

LEMMA DeactivateGraph ==
  ASSUME TypeOK, GraphInv, NEW r \in Request, Deactivate(r)
  PROVE  GraphInv'
<1>1. PICK x \in todo[r] :
         /\ todo' = [todo EXCEPT ![r] = @ \ {x}]
         /\ w' = IF x \in Visible(r)
                 THEN [w EXCEPT ![r].off = @ \cup {x}, ![r].on = @ \ {x}]
                 ELSE w
  BY DEF Deactivate
<1>2. UNCHANGED <<job, pc, at, store>> /\ pc[r] = "apply"
  BY DEF Deactivate
<1>3. \A q \in Request \ {r} : todo'[q] = todo[q] /\ w'[q] = w[q]
  BY <1>1 DEF TypeOK, HandlersOK
<1>4. /\ w'[r].ins = w[r].ins /\ w'[r].edges = w[r].edges
  BY <1>1 DEF TypeOK, HandlersOK, Writes
<1> QED
  BY <1>2, <1>3, <1>4, QuietGraph

LEMMA InsertMemoryGraph ==
  ASSUME TypeOK, GraphInv, NEW r \in Request, InsertMemory(r)
  PROVE  GraphInv'
<1>1. UNCHANGED <<job, todo, store>> /\ todo[r] = {}
  BY DEF InsertMemory
<1>2. /\ w'[r].ins = w[r].ins \cup {ThisMemory(r)} /\ w'[r].edges = w[r].edges
      /\ \A q \in Request \ {r} : w'[q] = w[q]
  BY DEF InsertMemory, TypeOK, HandlersOK, Writes
<1>3. \A q \in Request \ {r} : pc'[q] = pc[q] /\ at'[q] = at[q]
  BY NextEntityGoes DEF InsertMemory
<1>4. ThisMemory(r)[2] = r
  BY DEF ThisMemory, Memory
<1>5. DrawsInScope(r)'
  BY <1>1, <1>2, <1>4, GraphStable
  DEF GraphInv, DrawsInScope, JoinsOneScope
<1> QED
  BY <1>1, <1>2, <1>3, <1>5, LocalGraph

\* An entity is no memory.
LEMMA MentionEntityGraph ==
  ASSUME TypeOK, GraphInv, NEW r \in Request, MentionEntity(r)
  PROVE  GraphInv'
<1> DEFINE e == ThisEntity(r)
<1>1. UNCHANGED <<job, todo, store>> /\ pc[r] = "mentions"
  BY DEF MentionEntity
<1>2. /\ w'[r].ins \subseteq w[r].ins \cup {e} /\ w'[r].edges = w[r].edges
      /\ \A q \in Request \ {r} : w'[q] = w[q]
  BY DEF MentionEntity, TypeOK, HandlersOK, Writes
<1>3. \A q \in Request \ {r} : pc'[q] = pc[q] /\ at'[q] = at[q]
  BY NextEntityGoes DEF MentionEntity
<1>4. e \notin MemoryRow
  BY DEF ThisEntity, Entity, MemoryRow
<1>5. todo'[r] = {} /\ DrawsInScope(r)
  BY <1>1 DEF GraphInv, DrawsInScope
<1>6. DrawsInScope(r)'
  BY <1>1, <1>2, <1>4, <1>5, GraphStable
  DEF DrawsInScope, JoinsOneScope
<1> QED
  BY <1>1, <1>2, <1>3, <1>6, LocalGraph

\* Memories inserted together have one scope, and so have the peers.
LEMMA LinkSourceGraph ==
  ASSUME TypeOK, GraphInv, NEW r \in Request, LinkSource(r)
  PROVE  GraphInv'
<1> DEFINE m == ThisMemory(r)
           drawn == {<<m, x, "co_extracted">> : x \in Inserted(r) \ {m}}
<1>1. /\ UNCHANGED <<job, pc, store>> /\ pc[r] = "edges" /\ todo[r] = {}
      /\ at'[r] = at[r] + 1
      /\ \A q \in Request \ {r} : at'[q] = at[q]
  BY DEF LinkSource, TypeOK, HandlersOK
<1>2. /\ w'[r].ins = w[r].ins
      /\ w'[r].edges \subseteq w[r].edges \cup drawn
      /\ todo'[r] \subseteq Peers(r, m)
      /\ \A q \in Request \ {r} : w'[q] = w[q] /\ todo'[q] = todo[q]
  BY DEF LinkSource, TypeOK, HandlersOK, Writes
<1>3. m[2] = r /\ KeyOf(m)[1] = ScopeOf(job[r])
  BY ScopeOfRow DEF ThisMemory, Memory
<1>4. DrawsInScope(r)
  BY DEF GraphInv
<1>5. \A e \in drawn : JoinsOneScope(e)
  <2>1. \A x \in Inserted(r) : KeyOf(x)[1] = ScopeOf(job[r])
    BY <1>4, ScopeOfRow DEF DrawsInScope, Inserted
  <2> QED
    BY <1>3, <2>1 DEF JoinsOneScope
<1>6. \A x \in todo'[r] : KeyOf(x)[1] = ScopeOf(job[r]) /\ x # m
  BY <1>2, <1>3 DEF Peers
<1>7. Memory(r, at'[r] - 1) = m
  BY <1>1 DEF ThisMemory, Memory, TypeOK, HandlersOK
<1>8. DrawsInScope(r)'
  BY <1>1, <1>2, <1>4, <1>5, <1>6, <1>7, GraphStable
  DEF DrawsInScope, JoinsOneScope, Memory
<1> QED
  BY <1>1, <1>2, <1>8, LocalGraph

LEMMA LinkPeerGraph ==
  ASSUME TypeOK, GraphInv, NEW r \in Request, LinkPeer(r)
  PROVE  GraphInv'
<1> DEFINE m == Memory(r, at[r] - 1)
<1>1. UNCHANGED <<job, pc, at, store>> /\ pc[r] = "edges"
  BY DEF LinkPeer
<1>2. PICK x \in todo[r] :
         /\ todo' = [todo EXCEPT ![r] = @ \ {x}]
         /\ w' = [w EXCEPT ![r].share = @ \cup {x},
                           ![r].edges = @ \cup {<<m, x, "same_subject">>,
                                                <<x, m, "same_subject">>}]
  BY DEF LinkPeer
<1>3. /\ w'[r].ins = w[r].ins
      /\ w'[r].edges = w[r].edges \cup {<<m, x, "same_subject">>, <<x, m, "same_subject">>}
      /\ todo'[r] \subseteq todo[r]
      /\ \A q \in Request \ {r} : w'[q] = w[q] /\ todo'[q] = todo[q]
  BY <1>2 DEF TypeOK, HandlersOK, Writes
<1>4. DrawsInScope(r)
  BY DEF GraphInv
<1>5. KeyOf(x)[1] = ScopeOf(job[r]) /\ x # m /\ KeyOf(m)[1] = ScopeOf(job[r])
  BY <1>1, <1>2, <1>4, ScopeOfRow DEF DrawsInScope
<1>6. JoinsOneScope(<<m, x, "same_subject">>) /\ JoinsOneScope(<<x, m, "same_subject">>)
  BY <1>5 DEF JoinsOneScope
<1>7. DrawsInScope(r)'
  BY <1>1, <1>3, <1>4, <1>6, GraphStable
  DEF DrawsInScope, JoinsOneScope, Memory
<1> QED
  BY <1>1, <1>3, <1>7, LocalGraph

LEMMA BeginDeleteGraph ==
  ASSUME TypeOK, GraphInv, NEW r \in Request, BeginDeleteSession(r) \/ BeginDeleteUser(r)
  PROVE  GraphInv'
<1>1. /\ UNCHANGED <<job, at, todo, w, store>>
      /\ pc'[r] \in {"affected", "begin"} /\ \A q \in Request \ {r} : pc'[q] = pc[q]
  BY DEF BeginDeleteSession, BeginDeleteUser, control, TypeOK, HandlersOK
<1> QED
  BY <1>1, QuietGraph

LEMMA NextStatementGraph ==
  ASSUME TypeOK, GraphInv, NEW r \in Request, NextStatement(r)
  PROVE  GraphInv'
<1>1. PICK next \in {"memories", "successors", "turns", "sources", "entities", "reset",
                     "activate", "commit"} : Statement(r, next)
  BY DEF NextStatement, SessionPlan, UserPlan
<1>2. /\ UNCHANGED <<job, at, w, store>> /\ pc'[r] = next
      /\ \A q \in Request \ {r} : pc'[q] = pc[q] /\ todo'[q] = todo[q]
  BY <1>1 DEF Statement, TypeOK, HandlersOK
<1> QED
  BY <1>2, QuietGraph

LEMMA VisitRowGraph ==
  ASSUME TypeOK, GraphInv, NEW r \in Request, VisitRow(r)
  PROVE  GraphInv'
<1>1. /\ UNCHANGED <<job, pc, at, store>> /\ pc[r] \in Deleting \cup Updating
      /\ \A q \in Request \ {r} : todo'[q] = todo[q]
  BY DEF VisitRow, TypeOK, HandlersOK
<1>2. PICK x \in todo[r] :
         w' = IF x \notin Visible(r) THEN w
              ELSE IF pc[r] \in Deleting THEN [w EXCEPT ![r].del = @ \cup {x}]
              ELSE IF pc[r] = "reset"
                   THEN [w EXCEPT ![r].off = @ \cup {x}, ![r].on = @ \ {x}]
              ELSE IF pc[r] = "activate"
                   THEN [w EXCEPT ![r].on = @ \cup {x}, ![r].off = @ \ {x}]
              ELSE [w EXCEPT ![r].touch = @ \cup {x}]
  BY DEF VisitRow
<1>3. /\ w'[r].ins = w[r].ins /\ w'[r].edges = w[r].edges
      /\ \A q \in Request \ {r} : w'[q] = w[q]
  BY <1>2 DEF TypeOK, HandlersOK, Writes
<1> QED
  BY <1>1, <1>3, QuietGraph DEF Deleting, Updating

LEMMA StutterGraph == ASSUME GraphInv, UNCHANGED vars PROVE GraphInv'
<1>1. UNCHANGED <<job, pc, at, todo, w, store>>
  BY DEF vars, control
<1>2. EdgesInScope'
  BY <1>1, GraphStable DEF GraphInv, EdgesInScope, JoinsOneScope, store
<1>3. ASSUME NEW q \in Request PROVE DrawsInScope(q)'
  BY <1>1, GraphStable DEF GraphInv, DrawsInScope, JoinsOneScope, Memory
<1> QED
  BY <1>2, <1>3 DEF GraphInv

----------------------------------------------------------------------------
\* Mentions.

\* The names a transaction still has to mention are those of the candidate it works
\* on, and what it mentioned was named.
MentionsItsOwn(r) ==
    /\ \A m \in w[r].mentions : m[2] \in Named(m[1])
    /\ pc[r] = "mentions" =>
         \A i \in DOMAIN names[r] : Entity(ScopeOf(job[r]), names[r][i]) \in Named(ThisMemory(r))

MentionInv ==
    /\ \A m \in mentions : m[2] \in Named(m[1])
    /\ \A r \in Request : MentionsItsOwn(r)

LEMMA NamedStable ==
  ASSUME job' = job
  PROVE  (\A x : Named(x)' = Named(x)) /\ \A r : ScopeOf(job[r])' = ScopeOf(job[r])
BY DEF Named, Cand, KeyOf, ScopeOf, Entity

\* A request that mentions nothing and begins no list of names.
QuietNames(q) ==
    /\ w'[q].mentions \subseteq w[q].mentions
    /\ pc'[q] = "mentions" => pc[q] = "mentions" /\ at'[q] = at[q] /\ names'[q] = names[q]

LEMMA QuietMentions ==
  ASSUME NEW q \in Request, MentionsItsOwn(q), job' = job, QuietNames(q)
  PROVE  MentionsItsOwn(q)'
BY NamedStable DEF MentionsItsOwn, QuietNames, ThisMemory, Memory

\* Of the entities of a new memory the first is mentioned first, and each names the
\* memory's own.
LEMMA InsertMentions ==
  ASSUME TypeOK, NEW r \in Request, MentionsItsOwn(r), InsertMemory(r)
  PROVE  MentionsItsOwn(r)'
<1> DEFINE x == ThisMemory(r)
<1>1. job' = job /\ w'[r].mentions = w[r].mentions /\ NextEntity(r, Cand(x).entities)
  BY DEF InsertMemory, TypeOK, HandlersOK, Writes
<1>2. names'[r] = Cand(x).entities /\ (pc'[r] = "mentions" => at' = at)
  BY <1>1 DEF NextEntity, NextCandidate, TypeOK, HandlersOK
<1>3. \A i \in DOMAIN Cand(x).entities : Entity(ScopeOf(job[r]), Cand(x).entities[i]) \in Named(x)
  BY ScopeOfRow DEF Named, ThisMemory
<1>4. pc'[r] = "mentions" => ThisMemory(r)' = x
  BY <1>2 DEF ThisMemory, Memory
<1> QED
  BY <1>1, <1>2, <1>3, <1>4, NamedStable DEF MentionsItsOwn

LEMMA EntityMentions ==
  ASSUME TypeOK, NEW r \in Request, MentionsItsOwn(r), MentionEntity(r)
  PROVE  MentionsItsOwn(r)'
<1> DEFINE x == ThisMemory(r)
           e == ThisEntity(r)
<1>1. /\ job' = job /\ w'[r].mentions = w[r].mentions \cup {<<x, e>>}
      /\ pc[r] = "mentions" /\ NextEntity(r, Tail(names[r]))
  BY DEF MentionEntity, TypeOK, HandlersOK, Writes
<1>2. names[r] \in Seq(Name) /\ names[r] # <<>>
  BY <1>1 DEF TypeOK, HandlersOK, Placed
<1>3. names'[r] = Tail(names[r]) /\ (pc'[r] = "mentions" => at' = at)
  BY <1>1 DEF NextEntity, NextCandidate, TypeOK, HandlersOK
<1>4. /\ 1 \in DOMAIN names[r] /\ Head(names[r]) = names[r][1]
      /\ \A i \in DOMAIN Tail(names[r]) : i + 1 \in DOMAIN names[r]
                                          /\ Tail(names[r])[i] = names[r][i + 1]
  BY <1>2
<1>5. e \in Named(x)
  BY <1>1, <1>4 DEF MentionsItsOwn, ThisEntity
<1>6. \A i \in DOMAIN names'[r] : Entity(ScopeOf(job[r]), names'[r][i]) \in Named(x)
  BY <1>1, <1>3, <1>4 DEF MentionsItsOwn
<1>7. pc'[r] = "mentions" => ThisMemory(r)' = x
  BY <1>3 DEF ThisMemory, Memory
<1> QED
  BY <1>1, <1>5, <1>6, <1>7, NamedStable DEF MentionsItsOwn

\* What a step of r leaves of the other requests, and of the tables if it is not a
\* commit.
LEMMA MentionFrame ==
  ASSUME TypeOK, NEW r \in Request,
         TurnStep(r) \/ DeleteStep(r) \/ DeadlockVictim(r) \/ Fail(r)
  PROVE  /\ job' = job
         /\ mentions' \subseteq mentions \cup w[r].mentions
         /\ \A q \in Request \ {r} : QuietNames(q)
         /\ InsertMemory(r) \/ MentionEntity(r) \/ QuietNames(r)
<1> USE DEF QuietNames, TypeOK, HandlersOK
<1>1. CASE BeginTurn(r)
  BY <1>1 DEF BeginTurn, Open, store, Writes
<1>2. CASE Reconcile(r)
  <2>1. UNCHANGED <<job, names, w, store>> /\ pc[r] = "reconcile"
    BY <1>2 DEF Reconcile
  <2>2. /\ pc'[r] \in {"apply", "reconcile", "edges"}
        /\ \A q \in Request \ {r} : pc'[q] = pc[q] /\ at'[q] = at[q]
    BY <1>2, NextCandidateGoes DEF Reconcile
  <2> QED
    BY <2>1, <2>2 DEF store
<1>3. CASE Deactivate(r)
  BY <1>3 DEF Deactivate, store, Writes
<1>4. CASE InsertMemory(r)
  <2>1. UNCHANGED <<job, store>> /\ \A q \in Request \ {r} : w'[q] = w[q] /\ names'[q] = names[q]
    BY <1>4 DEF InsertMemory, NextEntity
  <2>2. \A q \in Request \ {r} : pc'[q] = pc[q] /\ at'[q] = at[q]
    BY <1>4, NextEntityGoes DEF InsertMemory
  <2> QED
    BY <1>4, <2>1, <2>2 DEF store
<1>5. CASE MentionEntity(r)
  <2>1. UNCHANGED <<job, store>> /\ \A q \in Request \ {r} : w'[q] = w[q] /\ names'[q] = names[q]
    BY <1>5 DEF MentionEntity, NextEntity
  <2>2. \A q \in Request \ {r} : pc'[q] = pc[q] /\ at'[q] = at[q]
    BY <1>5, NextEntityGoes DEF MentionEntity
  <2> QED
    BY <1>5, <2>1, <2>2 DEF store
<1>6. CASE LinkSource(r)
  <2>1. UNCHANGED <<job, names, store>> /\ pc[r] = "edges"
    BY <1>6 DEF LinkSource
  <2>2. \A q \in Request \ {r} : pc'[q] = pc[q] /\ at'[q] = at[q]
    BY <1>6 DEF LinkSource
  <2>3. pc'[r] # "mentions"
    BY <1>6 DEF LinkSource
  <2>4. \A q \in Request : w'[q].mentions = w[q].mentions
    <3>1. \/ w' = w
          \/ \E E : w' = [w EXCEPT ![r].edges = @ \cup E]
      BY <1>6 DEF LinkSource
    <3>2. w \in [Request -> Writes]
      OBVIOUS
    <3>3. ASSUME NEW E, w' = [w EXCEPT ![r].edges = @ \cup E], NEW q \in Request
          PROVE  w'[q].mentions = w[q].mentions
      <4>1. CASE q = r
        <5> HIDE DEF TypeOK, HandlersOK
        <5>1. w[r] \in Writes
          BY <3>2
        <5>2. w'[r] = [w[r] EXCEPT !.edges = @ \cup E]
          BY <3>2, <3>3
        <5> QED
          BY <4>1, <5>1, <5>2 DEF Writes
      <4>2. CASE q # r
        BY <3>2, <3>3, <4>2
      <4> QED
        BY <4>1, <4>2
    <3> QED
      BY <3>1, <3>3
  <2> QED
    BY <2>1, <2>2, <2>3, <2>4 DEF store
<1>7. CASE LinkPeer(r)
  BY <1>7 DEF LinkPeer, store, Writes
<1>8. CASE Rollback(r)
  BY <1>8 DEF Rollback, Close, store, NoWrites
<1>9. CASE Commit(r)
  BY <1>9 DEF Commit, Close, NoWrites
<1>10. CASE BeginDeleteSession(r) \/ BeginDeleteUser(r)
  BY <1>10 DEF BeginDeleteSession, BeginDeleteUser, control, store
<1>11. CASE NextStatement(r)
  <2>1. PICK next \in {"memories", "successors", "turns", "sources", "entities", "reset",
                       "activate", "commit"} : Statement(r, next)
    BY <1>11 DEF NextStatement, SessionPlan, UserPlan
  <2> QED
    BY <2>1 DEF Statement, store
<1>12. CASE VisitRow(r)
  <2>1. UNCHANGED <<job, pc, at, names, store>>
    BY <1>12 DEF VisitRow
  <2>2. PICK x \in todo[r] :
         w' = IF x \notin Visible(r) THEN w
              ELSE IF pc[r] \in Deleting THEN [w EXCEPT ![r].del = @ \cup {x}]
              ELSE IF pc[r] = "reset"
                   THEN [w EXCEPT ![r].off = @ \cup {x}, ![r].on = @ \ {x}]
              ELSE IF pc[r] = "activate"
                   THEN [w EXCEPT ![r].on = @ \cup {x}, ![r].off = @ \ {x}]
              ELSE [w EXCEPT ![r].touch = @ \cup {x}]
    BY <1>12 DEF VisitRow
  <2> QED
    BY <2>1, <2>2 DEF store, Writes
<1> QED
  BY <1>1, <1>2, <1>3, <1>4, <1>5, <1>6, <1>7, <1>8, <1>9, <1>10, <1>11, <1>12
  DEF TurnStep, DeleteStep, ForeignKeyError, CommitTurn, CommitDelete, DeadlockVictim, Fail

LEMMA StepMentions == TypeOK /\ MentionInv /\ [Next]_vars => MentionInv'
<1> SUFFICES ASSUME TypeOK, MentionInv, [Next]_vars PROVE MentionInv'
  OBVIOUS
<1>1. CASE UNCHANGED vars
  <2>1. job' = job /\ mentions' = mentions /\ \A q \in Request : QuietNames(q)
    BY <1>1 DEF vars, control, store, QuietNames
  <2> QED
    BY <2>1, QuietMentions, NamedStable DEF MentionInv
<1>2. ASSUME NEW r \in Request, TurnStep(r) \/ DeleteStep(r) \/ DeadlockVictim(r) \/ Fail(r)
      PROVE  MentionInv'
  <2>1. /\ job' = job /\ mentions' \subseteq mentions \cup w[r].mentions
        /\ \A q \in Request \ {r} : QuietNames(q)
        /\ InsertMemory(r) \/ MentionEntity(r) \/ QuietNames(r)
    BY <1>2, MentionFrame
  <2>2. \A m \in mentions' : m[2] \in Named(m[1])'
    BY <2>1, NamedStable DEF MentionInv, MentionsItsOwn
  <2>3. \A q \in Request \ {r} : MentionsItsOwn(q)'
    BY <2>1, QuietMentions DEF MentionInv
  <2>4. MentionsItsOwn(r)'
    BY <2>1, QuietMentions, InsertMentions, EntityMentions DEF MentionInv
  <2> QED
    BY <2>2, <2>3, <2>4 DEF MentionInv
<1> QED
  BY <1>1, <1>2 DEF Next

\* Whatever turns and deletes interleave to, no edge joins two scopes and no memory
\* mentions an entity of another, nor one its candidate did not name: recall may walk
\* both unchecked.
THEOREM GraphNeverLeavesScope == Spec => []GraphStaysInScope
<1>1. Init => GraphInv /\ MentionInv
  BY InitGraph DEF Init, MentionInv, MentionsItsOwn, StoreInit, NoWrites
<1>2. TypeOK /\ GraphInv /\ [Next]_vars => GraphInv'
  <2> SUFFICES ASSUME TypeOK, GraphInv, [Next]_vars PROVE GraphInv'
    OBVIOUS
  <2>1. CASE UNCHANGED vars
    BY <2>1, StutterGraph
  <2>2. ASSUME NEW r \in Request, TurnStep(r) PROVE GraphInv'
    BY <2>2, BeginTurnGraph, ReconcileGraph, DeactivateGraph, InsertMemoryGraph,
       MentionEntityGraph, LinkSourceGraph, LinkPeerGraph, RollbackGraph, CommitGraph
    DEF TurnStep, ForeignKeyError, CommitTurn
  <2>3. ASSUME NEW r \in Request, DeleteStep(r) PROVE GraphInv'
    BY <2>3, BeginDeleteGraph, NextStatementGraph, VisitRowGraph, CommitGraph
    DEF DeleteStep, CommitDelete
  <2>4. ASSUME NEW r \in Request, DeadlockVictim(r) \/ Fail(r) PROVE GraphInv'
    BY <2>4, RollbackGraph DEF DeadlockVictim, Fail
  <2> QED
    BY <2>1, <2>2, <2>3, <2>4 DEF Next
<1>3. GraphInv /\ MentionInv => GraphStaysInScope
  BY DEF GraphInv, MentionInv, GraphStaysInScope, EdgesInScope, JoinsOneScope
<1> QED
  BY <1>1, <1>2, <1>3, StepMentions, TypeCorrect, PTL DEF Spec

----------------------------------------------------------------------------
\* Links of history, and the way back of edges.

SameKey(p) == p[1] # p[2] /\ KeyOf(p[1]) = KeyOf(p[2])

Back(e) == <<e[2], e[1], e[3]>>

\* What a transaction will add to the history stays in its key, and so does the
\* row its pending INSERT supersedes.
LinksInKey(r) ==
    /\ \A p \in w[r].chain : SameKey(p)
    /\ pc[r] = "apply" => \A y \in sup[r] : SameKey(<<ThisMemory(r), y>>)

\* Edges between peers are drawn both ways in one step; edges within a turn are
\* drawn from one source after the other, so each has its way back once the
\* other end has had its turn.
LinksBack(r) ==
    /\ \A x \in Inserted(r) : x[2] = r
    /\ pc[r] # "edges" => w[r].edges = {}
    /\ \A e \in w[r].edges :
          \/ e[3] = "same_subject" /\ Back(e) \in w[r].edges
          \/ e[3] = "co_extracted" /\ e[1] \in Inserted(r) /\ e[2] \in Inserted(r) /\ e[1] # e[2]
    /\ pc[r] = "edges" =>
          \A x, y \in Inserted(r) :
              x # y /\ x[3] < at[r] => <<x, y, "co_extracted">> \in w[r].edges

Links(r) == LinksInKey(r) /\ LinksBack(r)

LinkInv == HistoryStaysInKey /\ EdgesGoBothWays /\ \A r \in Request : Links(r)

\* The key of a memory never changes.
LEMMA LinksStable ==
  ASSUME job' = job
  PROVE  /\ \A x : KeyOf(x)' = KeyOf(x)
         /\ \A p : SameKey(p)' = SameKey(p)
BY DEF KeyOf, SameKey, ScopeOf, Cand

LEMMA InitLinks == ASSUME StoreInit PROVE LinkInv
BY DEF StoreInit, LinkInv, HistoryStaysInKey, EdgesGoBothWays, Links, LinksInKey, LinksBack,
       Inserted, NoWrites

\* A step inside the transaction of r.
LEMMA LocalLinks ==
  ASSUME LinkInv, NEW r \in Request, job' = job, UNCHANGED store, Links(r)',
         \A q \in Request \ {r} : /\ pc'[q] = pc[q] /\ at'[q] = at[q] /\ sup'[q] = sup[q]
                                  /\ w'[q] = w[q]
  PROVE  LinkInv'
<1>1. HistoryStaysInKey' /\ EdgesGoBothWays'
  BY LinksStable DEF LinkInv, HistoryStaysInKey, EdgesGoBothWays, store
<1>2. ASSUME NEW q \in Request \ {r} PROVE Links(q)'
  <2>1. LinksInKey(q) /\ LinksBack(q)
    BY DEF LinkInv, Links
  <2>2. LinksInKey(q)'
    BY <2>1, LinksStable DEF LinksInKey, ThisMemory
  <2>3. LinksBack(q)'
    BY <2>1 DEF LinksBack, Inserted, Back
  <2> QED
    BY <2>2, <2>3 DEF Links
<1> QED
  BY <1>1, <1>2 DEF LinkInv

\* A step that links nothing, before the edges.
LEMMA QuietLinks ==
  ASSUME LinkInv, NEW r \in Request, job' = job, UNCHANGED store,
         pc[r] # "edges", pc'[r] \notin {"apply", "edges"},
         w'[r].ins \cap MemoryRow = w[r].ins \cap MemoryRow,
         w'[r].edges = w[r].edges, w'[r].chain = w[r].chain,
         \A q \in Request \ {r} : /\ pc'[q] = pc[q] /\ at'[q] = at[q] /\ sup'[q] = sup[q]
                                  /\ w'[q] = w[q]
  PROVE  LinkInv'
<1>1. LinksInKey(r) /\ LinksBack(r)
  BY DEF LinkInv, Links
<1>2. LinksInKey(r)'
  BY <1>1, LinksStable DEF LinksInKey
<1>3. LinksBack(r)'
  BY <1>1 DEF LinksBack, Inserted
<1> QED
  BY <1>2, <1>3, LocalLinks DEF Links

\* The end of a transaction: r has nothing left to link.
LEMMA ClosedLinks ==
  ASSUME TypeOK, NEW r \in Request, NEW outcome \in {"done", "failed"}, Close(r, outcome)
  PROVE  /\ job' = job /\ Links(r)'
         /\ \A q \in Request \ {r} : /\ pc'[q] = pc[q] /\ at'[q] = at[q]
                                     /\ sup'[q] = sup[q] /\ w'[q] = w[q]
<1>1. pc'[r] = outcome /\ w'[r] = NoWrites
  BY DEF Close, TypeOK, HandlersOK
<1>2. Links(r)'
  BY <1>1 DEF Links, LinksInKey, LinksBack, Inserted, NoWrites
<1> QED
  BY <1>2 DEF Close, TypeOK, HandlersOK

LEMMA RollbackLinks ==
  ASSUME TypeOK, LinkInv, NEW r \in Request, Rollback(r)
  PROVE  LinkInv'
BY ClosedLinks, LocalLinks DEF Rollback

\* At the commit every edge of the transaction has its way back.
LEMMA CommitLinks ==
  ASSUME TypeOK, LinkInv, NEW r \in Request, Commit(r),
         pc[r] = "edges" => at[r] > Len(cands(r))
  PROVE  LinkInv'
<1>1. /\ Close(r, "done")
      /\ supersedes' \subseteq supersedes \cup w[r].chain
      /\ edges' = {e \in edges \cup w[r].edges : e[1] \in Visible(r) /\ e[2] \in Visible(r)}
  BY DEF Commit
<1>2. /\ job' = job /\ Links(r)'
      /\ \A q \in Request \ {r} : /\ pc'[q] = pc[q] /\ at'[q] = at[q]
                                  /\ sup'[q] = sup[q] /\ w'[q] = w[q]
  BY <1>1, ClosedLinks
<1>3. LinksInKey(r) /\ LinksBack(r)
  BY DEF LinkInv, Links
<1>4. HistoryStaysInKey'
  <2>1. \A p \in supersedes' : SameKey(p)
    BY <1>1, <1>3 DEF LinkInv, HistoryStaysInKey, LinksInKey, SameKey
  <2> QED
    BY <1>2, <2>1, LinksStable DEF HistoryStaysInKey, SameKey
<1>5. \A e \in w[r].edges : Back(e) \in w[r].edges
  <2> SUFFICES ASSUME NEW e \in w[r].edges, e[3] = "co_extracted" PROVE Back(e) \in w[r].edges
    BY <1>3 DEF LinksBack
  <2>1. pc[r] = "edges" /\ e[1] \in Inserted(r) /\ e[2] \in Inserted(r) /\ e[1] # e[2]
    BY <1>3 DEF LinksBack
  <2>2. e[2][2] = r /\ e[2][3] \in 1..Len(cands(r))
    BY <1>3, <2>1 DEF LinksBack, Inserted, TypeOK, Stated
  <2>3. Len(cands(r)) \in Nat /\ at[r] \in Nat
    BY StoreAssumption DEF TypeOK, HandlersOK, Job, cands
  <2>4. e[2][3] < at[r]
    BY <2>1, <2>2, <2>3
  <2> QED
    BY <1>3, <2>1, <2>4 DEF LinksBack, Back
<1>6. EdgesGoBothWays'
  BY <1>1, <1>5 DEF LinkInv, EdgesGoBothWays, Back
<1>7. ASSUME NEW q \in Request \ {r} PROVE Links(q)'
  <2>1. LinksInKey(q) /\ LinksBack(q)
    BY DEF LinkInv, Links
  <2>2. LinksInKey(q)'
    BY <1>2, <2>1, LinksStable DEF LinksInKey, ThisMemory
  <2>3. LinksBack(q)'
    BY <1>2, <2>1 DEF LinksBack, Inserted, Back
  <2> QED
    BY <2>2, <2>3 DEF Links
<1> QED
  BY <1>2, <1>4, <1>6, <1>7 DEF LinkInv

\* The loop over the candidates leaves a transaction that has drawn no edge, and
\* whose memories are still to be visited.
LEMMA BodyLinks ==
  ASSUME TypeOK, LinkInv, NEW r \in Request, NEW m, job' = job, UNCHANGED store,
         pc[r] # "edges", pc'[r] \in {"reconcile", "mentions", "edges"},
         pc'[r] = "edges" => at'[r] = 1,
         m[2] = r, m[3] \in 1..Len(cands(r)),
         w'[r].ins \cap MemoryRow \subseteq (w[r].ins \cap MemoryRow) \cup {m},
         w'[r].edges = w[r].edges, \A p \in w'[r].chain : SameKey(p),
         \A q \in Request \ {r} : /\ pc'[q] = pc[q] /\ at'[q] = at[q] /\ sup'[q] = sup[q]
                                  /\ w'[q] = w[q]
  PROVE  LinkInv'
<1>1. LinksBack(r)
  BY DEF LinkInv, Links
<1>2. LinksInKey(r)'
  BY LinksStable DEF LinksInKey
<1>3. w'[r].edges = {} /\ \A x \in Inserted(r)' : x[2] = r
  BY <1>1 DEF LinksBack, Inserted
<1>4. Len(cands(r)) \in Nat
  BY StoreAssumption DEF TypeOK, HandlersOK, Job, cands
<1>5. \A x \in Inserted(r) : x[3] \in 1..Len(cands(r))
  BY <1>1 DEF LinksBack, Inserted, TypeOK, Stated
<1>6. \A x \in Inserted(r)' : x[3] \in 1..Len(cands(r))
  BY <1>5 DEF Inserted
<1>7. \A x \in Inserted(r)' : ~(x[3] < 1)
  BY <1>4, <1>6
<1>8. LinksBack(r)'
  BY <1>3, <1>7 DEF LinksBack
<1> QED
  BY <1>2, <1>8, LocalLinks DEF Links

LEMMA CandidateLoop ==
  ASSUME TypeOK, NEW r \in Request, NextCandidate(r)
  PROVE  /\ pc'[r] \in {"reconcile", "edges"}
         /\ pc'[r] = "edges" => at'[r] = 1
         /\ \A q \in Request \ {r} : pc'[q] = pc[q] /\ at'[q] = at[q]
BY DEF NextCandidate, TypeOK, HandlersOK

LEMMA EntityLoop ==
  ASSUME TypeOK, NEW r \in Request, NEW rest, NextEntity(r, rest)
  PROVE  /\ pc'[r] \in {"reconcile", "mentions", "edges"}
         /\ pc'[r] = "edges" => at'[r] = 1
         /\ \A q \in Request \ {r} : pc'[q] = pc[q] /\ at'[q] = at[q]
<1>1. CASE rest = <<>>
  BY <1>1, CandidateLoop DEF NextEntity
<1>2. CASE rest # <<>>
  BY <1>2 DEF NextEntity, TypeOK, HandlersOK
<1> QED
  BY <1>1, <1>2

LEMMA BeginTurnLinks ==
  ASSUME TypeOK, LinkInv, NEW r \in Request, BeginTurn(r)
  PROVE  LinkInv'
<1>1. /\ UNCHANGED <<job, sup, store>>
      /\ pc[r] = "waiting" /\ pc'[r] \in {"edges", "reconcile"} /\ at'[r] = 1
      /\ w'[r] = [w[r] EXCEPT !.ins = {Turn(r)}]
  BY DEF BeginTurn, Open, TypeOK, HandlersOK
<1>2. \A q \in Request \ {r} : pc'[q] = pc[q] /\ at'[q] = at[q] /\ w'[q] = w[q]
  BY DEF BeginTurn, TypeOK, HandlersOK
<1>3. LinksInKey(r) /\ LinksBack(r)
  BY DEF LinkInv, Links
<1>4. w'[r].ins = {Turn(r)} /\ w'[r].edges = w[r].edges /\ w'[r].chain = w[r].chain
  BY <1>1 DEF TypeOK, HandlersOK, Writes
<1>5. Inserted(r)' = {}
  BY <1>4 DEF Inserted, Turn, MemoryRow
<1>6. LinksInKey(r)'
  BY <1>1, <1>3, <1>4, LinksStable DEF LinksInKey
<1>7. LinksBack(r)'
  BY <1>1, <1>3, <1>4, <1>5 DEF LinksBack
<1> QED
  BY <1>1, <1>2, <1>6, <1>7, LocalLinks DEF Links

\* What a new row supersedes is an active row of its key that states another
\* object, for an equal one would have made it a skip.
LEMMA DecisionInKey ==
  ASSUME NEW m, NEW r \in Request, NEW d \in Decisions(Cand(m), Rivals(r, KeyOf(m)))
  PROVE  \A y \in d.supersedes : SameKey(<<m, y>>)
<1> DEFINE c == Cand(m)
           actives == Rivals(r, KeyOf(m))
<1>1. CASE \E x \in actives : Cand(x).object = c.object
  BY <1>1 DEF Decisions, Skip
<1>2. CASE ~\E x \in actives : Cand(x).object = c.object
  <2>1. PICK gone \in Replaced(c, actives) : d \in {Insert(head, gone) : head \in Heads(gone)}
    BY <1>2 DEF Decisions
  <2>2. gone \subseteq actives
    BY <2>1 DEF Replaced, Quoted, Latest
  <2>3. d.supersedes \subseteq gone
    BY <2>1 DEF Insert, Heads, Latest
  <2> QED
    BY <1>2, <2>2, <2>3 DEF SameKey, Rivals
<1> QED
  BY <1>1, <1>2

LEMMA ReconcileLinks ==
  ASSUME TypeOK, LinkInv, NEW r \in Request, Reconcile(r)
  PROVE  LinkInv'
<1> DEFINE m == ThisMemory(r)
<1>1. UNCHANGED <<job, w, store>> /\ pc[r] = "reconcile"
  BY DEF Reconcile
<1>2. PICK d \in Decisions(Cand(m), Rivals(r, KeyOf(m))) :
         /\ sup' = [sup EXCEPT ![r] = d.supersedes]
         /\ IF d.insert
            THEN pc' = [pc EXCEPT ![r] = "apply"] /\ UNCHANGED at
            ELSE NextCandidate(r)
  BY DEF Reconcile
<1>3. /\ sup'[r] = d.supersedes
      /\ \A q \in Request \ {r} : sup'[q] = sup[q]
  BY <1>2 DEF TypeOK, HandlersOK
<1>4. LinksInKey(r) /\ LinksBack(r)
  BY DEF LinkInv, Links
<1>5. CASE d.insert
  <2>1. pc'[r] = "apply" /\ at' = at /\ \A q \in Request \ {r} : pc'[q] = pc[q]
    BY <1>2, <1>5 DEF TypeOK, HandlersOK
  <2>2. \A y \in sup'[r] : SameKey(<<m, y>>)
    BY <1>3, DecisionInKey
  <2>3. LinksInKey(r)'
    BY <1>1, <1>4, <2>1, <2>2, LinksStable DEF LinksInKey, ThisMemory
  <2>4. LinksBack(r)'
    BY <1>1, <1>4, <2>1 DEF LinksBack, Inserted
  <2> QED
    BY <1>1, <1>3, <2>1, <2>3, <2>4, LocalLinks DEF Links
<1>6. CASE ~d.insert
  <2>1. /\ pc'[r] \in {"reconcile", "edges"}
        /\ pc'[r] = "edges" => at'[r] = 1
        /\ \A q \in Request \ {r} : pc'[q] = pc[q] /\ at'[q] = at[q]
    BY <1>2, <1>6, CandidateLoop
  <2>2. at[r] \in 1..Len(cands(r))
    BY <1>1 DEF TypeOK, Placed
  <2>3. m[2] = r /\ m[3] \in 1..Len(cands(r))
    BY <2>2, ThisMemoryStated
  <2> QED
    BY <1>1, <1>3, <1>4, <2>1, <2>3, BodyLinks DEF LinksInKey
<1> QED
  BY <1>5, <1>6

LEMMA DeactivateLinks ==
  ASSUME TypeOK, LinkInv, NEW r \in Request, Deactivate(r)
  PROVE  LinkInv'
<1>1. UNCHANGED <<job, pc, at, sup, store>> /\ pc[r] = "apply"
  BY DEF Deactivate
<1>2. PICK x \in todo[r] :
         w' = IF x \in Visible(r)
              THEN [w EXCEPT ![r].off = @ \cup {x}, ![r].on = @ \ {x}]
              ELSE w
  BY DEF Deactivate
<1>3. /\ w'[r].ins = w[r].ins /\ w'[r].edges = w[r].edges /\ w'[r].chain = w[r].chain
      /\ \A q \in Request \ {r} : w'[q] = w[q]
  BY <1>2 DEF TypeOK, HandlersOK, Writes
<1>4. LinksInKey(r) /\ LinksBack(r)
  BY DEF LinkInv, Links
<1>5. LinksInKey(r)'
  BY <1>1, <1>3, <1>4, LinksStable DEF LinksInKey, ThisMemory
<1>6. LinksBack(r)'
  BY <1>1, <1>3, <1>4 DEF LinksBack, Inserted
<1> QED
  BY <1>1, <1>3, <1>5, <1>6, LocalLinks DEF Links

LEMMA InsertMemoryLinks ==
  ASSUME TypeOK, LinkInv, NEW r \in Request, InsertMemory(r)
  PROVE  LinkInv'
<1> DEFINE m == ThisMemory(r)
<1>1. UNCHANGED <<job, store>> /\ pc[r] = "apply"
  BY DEF InsertMemory
<1>2. /\ w'[r].ins = w[r].ins \cup {m} /\ w'[r].edges = w[r].edges
      /\ w'[r].chain = w[r].chain \cup ({m} \X sup[r])
      /\ \A q \in Request \ {r} : w'[q] = w[q] /\ sup'[q] = sup[q]
  BY DEF InsertMemory, TypeOK, HandlersOK, Writes
<1>3. /\ pc'[r] \in {"reconcile", "mentions", "edges"}
      /\ pc'[r] = "edges" => at'[r] = 1
      /\ \A q \in Request \ {r} : pc'[q] = pc[q] /\ at'[q] = at[q]
  BY EntityLoop DEF InsertMemory
<1>4. LinksInKey(r)
  BY DEF LinkInv, Links
<1>5. \A p \in w'[r].chain : SameKey(p)
  BY <1>1, <1>2, <1>4 DEF LinksInKey, SameKey
<1>6. at[r] \in 1..Len(cands(r))
  BY <1>1 DEF TypeOK, Placed
<1>7. m[2] = r /\ m[3] \in 1..Len(cands(r))
  BY <1>6, ThisMemoryStated
<1> QED
  BY <1>1, <1>2, <1>3, <1>5, <1>7, BodyLinks

LEMMA MentionEntityLinks ==
  ASSUME TypeOK, LinkInv, NEW r \in Request, MentionEntity(r)
  PROVE  LinkInv'
<1> DEFINE m == ThisMemory(r)
           e == ThisEntity(r)
<1>1. UNCHANGED <<job, sup, store>> /\ pc[r] = "mentions"
  BY DEF MentionEntity
<1>2. /\ w'[r].ins \subseteq w[r].ins \cup {e} /\ w'[r].edges = w[r].edges
      /\ w'[r].chain = w[r].chain
      /\ \A q \in Request \ {r} : w'[q] = w[q]
  BY DEF MentionEntity, TypeOK, HandlersOK, Writes
<1>3. /\ pc'[r] \in {"reconcile", "mentions", "edges"}
      /\ pc'[r] = "edges" => at'[r] = 1
      /\ \A q \in Request \ {r} : pc'[q] = pc[q] /\ at'[q] = at[q]
  BY EntityLoop DEF MentionEntity
<1>4. e \notin MemoryRow
  BY DEF ThisEntity, Entity, MemoryRow
<1>5. \A p \in w'[r].chain : SameKey(p)
  BY <1>2 DEF LinkInv, Links, LinksInKey
<1>6. at[r] \in 1..Len(cands(r))
  BY <1>1 DEF TypeOK, Placed
<1>7. m[2] = r /\ m[3] \in 1..Len(cands(r))
  BY <1>6, ThisMemoryStated
<1> QED
  BY <1>1, <1>2, <1>3, <1>4, <1>5, <1>7, BodyLinks

\* A source draws its edges to all memories of the turn.
LEMMA LinkSourceLinks ==
  ASSUME TypeOK, LinkInv, NEW r \in Request, LinkSource(r)
  PROVE  LinkInv'
<1> DEFINE m == ThisMemory(r)
           drawn == {<<m, x, "co_extracted">> : x \in Inserted(r) \ {m}}
<1>1. /\ UNCHANGED <<job, pc, sup, store>> /\ pc[r] = "edges"
      /\ at'[r] = at[r] + 1 /\ at[r] \in Nat
      /\ \A q \in Request \ {r} : at'[q] = at[q]
  BY DEF LinkSource, TypeOK, HandlersOK
<1>2. /\ w'[r].ins = w[r].ins /\ w'[r].chain = w[r].chain
      /\ m \in Inserted(r) => w'[r].edges = w[r].edges \cup drawn
      /\ m \notin Inserted(r) => w'[r].edges = w[r].edges
      /\ \A q \in Request \ {r} : w'[q] = w[q]
  <2>1. w \in [Request -> Writes]
    BY DEF TypeOK, HandlersOK
  <2>2. CASE m \in Inserted(r)
    <3>1. w' = [w EXCEPT ![r].edges = @ \cup drawn]
      BY <2>2 DEF LinkSource
    <3> HIDE DEF drawn, m
    <3> QED
      BY <2>1, <2>2, <3>1 DEF Writes
  <2>3. CASE m \notin Inserted(r)
    BY <2>3 DEF LinkSource
  <2> QED
    BY <2>2, <2>3
<1>3. LinksInKey(r) /\ LinksBack(r)
  BY DEF LinkInv, Links
<1>4. Inserted(r)' = Inserted(r)
  BY <1>2 DEF Inserted
<1>5. LinksInKey(r)'
  BY <1>1, <1>2, <1>3, LinksStable DEF LinksInKey
<1>6. \A x \in Inserted(r) : x[3] = at[r] => x = m
  BY <1>3 DEF LinksBack, Inserted, MemoryRow, ThisMemory, Memory
<1>7. \A e \in w'[r].edges :
         \/ e[3] = "same_subject" /\ Back(e) \in w'[r].edges
         \/ e[3] = "co_extracted" /\ e[1] \in Inserted(r) /\ e[2] \in Inserted(r) /\ e[1] # e[2]
  BY <1>2, <1>3 DEF LinksBack
<1>8. ASSUME NEW x \in Inserted(r), NEW y \in Inserted(r), x # y, x[3] < at[r] + 1
      PROVE  <<x, y, "co_extracted">> \in w'[r].edges
  <2>1. x[3] \in Nat
    BY DEF Inserted, MemoryRow
  <2>2. CASE x[3] < at[r]
    BY <1>1, <1>2, <1>3, <1>8, <2>2 DEF LinksBack
  <2>3. CASE x[3] = at[r]
    BY <1>2, <1>6, <1>8, <2>3
  <2> QED
    BY <1>1, <1>8, <2>1, <2>2, <2>3
<1>9. LinksBack(r)'
  BY <1>1, <1>3, <1>4, <1>7, <1>8 DEF LinksBack, Back
<1> QED
  BY <1>1, <1>2, <1>5, <1>9, LocalLinks DEF Links

LEMMA LinkPeerLinks ==
  ASSUME TypeOK, LinkInv, NEW r \in Request, LinkPeer(r)
  PROVE  LinkInv'
<1> DEFINE m == Memory(r, at[r] - 1)
<1>1. UNCHANGED <<job, pc, at, sup, store>> /\ pc[r] = "edges"
  BY DEF LinkPeer
<1>2. PICK x \in todo[r] :
         w' = [w EXCEPT ![r].share = @ \cup {x},
                        ![r].edges = @ \cup {<<m, x, "same_subject">>,
                                             <<x, m, "same_subject">>}]
  BY DEF LinkPeer
<1>3. /\ w'[r].ins = w[r].ins /\ w'[r].chain = w[r].chain
      /\ w'[r].edges = w[r].edges \cup {<<m, x, "same_subject">>, <<x, m, "same_subject">>}
      /\ \A q \in Request \ {r} : w'[q] = w[q]
  BY <1>2 DEF TypeOK, HandlersOK, Writes
<1>4. LinksInKey(r) /\ LinksBack(r)
  BY DEF LinkInv, Links
<1>5. LinksInKey(r)'
  BY <1>1, <1>3, <1>4, LinksStable DEF LinksInKey
<1>6. LinksBack(r)'
  BY <1>1, <1>3, <1>4 DEF LinksBack, Inserted, Back
<1> QED
  BY <1>1, <1>3, <1>5, <1>6, LocalLinks DEF Links

LEMMA BeginDeleteLinks ==
  ASSUME TypeOK, LinkInv, NEW r \in Request, BeginDeleteSession(r) \/ BeginDeleteUser(r)
  PROVE  LinkInv'
<1>1. /\ UNCHANGED <<job, at, sup, w, store>> /\ pc[r] = "waiting"
      /\ pc'[r] \in {"affected", "begin"} /\ \A q \in Request \ {r} : pc'[q] = pc[q]
  BY DEF BeginDeleteSession, BeginDeleteUser, Open, control, TypeOK, HandlersOK
<1> QED
  BY <1>1, QuietLinks

LEMMA NextStatementLinks ==
  ASSUME TypeOK, LinkInv, NEW r \in Request, NextStatement(r)
  PROVE  LinkInv'
<1>1. PICK next \in {"memories", "successors", "turns", "sources", "entities", "reset",
                     "activate", "commit"} : Statement(r, next)
  BY DEF NextStatement, SessionPlan, UserPlan
<1>2. pc[r] # "edges"
  BY DEF NextStatement, SessionPlan, UserPlan
<1>3. /\ UNCHANGED <<job, at, sup, w, store>> /\ pc'[r] = next
      /\ \A q \in Request \ {r} : pc'[q] = pc[q]
  BY <1>1 DEF Statement, TypeOK, HandlersOK
<1> QED
  BY <1>2, <1>3, QuietLinks

LEMMA VisitRowLinks ==
  ASSUME TypeOK, LinkInv, NEW r \in Request, VisitRow(r)
  PROVE  LinkInv'
<1>1. UNCHANGED <<job, pc, at, sup, store>> /\ pc[r] \in Deleting \cup Updating
  BY DEF VisitRow
<1>2. PICK x \in todo[r] :
         w' = IF x \notin Visible(r) THEN w
              ELSE IF pc[r] \in Deleting THEN [w EXCEPT ![r].del = @ \cup {x}]
              ELSE IF pc[r] = "reset"
                   THEN [w EXCEPT ![r].off = @ \cup {x}, ![r].on = @ \ {x}]
              ELSE IF pc[r] = "activate"
                   THEN [w EXCEPT ![r].on = @ \cup {x}, ![r].off = @ \ {x}]
              ELSE [w EXCEPT ![r].touch = @ \cup {x}]
  BY DEF VisitRow
<1>3. /\ w'[r].ins = w[r].ins /\ w'[r].edges = w[r].edges /\ w'[r].chain = w[r].chain
      /\ \A q \in Request \ {r} : w'[q] = w[q]
  BY <1>2 DEF TypeOK, HandlersOK, Writes
<1> QED
  BY <1>1, <1>3, QuietLinks DEF Deleting, Updating

LEMMA StutterLinks == ASSUME LinkInv, UNCHANGED vars PROVE LinkInv'
<1>1. UNCHANGED <<job, pc, at, sup, w, store>>
  BY DEF vars, control
<1>2. HistoryStaysInKey' /\ EdgesGoBothWays'
  BY <1>1, LinksStable DEF LinkInv, HistoryStaysInKey, EdgesGoBothWays, store
<1>3. ASSUME NEW q \in Request PROVE Links(q)'
  <2>1. LinksInKey(q)'
    BY <1>1, LinksStable DEF LinkInv, Links, LinksInKey, ThisMemory
  <2>2. LinksBack(q)'
    BY <1>1 DEF LinkInv, Links, LinksBack, Inserted, Back
  <2> QED
    BY <2>1, <2>2 DEF Links
<1> QED
  BY <1>2, <1>3 DEF LinkInv

LEMMA NextLinks == TypeOK /\ LinkInv /\ [Next]_vars => LinkInv'
<1> SUFFICES ASSUME TypeOK, LinkInv, [Next]_vars PROVE LinkInv'
  OBVIOUS
<1>1. CASE UNCHANGED vars
  BY <1>1, StutterLinks
<1>2. ASSUME NEW r \in Request, TurnStep(r) PROVE LinkInv'
  BY <1>2, BeginTurnLinks, ReconcileLinks, DeactivateLinks, InsertMemoryLinks,
     MentionEntityLinks, LinkSourceLinks, LinkPeerLinks, RollbackLinks, CommitLinks
  DEF TurnStep, ForeignKeyError, CommitTurn
<1>3. ASSUME NEW r \in Request, DeleteStep(r) PROVE LinkInv'
  BY <1>3, BeginDeleteLinks, NextStatementLinks, VisitRowLinks, CommitLinks
  DEF DeleteStep, CommitDelete
<1>4. ASSUME NEW r \in Request, DeadlockVictim(r) \/ Fail(r) PROVE LinkInv'
  BY <1>4, RollbackLinks DEF DeadlockVictim, Fail
<1> QED
  BY <1>1, <1>2, <1>3, <1>4 DEF Next

LEMMA LinksHold == Spec => []LinkInv
<1>1. Init => LinkInv
  BY InitLinks DEF Init
<1> QED
  BY <1>1, NextLinks, TypeCorrect, PTL DEF Spec

\* Whatever turns and deletes interleave to, a memory supersedes only memories of
\* its own scope, subject and predicate, and never itself.
THEOREM HistoryNeverLeavesKey == Spec => []HistoryStaysInKey
<1>1. LinkInv => HistoryStaysInKey
  BY DEF LinkInv
<1> QED
  BY <1>1, LinksHold, PTL

\* Every edge of the memory graph has its way back, although the two are inserted
\* one after the other and either end may be deleted meanwhile.
THEOREM EveryEdgeGoesBack == Spec => []EdgesGoBothWays
<1>1. LinkInv => EdgesGoBothWays
  BY DEF LinkInv
<1> QED
  BY <1>1, LinksHold, PTL

----------------------------------------------------------------------------
\* History.

\* The history seen from a transaction: what is committed and what it will add.
History(r) == supersedes \cup w[r].chain

Unreplaced(x, H) == \A p \in H : p[2] # x

InKey(x, r) == KeyOf(x) = KeyOf(ThisMemory(r))

\* Memories a user delete has removed or is about to.
Doomed(r) == w[r].del \cup (IF pc[r] = "memories" THEN todo[r] ELSE {})

\* A memory is committed by the request that stated it, which is answered then.
Published(x) == x \in MemoryRow => pc[x[2]] = "done"

\* What is committed: a row is superseded once at most, not while it is active, and
\* always when a single-valued key has gone on without it.
HistoryOK ==
    /\ \A p \in supersedes : p[1] \in MemoryRow /\ p[2] \in MemoryRow
    /\ \A p, q \in supersedes : p[2] = q[2] => p = q
    /\ \A x \in active : Unreplaced(x, supersedes)
    /\ \A x \in SingleMemories \ active : ~Unreplaced(x, supersedes)
    /\ \A x \in SingleMemories : \E z \in active : KeyOf(z) = KeyOf(x)
    /\ \A x \in rows : Published(x)

\* Who deletes does not insert, and who inserts does not delete.
Parted(r) ==
    /\ pc[r] = "waiting" => w[r] = NoWrites
    /\ job[r].op = "turn" =>
          /\ w[r].del = {}
          /\ pc[r] \notin Deleting \cup Updating \cup {"commit"}
    /\ job[r].op # "turn" =>
          /\ w[r].ins = {} /\ w[r].on = {} /\ w[r].off = {} /\ w[r].chain = {}
          /\ pc[r] \notin {"reconcile", "apply", "mentions", "edges"}

\* Everything a turn writes is under locks it holds, and what it supersedes is not
\* active for it any more and superseded by nothing else.
Linked(r) ==
    /\ \A x \in w[r].off \cup Inserted(r) : Hash(KeyOf(x)) \in locks[r]
    /\ \A p \in w[r].chain :
          /\ p[1] \in Inserted(r) /\ p[2] \in MemoryRow
          /\ p[2] \in Inserted(r) \/ Published(p[2])
          /\ Hash(KeyOf(p[2])) \in locks[r]
          /\ p[2] \notin ActiveFor(r)
          /\ \A q \in History(r) : q[2] = p[2] => q = p
    /\ \A x \in ActiveFor(r) : Unreplaced(x, History(r))

\* The turn comes to its candidates one after the other.
InOrder(r) ==
    /\ \A x \in Inserted(r) : x[2] = r
    /\ pc[r] \in {"reconcile", "apply"} => \A x \in Inserted(r) : x[3] < at[r]
    /\ pc[r] = "mentions" => \A x \in Inserted(r) : x[3] <= at[r]

\* The pending INSERT: what it supersedes has no successor and will not be active,
\* and under a single-valued key it supersedes all it deactivates.
Pending(r) ==
    pc[r] = "apply" =>
      /\ \A y \in sup[r] : /\ y \in MemoryRow /\ InKey(y, r) /\ y # ThisMemory(r)
                           /\ Unreplaced(y, History(r))
                           /\ y \in todo[r] \/ y \notin ActiveFor(r)
      /\ \A y \in todo[r] : InKey(y, r) /\ (Cand(y).predicate \in Single => y \in sup[r])

\* Nothing a turn deactivates is left without a successor, and no key it writes to
\* without an active memory, but for the candidate under way.
Succeeded(r) ==
    /\ \A x \in w[r].off \cup (Inserted(r) \ w[r].on) : Cand(x).predicate \in Single =>
          ~Unreplaced(x, w[r].chain) \/ (pc[r] = "apply" /\ x \in sup[r])
    /\ \A x \in w[r].off \cup Inserted(r) :
          (\E z \in w[r].on : KeyOf(z) = KeyOf(x)) \/ (pc[r] = "apply" /\ InKey(x, r))

\* A user delete takes the history of a memory with it, and every memory it leaves
\* has an active one of its key.
Spared(r) ==
    job[r].op # "turn" =>
      /\ pc[r] \in {"turns", "entities"} => todo[r] \cap MemoryRow = {}
      /\ \A x \in Doomed(r) : Published(x)
      /\ \A p \in supersedes : p[1] \in Doomed(r) => p[2] \in Doomed(r)
      /\ \A x \in SingleMemories \ Doomed(r) : \E z \in active \ Doomed(r) : KeyOf(z) = KeyOf(x)

Orderly(r) == Parted(r) /\ Linked(r) /\ InOrder(r) /\ Pending(r) /\ Succeeded(r) /\ Spared(r)

HistoryInv == HistoryOK /\ \A r \in Request : Orderly(r)

\* What the invariants of the other proofs contribute.
Ground == TypeOK /\ TurnsConsistent /\ LinkInv

\* A step of r leaves the other handlers alone.
OthersKept(r) ==
    \A q \in Request \ {r} : /\ pc'[q] = pc[q] /\ at'[q] = at[q] /\ todo'[q] = todo[q]
                             /\ sup'[q] = sup[q] /\ w'[q] = w[q] /\ locks'[q] = locks[q]

----------------------------------------------------------------------------
LEMMA RowStable ==
  ASSUME job' = job
  PROVE  /\ \A x : KeyOf(x)' = KeyOf(x) /\ Cand(x)' = Cand(x)
         /\ \A x, H : Unreplaced(x, H)' <=> Unreplaced(x, H)
BY DEF KeyOf, ScopeOf, Cand, Unreplaced

\* What is told stays told.
LEMMA PublishedStays ==
  ASSUME NEW r \in Request, pc[r] # "done", \A q \in Request \ {r} : pc'[q] = pc[q]
  PROVE  \A x : Published(x) => Published(x)'
BY DEF Published, MemoryRow

\* A handler with nothing written yet, or nothing left to write, is orderly.
LEMMA BlankOrderly ==
  ASSUME TypeOK', HistoryOK', NEW r \in Request, w'[r] = NoWrites,
         pc'[r] \in {"waiting", "begin", "done", "failed"}
  PROVE  Orderly(r)'
<1>1. Inserted(r)' = {} /\ ActiveFor(r)' = active' /\ History(r)' = supersedes' /\ Doomed(r)' = {}
  BY DEF Inserted, ActiveFor, Visible, History, Doomed, NoWrites, TypeOK, TablesOK
<1>2. Parted(r)'
  BY DEF Parted, NoWrites, Deleting, Updating
<1>3. Linked(r)' /\ InOrder(r)' /\ Pending(r)'
  BY <1>1 DEF Linked, InOrder, Pending, NoWrites, HistoryOK
<1>4. Succeeded(r)'
  BY <1>1 DEF Succeeded, NoWrites
<1>5. Spared(r)'
  BY <1>1 DEF Spared, HistoryOK
<1> QED
  BY <1>2, <1>3, <1>4, <1>5 DEF Orderly

\* The others stay orderly while the tables do not change.
LEMMA OthersOrderly ==
  ASSUME HistoryInv, NEW r \in Request, pc[r] # "done", job' = job, UNCHANGED store,
         OthersKept(r), NEW q \in Request \ {r}
  PROVE  Orderly(q)'
<1>1. Orderly(q)
  BY DEF HistoryInv
<1>2. /\ pc'[q] = pc[q] /\ at'[q] = at[q] /\ todo'[q] = todo[q]
      /\ sup'[q] = sup[q] /\ w'[q] = w[q] /\ locks'[q] = locks[q]
  BY DEF OthersKept
<1>3. /\ Inserted(q)' = Inserted(q) /\ ActiveFor(q)' = ActiveFor(q)
      /\ History(q)' = History(q) /\ Doomed(q)' = Doomed(q) /\ ThisMemory(q)' = ThisMemory(q)
      /\ SingleMemories' = SingleMemories
  BY <1>2, RowStable DEF Inserted, ActiveFor, Visible, History, Doomed, ThisMemory, store,
     SingleMemories, Memories
<1>4. \A x : Published(x) => Published(x)'
  BY PublishedStays DEF OthersKept
<1>5. Parted(q)'
  BY <1>1, <1>2 DEF Orderly, Parted
<1>6. Linked(q)'
  BY <1>1, <1>2, <1>3, <1>4, RowStable DEF Orderly, Linked
<1>7. InOrder(q)'
  BY <1>1, <1>2, <1>3 DEF Orderly, InOrder
<1>8. Pending(q)'
  BY <1>1, <1>2, <1>3, RowStable DEF Orderly, Pending, InKey
<1>9. Succeeded(q)'
  BY <1>1, <1>2, <1>3, RowStable DEF Orderly, Succeeded, InKey
<1>10. Spared(q)'
  BY <1>1, <1>2, <1>3, <1>4, RowStable DEF Orderly, Spared, store
<1> QED
  BY <1>5, <1>6, <1>7, <1>8, <1>9, <1>10 DEF Orderly

\* A step inside the transaction of r: what is left to show is that r stays orderly.
LEMMA LocalHistory ==
  ASSUME HistoryInv, NEW r \in Request, pc[r] # "done", job' = job, UNCHANGED store,
         OthersKept(r), Orderly(r)'
  PROVE  HistoryInv'
<1>1. \A x : Published(x) => Published(x)'
  BY PublishedStays DEF OthersKept
<1>2. HistoryOK'
  BY <1>1, RowStable DEF HistoryInv, HistoryOK, store, SingleMemories, Memories
<1> QED
  BY <1>2, OthersOrderly DEF HistoryInv

----------------------------------------------------------------------------
\* The steps of a turn.

LEMMA BeginTurnHistory ==
  ASSUME Ground, TypeOK', HistoryInv, NEW r \in Request, BeginTurn(r)
  PROVE  HistoryInv'
<1>1. /\ UNCHANGED <<job, todo, sup, locks, store>> /\ job[r].op = "turn"
      /\ pc[r] = "waiting" /\ pc'[r] \in {"edges", "reconcile"}
      /\ w'[r] = [w[r] EXCEPT !.ins = {Turn(r)}]
  BY DEF BeginTurn, Open, Ground, TypeOK, HandlersOK
<1>2. OthersKept(r)
  BY DEF BeginTurn, OthersKept, Ground, TypeOK, HandlersOK
<1>3. w[r] = NoWrites
  BY <1>1 DEF HistoryInv, Orderly, Parted
<1>4. w'[r] = [NoWrites EXCEPT !.ins = {Turn(r)}]
  BY <1>1, <1>3
<1>5. /\ Inserted(r)' = {} /\ History(r)' = supersedes /\ Doomed(r)' = {}
      /\ ActiveFor(r)' \subseteq active
  BY <1>1, <1>4 DEF Inserted, Turn, MemoryRow, History, Doomed, ActiveFor, NoWrites, store
<1>6. Parted(r)'
  BY <1>1, <1>4 DEF Parted, NoWrites, Deleting, Updating
<1>7. Linked(r)' /\ InOrder(r)' /\ Pending(r)'
  BY <1>1, <1>4, <1>5 DEF Linked, InOrder, Pending, NoWrites, HistoryInv, HistoryOK, Unreplaced
<1>8. Succeeded(r)' /\ Spared(r)'
  BY <1>1, <1>4, <1>5 DEF Succeeded, Spared, NoWrites
<1> QED
  BY <1>1, <1>2, <1>6, <1>7, <1>8, LocalHistory DEF Orderly

\* What the reconciler deactivates under a single-valued key is one row, and it is
\* the one the new row supersedes.
LEMMA DecisionSupersedes ==
  ASSUME NEW c, NEW S, NoClash(S), NEW d \in Decisions(c, S),
         \A x, y \in S : KeyOf(x) = KeyOf(y), \A x \in S : Cand(x).predicate = c.predicate
  PROVE  /\ d.supersedes \subseteq d.deactivate /\ d.deactivate \subseteq S
         /\ c.predicate \in Single => d.deactivate \subseteq d.supersedes
<1>1. CASE \E x \in S : Cand(x).object = c.object
  BY <1>1 DEF Decisions, Skip
<1>2. CASE ~\E x \in S : Cand(x).object = c.object
  <2>1. PICK gone \in Replaced(c, S) : d \in {Insert(head, gone) : head \in Heads(gone)}
    BY <1>2 DEF Decisions
  <2>2. PICK head \in Heads(gone) : d = Insert(head, gone)
    BY <2>1
  <2>3. d.deactivate = gone /\ d.supersedes = head
    BY <2>2 DEF Insert
  <2>4. gone \subseteq S
    BY <2>1 DEF Replaced, Quoted, Latest
  <2>5. head \subseteq gone /\ (gone # {} => head # {})
    BY <2>2 DEF Heads, Latest
  <2>6. ASSUME c.predicate \in Single, NEW x \in S, NEW y \in S PROVE x = y
    BY <2>6 DEF NoClash, Clash
  <2> QED
    BY <2>3, <2>4, <2>5, <2>6
<1> QED
  BY <1>1, <1>2

LEMMA ReconcileHistory ==
  ASSUME Ground, HistoryInv, NEW r \in Request, Reconcile(r)
  PROVE  HistoryInv'
<1> DEFINE m == ThisMemory(r)
           k == KeyOf(m)
           S == Rivals(r, k)
<1>1. /\ UNCHANGED <<job, w, store>> /\ pc[r] = "reconcile"
      /\ locks' = [locks EXCEPT ![r] = @ \cup {Hash(k)}]
  BY DEF Reconcile
<1>2. PICK d \in Decisions(Cand(m), S) :
         /\ todo' = [todo EXCEPT ![r] = d.deactivate]
         /\ sup' = [sup EXCEPT ![r] = d.supersedes]
         /\ IF d.insert
            THEN pc' = [pc EXCEPT ![r] = "apply"] /\ UNCHANGED at
            ELSE NextCandidate(r)
  BY DEF Reconcile
<1>3. /\ locks[r] \subseteq locks'[r] /\ todo'[r] = d.deactivate /\ sup'[r] = d.supersedes
      /\ \A q \in Request \ {r} : locks'[q] = locks[q] /\ todo'[q] = todo[q] /\ sup'[q] = sup[q]
  BY <1>1, <1>2 DEF Ground, TypeOK, HandlersOK
<1>4. Parted(r) /\ Linked(r) /\ InOrder(r) /\ Succeeded(r) /\ job[r].op = "turn"
  BY <1>1 DEF HistoryInv, Orderly, Parted
<1>5. /\ ActiveFor(r)' = ActiveFor(r) /\ Inserted(r)' = Inserted(r) /\ History(r)' = History(r)
  BY <1>1 DEF ActiveFor, Visible, Inserted, History, store
<1>6. pc'[r] \in {"apply", "reconcile", "edges"} /\ \A q \in Request \ {r} : pc'[q] = pc[q] /\ at'[q] = at[q]
  BY <1>2, NextCandidateGoes DEF Ground, TypeOK, HandlersOK
<1>7. OthersKept(r)
  BY <1>1, <1>3, <1>6 DEF OthersKept
<1>8. \A x : Published(x) => Published(x)'
  BY <1>1, <1>6, PublishedStays
<1>9. Parted(r)'
  BY <1>1, <1>4, <1>6 DEF Parted, Deleting, Updating
<1>10. Linked(r)'
  BY <1>1, <1>3, <1>4, <1>5, <1>8, RowStable DEF Linked
<1>11. Succeeded(r)' /\ Spared(r)'
  BY <1>1, <1>4, <1>5, <1>6, RowStable DEF Succeeded, Spared
<1>12. InOrder(r)' /\ Pending(r)'
  <2>1. CASE d.insert
    <3>1. pc'[r] = "apply" /\ at' = at /\ ThisMemory(r)' = m
      BY <1>2, <2>1 DEF Ground, TypeOK, HandlersOK, ThisMemory, Memory
    <3>2. InOrder(r)'
      BY <1>1, <1>4, <1>5, <3>1 DEF InOrder
    <3>3. S \subseteq ActiveFor(r) /\ S \subseteq MemoryRow /\ \A x \in S : KeyOf(x) = k
      BY SeenRows DEF Rivals, Ground
    <3>4. \A x \in S : Cand(x).predicate = Cand(m).predicate
      BY <3>3 DEF KeyOf
    <3>5. NoClash(S)
      BY <3>3 DEF Ground, TurnsConsistent, Careful, NoClash
    <3>6. /\ d.supersedes \subseteq d.deactivate /\ d.deactivate \subseteq S
          /\ Cand(m).predicate \in Single => d.deactivate \subseteq d.supersedes
      <4> HIDE DEF m, k, S
      <4> QED
        BY <3>3, <3>4, <3>5, DecisionSupersedes
    <3>7. \A y \in d.supersedes : y # m
      BY DecisionInKey DEF SameKey
    <3>8. \A y \in S : Unreplaced(y, History(r))
      BY <1>4, <3>3 DEF Linked
    <3>9. \A y \in sup'[r] : /\ y \in MemoryRow /\ KeyOf(y) = k /\ y # m
                             /\ Unreplaced(y, History(r)) /\ y \in todo'[r]
      BY <1>3, <3>3, <3>6, <3>7, <3>8
    <3>10. \A y \in todo'[r] : KeyOf(y) = k /\ (Cand(y).predicate \in Single => y \in sup'[r])
      BY <1>3, <3>3, <3>4, <3>6
    <3>11. Pending(r)'
      <4> HIDE DEF m, k
      <4> QED
        BY <1>1, <1>5, <3>1, <3>9, <3>10, RowStable DEF Pending, InKey, k, m
    <3> QED
      BY <3>2, <3>11
  <2>2. CASE ~d.insert
    <3>1. NextCandidate(r)
      BY <1>2, <2>2
    <3>2. pc'[r] # "mentions" /\ pc'[r] # "apply" /\ (pc'[r] = "reconcile" => at'[r] = at[r] + 1)
      BY <3>1 DEF NextCandidate, Ground, TypeOK, HandlersOK
    <3>3. \A x \in Inserted(r) : x[3] \in Nat /\ at[r] \in Nat
      BY DEF Inserted, MemoryRow, Ground, TypeOK, HandlersOK
    <3> QED
      BY <1>1, <1>4, <1>5, <3>2, <3>3 DEF InOrder, Pending
  <2> QED
    BY <2>1, <2>2
<1> QED
  BY <1>1, <1>7, <1>9, <1>10, <1>11, <1>12, LocalHistory DEF Orderly

LEMMA DeactivateHistory ==
  ASSUME Ground, HistoryInv, NEW r \in Request, Deactivate(r)
  PROVE  HistoryInv'
<1>1. UNCHANGED <<job, pc, at, sup, locks, store>> /\ pc[r] = "apply"
  BY DEF Deactivate
<1>2. PICK x \in todo[r] :
         /\ todo' = [todo EXCEPT ![r] = @ \ {x}]
         /\ w' = IF x \in Visible(r)
                 THEN [w EXCEPT ![r].off = @ \cup {x}, ![r].on = @ \ {x}]
                 ELSE w
  BY DEF Deactivate
<1>3. /\ todo'[r] = todo[r] \ {x}
      /\ w'[r].ins = w[r].ins /\ w'[r].del = w[r].del /\ w'[r].chain = w[r].chain
      /\ \/ x \in Visible(r) /\ w'[r].off = w[r].off \cup {x} /\ w'[r].on = w[r].on \ {x}
         \/ x \notin Visible(r) /\ w'[r].off = w[r].off /\ w'[r].on = w[r].on
  BY <1>2 DEF Ground, TypeOK, HandlersOK, Writes
<1>4. OthersKept(r)
  BY <1>1, <1>2 DEF OthersKept, Ground, TypeOK, HandlersOK
<1>5. /\ Parted(r) /\ Linked(r) /\ InOrder(r) /\ Pending(r) /\ Succeeded(r)
      /\ job[r].op = "turn" /\ Hash(KeyOf(ThisMemory(r))) \in locks[r]
  BY <1>1 DEF HistoryInv, Orderly, Parted, Ground, TurnsConsistent, Careful
<1>6. /\ ActiveFor(r)' \subseteq ActiveFor(r) \ {x} /\ Inserted(r)' = Inserted(r)
      /\ History(r)' = History(r) /\ ThisMemory(r)' = ThisMemory(r)
  BY <1>1, <1>3 DEF ActiveFor, Visible, Inserted, History, store, ThisMemory
<1>7. InKey(x, r) /\ (Cand(x).predicate \in Single => x \in sup[r])
  BY <1>1, <1>2, <1>5 DEF Pending
<1>8. Parted(r)' /\ InOrder(r)' /\ Spared(r)'
  BY <1>1, <1>3, <1>5, <1>6 DEF Parted, InOrder, Spared
<1>9. Linked(r)'
  <2>1. \A y \in w'[r].off \cup Inserted(r)' : Hash(KeyOf(y)) \in locks[r]
    BY <1>3, <1>5, <1>6, <1>7 DEF Linked, InKey
  <2> QED
    BY <1>1, <1>3, <1>5, <1>6, <2>1, PublishedStays, RowStable DEF Linked, OthersKept
<1>10. Pending(r)'
  BY <1>1, <1>3, <1>5, <1>6, RowStable DEF Pending, InKey
<1>11. Succeeded(r)'
  <2>1. \A y \in w'[r].off \cup (Inserted(r)' \ w'[r].on) :
           y = x \/ y \in w[r].off \cup (Inserted(r) \ w[r].on)
    BY <1>3, <1>6
  <2>2. \A y \in w'[r].off \cup Inserted(r)' :
           \/ InKey(y, r)
           \/ \E z \in w'[r].on : KeyOf(z) = KeyOf(y)
    BY <1>3, <1>5, <1>6, <1>7 DEF Succeeded, InKey
  <2> QED
    BY <1>1, <1>3, <1>5, <1>6, <1>7, <2>1, <2>2, RowStable DEF Succeeded, InKey
<1> QED
  BY <1>1, <1>4, <1>8, <1>9, <1>10, <1>11, LocalHistory DEF Orderly

LEMMA InsertMemoryHistory ==
  ASSUME Ground, HistoryInv, NEW r \in Request, InsertMemory(r)
  PROVE  HistoryInv'
<1> DEFINE m == ThisMemory(r)
           new == {m} \X sup[r]
<1>1. /\ UNCHANGED <<job, todo, locks, store>>
      /\ pc[r] = "apply" /\ todo[r] = {} /\ sup[r] \subseteq Visible(r)
      /\ sup' = [sup EXCEPT ![r] = {}]
  BY DEF InsertMemory
<1>2. /\ w'[r].ins = w[r].ins \cup {m} /\ w'[r].on = w[r].on \cup {m}
      /\ w'[r].off = w[r].off /\ w'[r].del = w[r].del /\ w'[r].chain = w[r].chain \cup new
      /\ \A q \in Request \ {r} : w'[q] = w[q]
  BY DEF InsertMemory, Ground, TypeOK, HandlersOK, Writes
<1>3. /\ pc'[r] \in {"reconcile", "edges", "mentions"}
      /\ \A q \in Request \ {r} : pc'[q] = pc[q] /\ at'[q] = at[q]
  BY NextEntityGoes DEF InsertMemory, Ground
<1>4. /\ Parted(r) /\ Linked(r) /\ InOrder(r) /\ Pending(r) /\ Succeeded(r)
      /\ job[r].op = "turn" /\ w[r].del = {} /\ Hash(KeyOf(m)) \in locks[r]
  BY <1>1 DEF HistoryInv, Orderly, Parted, Ground, TurnsConsistent, Careful
<1>5. m \in MemoryRow /\ m[2] = r /\ m[3] = at[r] /\ at[r] \in Nat
  BY <1>1, ThisMemoryStated DEF Ground, TypeOK, HandlersOK, Placed
<1>6. OthersKept(r)
  BY <1>1, <1>2, <1>3 DEF OthersKept, Ground, TypeOK, HandlersOK
<1>7. \A x : Published(x) => Published(x)' /\ x # m
  BY <1>1, <1>3, <1>5, PublishedStays DEF Published
<1>8. Inserted(r)' = Inserted(r) \cup {m} /\ History(r)' = History(r) \cup new
  BY <1>1, <1>2, <1>5 DEF Inserted, History, store
<1>9. ActiveFor(r)' \subseteq ActiveFor(r) \cup {m}
  BY <1>1, <1>2 DEF ActiveFor, Visible, store
<1>10. m \notin Inserted(r)
  BY <1>1, <1>4, <1>5 DEF InOrder
<1>11. \A y \in sup[r] : /\ y \in MemoryRow /\ KeyOf(y) = KeyOf(m) /\ y # m
                         /\ Unreplaced(y, History(r)) /\ y \notin ActiveFor(r)
                         /\ (y \in Inserted(r) \/ Published(y))
  BY <1>1, <1>4 DEF Pending, InKey, Visible, Inserted, HistoryInv, HistoryOK
<1>12. \A p \in new : p[1] = m /\ p[2] \in sup[r] /\ p = <<m, p[2]>>
  OBVIOUS
<1>13. w[r].chain \subseteq History(r)
  BY DEF History
<1>14. Parted(r)' /\ Pending(r)' /\ Spared(r)'
  BY <1>1, <1>2, <1>3, <1>4 DEF Parted, Pending, Spared, Deleting, Updating
<1>15. Linked(r)'
  <2>1. \A x \in w'[r].off \cup Inserted(r)' : Hash(KeyOf(x)) \in locks[r]
    BY <1>2, <1>4, <1>8 DEF Linked
  <2>2. ASSUME NEW p \in w[r].chain
        PROVE  /\ p[1] \in Inserted(r)' /\ p[2] \in MemoryRow
               /\ p[2] \in Inserted(r)' \/ Published(p[2])'
               /\ Hash(KeyOf(p[2])) \in locks[r]
               /\ p[2] \notin ActiveFor(r)'
               /\ \A q \in History(r)' : q[2] = p[2] => q = p
    <3>1. p[2] # m
      BY <1>4, <1>7, <1>10 DEF Linked
    <3>2. \A q \in new : q[2] # p[2]
      BY <1>11, <1>12, <1>13 DEF Unreplaced
    <3> HIDE DEF m, new
    <3> QED
      BY <1>4, <1>7, <1>8, <1>9, <3>1, <3>2 DEF Linked
  <2>3. ASSUME NEW p \in new
        PROVE  /\ p[1] \in Inserted(r)' /\ p[2] \in MemoryRow
               /\ p[2] \in Inserted(r)' \/ Published(p[2])'
               /\ Hash(KeyOf(p[2])) \in locks[r]
               /\ p[2] \notin ActiveFor(r)'
               /\ \A q \in History(r)' : q[2] = p[2] => q = p
    <3>1. p[1] = m /\ p[2] \in sup[r] /\ p = <<m, p[2]>>
      BY <1>12
    <3>2. \A q \in History(r) : q[2] # p[2]
      BY <1>11, <3>1 DEF Unreplaced
    <3>3. \A q \in new : q[2] = p[2] => q = p
      BY <1>12
    <3> HIDE DEF m, new
    <3> QED
      BY <1>4, <1>7, <1>8, <1>9, <1>11, <3>1, <3>2, <3>3
  <2>4. ASSUME NEW x \in ActiveFor(r)' PROVE Unreplaced(x, History(r)')
    <3>1. CASE x = m
      <4>1. \A p \in supersedes : Published(p[2])
        BY DEF Ground, TypeOK, TablesOK, HistoryInv, HistoryOK
      <4>2. \A p \in w[r].chain : p[2] # m
        BY <1>4, <1>7, <1>10 DEF Linked
      <4> HIDE DEF m, new
      <4> QED
        BY <1>7, <1>8, <1>11, <1>12, <3>1, <4>1, <4>2 DEF Unreplaced, History
    <3>2. CASE x \in ActiveFor(r)
      <4> HIDE DEF m, new
      <4> QED
        BY <1>4, <1>8, <1>11, <1>12, <3>2 DEF Unreplaced, Linked
    <3> QED
      BY <1>9, <3>1, <3>2
  <2>5. \A x \in ActiveFor(r)' : Unreplaced(x, History(r))'
    BY <2>4 DEF Unreplaced
  <2> HIDE DEF m, new
  <2> QED
    BY <1>1, <1>2, <2>1, <2>2, <2>3, <2>5, RowStable DEF Linked
<1>16. InOrder(r)'
  <2>1. \A x \in Inserted(r)' : x[2] = r /\ x[3] \in Nat /\ x[3] <= at[r]
    BY <1>1, <1>4, <1>5, <1>8 DEF InOrder, Inserted, MemoryRow
  <2>2. /\ pc'[r] = "mentions" => at'[r] = at[r]
        /\ pc'[r] = "reconcile" => at'[r] = at[r] + 1
    BY DEF InsertMemory, NextEntity, NextCandidate, Ground, TypeOK, HandlersOK
  <2> QED
    BY <1>3, <1>5, <2>1, <2>2 DEF InOrder
<1>17. Succeeded(r)'
  <2>1. \A x \in sup[r] : <<m, x>> \in w'[r].chain
    BY <1>2
  <2>2. \A x \in sup[r] : ~Unreplaced(x, w'[r].chain)
    BY <2>1 DEF Unreplaced
  <2>3. \A x : Unreplaced(x, w'[r].chain) => Unreplaced(x, w[r].chain)
    BY <1>2 DEF Unreplaced
  <2>4. \A x : InKey(x, r) => \E z \in w'[r].on : KeyOf(z) = KeyOf(x)
    BY <1>2 DEF InKey
  <2> HIDE DEF m, new
  <2>5. \A x \in w'[r].off \cup (Inserted(r)' \ w'[r].on) : Cand(x).predicate \in Single =>
           ~Unreplaced(x, w'[r].chain)
    BY <1>2, <1>4, <1>8, <2>2, <2>3 DEF Succeeded
  <2>6. \A x \in w'[r].off \cup Inserted(r)' : \E z \in w'[r].on : KeyOf(z) = KeyOf(x)
    BY <1>2, <1>4, <1>8, <2>4 DEF Succeeded
  <2> QED
    BY <1>1, <2>5, <2>6, RowStable DEF Succeeded, Unreplaced
<1> QED
  BY <1>1, <1>6, <1>14, <1>15, <1>16, <1>17, LocalHistory DEF Orderly

\* A step of a turn after its INSERT that changes neither memories nor history.
LEMMA QuietHistory ==
  ASSUME Ground, HistoryInv, NEW r \in Request, job' = job, UNCHANGED <<locks, store>>,
         job[r].op = "turn", pc[r] \in {"mentions", "edges"}, OthersKept(r),
         w'[r].ins \cap MemoryRow = Inserted(r), w'[r].del = w[r].del,
         w'[r].on = w[r].on, w'[r].off = w[r].off, w'[r].chain = w[r].chain,
         pc'[r] \in {"reconcile", "mentions", "edges"},
         pc'[r] # "edges" => /\ pc[r] = "mentions"
                             /\ at'[r] = IF pc'[r] = "mentions" THEN at[r] ELSE at[r] + 1
  PROVE  HistoryInv'
<1>1. Parted(r) /\ Linked(r) /\ InOrder(r) /\ Succeeded(r)
  BY DEF HistoryInv, Orderly
<1>2. Inserted(r)' = Inserted(r) /\ History(r)' = History(r)
  BY DEF Inserted, History, store
<1>3. ActiveFor(r)' = ActiveFor(r)
  BY DEF ActiveFor, Visible, Inserted, store, Ground, TypeOK, TablesOK, HandlersOK, Writes
<1>4. Parted(r)' /\ Pending(r)' /\ Spared(r)'
  BY <1>1 DEF Parted, Pending, Spared, Deleting, Updating
<1>5. Linked(r)'
  BY <1>1, <1>2, <1>3, PublishedStays, RowStable DEF Linked, OthersKept
<1>6. \A x \in Inserted(r) : x[3] \in Nat /\ at[r] \in Nat
  BY DEF Inserted, MemoryRow, Ground, TypeOK, HandlersOK
<1>7. InOrder(r)'
  BY <1>1, <1>2, <1>6 DEF InOrder
<1>8. Succeeded(r)'
  BY <1>1, <1>2, RowStable DEF Succeeded
<1> QED
  BY <1>4, <1>5, <1>7, <1>8, LocalHistory DEF Orderly

LEMMA MentionEntityHistory ==
  ASSUME Ground, HistoryInv, NEW r \in Request, MentionEntity(r)
  PROVE  HistoryInv'
<1> DEFINE e == ThisEntity(r)
<1>1. UNCHANGED <<job, todo, sup, locks, store>> /\ pc[r] = "mentions"
  BY DEF MentionEntity
<1>2. /\ w[r].ins \subseteq w'[r].ins /\ w'[r].ins \subseteq w[r].ins \cup {e}
      /\ w'[r].on = w[r].on /\ w'[r].chain = w[r].chain
      /\ w'[r].off = w[r].off /\ w'[r].del = w[r].del
      /\ \A q \in Request \ {r} : w'[q] = w[q]
  BY DEF MentionEntity, Ground, TypeOK, HandlersOK, Writes
<1>3. /\ pc'[r] \in {"reconcile", "edges", "mentions"}
      /\ \A q \in Request \ {r} : pc'[q] = pc[q] /\ at'[q] = at[q]
  BY NextEntityGoes DEF MentionEntity, Ground
<1>4. pc'[r] # "edges" => at'[r] = IF pc'[r] = "mentions" THEN at[r] ELSE at[r] + 1
  BY DEF MentionEntity, NextEntity, NextCandidate, Ground, TypeOK, HandlersOK
<1>5. e \notin MemoryRow
  BY DEF ThisEntity, Entity, MemoryRow
<1>6. w'[r].ins \cap MemoryRow = Inserted(r)
  BY <1>2, <1>5 DEF Inserted
<1>7. job[r].op = "turn"
  BY <1>1 DEF HistoryInv, Orderly, Parted
<1>8. OthersKept(r)
  BY <1>1, <1>2, <1>3 DEF OthersKept
<1> QED
  BY <1>1, <1>2, <1>3, <1>4, <1>6, <1>7, <1>8, QuietHistory

LEMMA LinkHistory ==
  ASSUME Ground, HistoryInv, NEW r \in Request, LinkSource(r) \/ LinkPeer(r)
  PROVE  HistoryInv'
<1>1. UNCHANGED <<job, pc, sup, locks, store>> /\ pc[r] = "edges"
  BY DEF LinkSource, LinkPeer
<1>2. /\ w'[r].ins = w[r].ins /\ w'[r].del = w[r].del /\ w'[r].on = w[r].on
      /\ w'[r].off = w[r].off /\ w'[r].chain = w[r].chain
      /\ \A q \in Request \ {r} : w'[q] = w[q] /\ at'[q] = at[q] /\ todo'[q] = todo[q]
  <2>1. CASE LinkSource(r)
    BY <2>1 DEF LinkSource, Ground, TypeOK, HandlersOK, Writes
  <2>2. CASE LinkPeer(r)
    <3> DEFINE m == Memory(r, at[r] - 1)
    <3>1. PICK x \in todo[r] :
             /\ todo' = [todo EXCEPT ![r] = @ \ {x}]
             /\ w' = [w EXCEPT ![r].share = @ \cup {x},
                               ![r].edges = @ \cup {<<m, x, "same_subject">>,
                                                    <<x, m, "same_subject">>}]
      BY <2>2 DEF LinkPeer
    <3>2. at' = at
      BY <2>2 DEF LinkPeer
    <3> QED
      BY <3>1, <3>2 DEF Ground, TypeOK, HandlersOK, Writes
  <2> QED
    BY <2>1, <2>2
<1>3. job[r].op = "turn"
  BY <1>1 DEF HistoryInv, Orderly, Parted
<1>4. OthersKept(r) /\ w'[r].ins \cap MemoryRow = Inserted(r)
  BY <1>1, <1>2 DEF OthersKept, Inserted
<1> QED
  BY <1>1, <1>2, <1>3, <1>4, QuietHistory

----------------------------------------------------------------------------
\* The steps of a user delete.

LEMMA BeginDeleteUserHistory ==
  ASSUME Ground, TypeOK', HistoryInv, NEW r \in Request, BeginDeleteUser(r)
  PROVE  HistoryInv'
<1>1. /\ UNCHANGED <<job, at, todo, sup, locks, w, store>> /\ pc[r] = "waiting"
      /\ pc'[r] = "begin" /\ \A q \in Request \ {r} : pc'[q] = pc[q]
  BY DEF BeginDeleteUser, Open, control, Ground, TypeOK, HandlersOK
<1>2. OthersKept(r)
  BY <1>1 DEF OthersKept
<1>3. w'[r] = NoWrites
  BY <1>1 DEF HistoryInv, Orderly, Parted
<1>4. HistoryOK'
  BY <1>1, PublishedStays, RowStable DEF HistoryInv, HistoryOK, store, SingleMemories, Memories
<1> QED
  BY <1>1, <1>2, <1>3, <1>4, BlankOrderly, LocalHistory

\* A deleting handler inserts and replaces nothing: it is orderly when it is spared.
LEMMA DeleterOrderly ==
  ASSUME Ground, HistoryInv, NEW r \in Request, job' = job, UNCHANGED <<locks, store>>,
         job[r].op = "delete_user", pc[r] # "done", OthersKept(r),
         w'[r].ins = w[r].ins, w[r].del \subseteq w'[r].del,
         w'[r].on = w[r].on, w'[r].off = w[r].off, w'[r].chain = w[r].chain,
         pc'[r] \notin {"waiting", "reconcile", "apply", "mentions", "edges"}, Spared(r)'
  PROVE  HistoryInv'
<1>1. Parted(r) /\ Linked(r) /\ InOrder(r) /\ Succeeded(r)
  BY DEF HistoryInv, Orderly
<1>2. /\ Inserted(r)' = Inserted(r) /\ History(r)' = History(r)
      /\ ActiveFor(r)' \subseteq ActiveFor(r) /\ Inserted(r) = {} /\ w[r].chain = {} /\ w[r].off = {}
  BY <1>1 DEF Inserted, History, ActiveFor, Visible, store, Parted
<1>3. Parted(r)' /\ Pending(r)' /\ Succeeded(r)' /\ InOrder(r)'
  BY <1>1, <1>2 DEF Parted, Pending, Succeeded, InOrder
<1>4. Linked(r)'
  BY <1>1, <1>2, RowStable DEF Linked
<1> QED
  BY <1>3, <1>4, LocalHistory DEF Orderly

\* Of the memories of a user, the history goes with them and none is left behind.
LEMMA NextStatementHistory ==
  ASSUME Ground, HistoryInv, NEW r \in Request, job[r].op = "delete_user", NextStatement(r)
  PROVE  HistoryInv'
<1>1. /\ pc[r] \in DOMAIN UserPlan /\ Statement(r, UserPlan[pc[r]]) /\ todo[r] = {}
  BY DEF NextStatement, UserPlan
<1>2. /\ pc[r] \in {"begin", "entities", "memories", "successors", "turns", "sources"}
      /\ UserPlan[pc[r]] \in {"entities", "memories", "successors", "turns", "sources", "commit"}
  BY <1>1 DEF UserPlan
<1>3. /\ UNCHANGED <<job, at, sup, locks, w, store>> /\ pc'[r] = UserPlan[pc[r]]
      /\ \A q \in Request \ {r} : pc'[q] = pc[q] /\ todo'[q] = todo[q]
      /\ todo'[r] \in Targets(r, UserPlan[pc[r]])
  BY <1>1 DEF Statement, Ground, TypeOK, HandlersOK
<1>4. OthersKept(r)
  BY <1>3 DEF OthersKept
<1>5. Parted(r) /\ Spared(r) /\ HistoryOK
  BY DEF HistoryInv, Orderly
<1>6. Doomed(r) = w[r].del /\ SingleMemories' = SingleMemories
  BY <1>1, <1>3, RowStable DEF Doomed, store, SingleMemories, Memories
<1>7. \A x : Published(x) => Published(x)'
  BY <1>2, <1>3, PublishedStays
<1>8. pc'[r] \in {"turns", "entities"} => todo'[r] \cap MemoryRow = {}
  BY <1>3 DEF Targets, DoomedTurns, DoomedEntities, TurnRow, EntityRow, MemoryRow
<1>9. /\ \A x \in Doomed(r)' : Published(x)
      /\ \A p \in supersedes : p[1] \in Doomed(r)' => p[2] \in Doomed(r)'
      /\ \A x \in SingleMemories \ Doomed(r)' :
            \E z \in active \ Doomed(r)' : KeyOf(z) = KeyOf(x)
  <2>1. CASE pc'[r] # "memories"
    <3>1. Doomed(r)' = Doomed(r)
      BY <1>3, <1>6, <2>1 DEF Doomed
    <3> QED
      BY <1>5, <3>1 DEF Spared
  <2>2. CASE pc'[r] = "memories"
    <3>1. Doomed(r)' = Doomed(r) \cup DoomedMemories(r)
      BY <1>3, <1>6, <2>2 DEF Doomed, Targets
    <3>2. DoomedMemories(r) = {x \in (rows \ Doomed(r)) \cap MemoryRow : KeyOf(x)[1] = OwnScope(r)}
      BY <1>5, <1>6 DEF DoomedMemories, VisibleMemories, Visible, Parted
    <3>3. \A p \in supersedes : p[2] \in rows /\ p[2] \in MemoryRow /\ KeyOf(p[1]) = KeyOf(p[2])
      BY <1>5 DEF Ground, TypeOK, TablesOK, HistoryOK, LinkInv, HistoryStaysInKey
    <3>4. active \subseteq rows \cap MemoryRow /\ SingleMemories \subseteq rows \cap MemoryRow
      BY DEF Ground, TypeOK, TablesOK, SingleMemories, Memories
    <3> QED
      BY <1>5, <3>1, <3>2, <3>3, <3>4 DEF Spared, HistoryOK
  <2> QED
    BY <2>1, <2>2
<1>10. Spared(r)'
  BY <1>3, <1>6, <1>7, <1>8, <1>9, RowStable DEF Spared, store
<1> QED
  BY <1>2, <1>3, <1>4, <1>10, DeleterOrderly

LEMMA VisitRowHistory ==
  ASSUME Ground, HistoryInv, NEW r \in Request, job[r].op = "delete_user", VisitRow(r)
  PROVE  HistoryInv'
<1>1. UNCHANGED <<job, pc, at, sup, locks, store>>
  BY DEF VisitRow
<1>2. pc[r] \in {"memories", "turns", "entities", "successors", "sources"}
  BY DEF VisitRow, Deleting, Updating, Ground, TurnsConsistent, Careful
<1>3. PICK x \in todo[r] :
         /\ todo' = [todo EXCEPT ![r] = @ \ {x}]
         /\ w' = IF x \notin Visible(r) THEN w
                 ELSE IF pc[r] \in Deleting THEN [w EXCEPT ![r].del = @ \cup {x}]
                 ELSE [w EXCEPT ![r].touch = @ \cup {x}]
  BY <1>2 DEF VisitRow
<1>4. /\ w'[r].ins = w[r].ins /\ w'[r].on = w[r].on /\ w'[r].off = w[r].off
      /\ w'[r].chain = w[r].chain /\ todo'[r] = todo[r] \ {x}
      /\ w'[r].del = IF x \in Visible(r) /\ pc[r] \in Deleting THEN w[r].del \cup {x} ELSE w[r].del
  BY <1>3 DEF Ground, TypeOK, HandlersOK, Writes
<1>5. OthersKept(r)
  BY <1>1, <1>3 DEF OthersKept, Ground, TypeOK, HandlersOK
<1>6. Parted(r) /\ Spared(r) /\ HistoryOK /\ SingleMemories' = SingleMemories
  BY <1>1, RowStable DEF HistoryInv, Orderly, store, SingleMemories, Memories
<1>7. \A y : Published(y) => Published(y)'
  BY <1>1 DEF Published
<1>8. /\ active \subseteq rows \cap MemoryRow /\ SingleMemories \subseteq rows \cap MemoryRow
      /\ \A p \in supersedes : /\ p[1] \in rows \cap MemoryRow
                               /\ p[2] \in rows \cap MemoryRow
  BY <1>6 DEF Ground, TypeOK, TablesOK, SingleMemories, Memories, HistoryOK
<1>9. \A y \in rows \cap MemoryRow : y \in Doomed(r)' <=> y \in Doomed(r)
  <2>1. CASE pc[r] = "memories"
    <3>1. x \in rows => x \in Visible(r) \/ x \in w[r].del
      BY DEF Visible
    <3> QED
      BY <1>1, <1>3, <1>4, <2>1, <3>1 DEF Doomed, Deleting
  <2>2. CASE pc[r] \in {"turns", "entities"}
    BY <1>1, <1>4, <1>6, <2>2 DEF Doomed, Spared
  <2>3. CASE pc[r] \in {"successors", "sources"}
    BY <1>1, <1>4, <2>3 DEF Doomed, Deleting
  <2> QED
    BY <1>2, <2>1, <2>2, <2>3
<1>10. \A y \in Doomed(r)' : Published(y)
  <2>1. \A y \in Doomed(r) : Published(y)
    BY <1>6 DEF Spared
  <2>2. pc[r] = "memories" => Published(x)
    BY <2>1 DEF Doomed
  <2>3. pc[r] \in {"turns", "entities"} => Published(x)
    BY <1>6 DEF Spared, Published
  <2>4. Doomed(r)' \subseteq Doomed(r) \cup (IF pc[r] \in Deleting THEN {x} ELSE {})
    BY <1>1, <1>4 DEF Doomed
  <2> QED
    BY <2>1, <2>2, <2>3, <2>4 DEF Deleting
<1>11. Spared(r)'
  BY <1>1, <1>4, <1>6, <1>7, <1>8, <1>9, <1>10, RowStable DEF Spared, store
<1> QED
  BY <1>1, <1>2, <1>4, <1>5, <1>11, DeleterOrderly

----------------------------------------------------------------------------
\* The ends of a transaction.

LEMMA CloseKeepsOthers ==
  ASSUME TypeOK, NEW r \in Request, NEW outcome \in {"done", "failed"}, Close(r, outcome)
  PROVE  job' = job /\ pc'[r] = outcome /\ w'[r] = NoWrites /\ OthersKept(r)
BY DEF Close, OthersKept, TypeOK, HandlersOK

LEMMA RollbackHistory ==
  ASSUME Ground, TypeOK', HistoryInv, NEW r \in Request, pc[r] # "done", Rollback(r)
  PROVE  HistoryInv'
<1>1. Close(r, "failed") /\ UNCHANGED store
  BY DEF Rollback
<1>2. job' = job /\ pc'[r] = "failed" /\ w'[r] = NoWrites /\ OthersKept(r)
  BY <1>1, CloseKeepsOthers DEF Ground
<1>3. \A x : Published(x) => Published(x)'
  BY <1>2, PublishedStays DEF OthersKept
<1>4. HistoryOK'
  BY <1>1, <1>2, <1>3, RowStable DEF HistoryInv, HistoryOK, store, SingleMemories, Memories
<1> QED
  BY <1>1, <1>2, <1>4, BlankOrderly, LocalHistory

\* What a commit publishes: all a turn inserted, or what a user delete has left.
LEMMA CommitTables ==
  ASSUME Ground, HistoryInv, NEW r \in Request, Commit(r), pc[r] \in {"edges", "commit"}
  PROVE  /\ job' = job /\ pc'[r] = "done" /\ w'[r] = NoWrites /\ OthersKept(r)
         /\ rows' = (rows \cup w[r].ins) \ w[r].del /\ active' = ActiveFor(r)
         /\ supersedes' = {p \in History(r) : p[1] \in rows' /\ p[2] \in rows'}
         /\ SingleMemories' = {x \in rows' \cap MemoryRow : Cand(x).predicate \in Single}
         /\ \A x : Published(x) => Published(x)'
<1>1. job' = job /\ pc'[r] = "done" /\ w'[r] = NoWrites /\ OthersKept(r)
  BY CloseKeepsOthers DEF Commit, Ground
<1>2. \A x : Published(x) => Published(x)'
  BY <1>1, PublishedStays DEF OthersKept
<1> QED
  BY <1>1, <1>2, RowStable DEF Commit, Visible, History, SingleMemories, Memories

LEMMA CommitTurnOK ==
  ASSUME Ground, HistoryInv, NEW r \in Request, Commit(r), pc[r] = "edges", job[r].op = "turn"
  PROVE  HistoryOK'
<1>1. /\ job' = job /\ pc'[r] = "done" /\ active' = ActiveFor(r)
      /\ supersedes' = {p \in History(r) : p[1] \in rows' /\ p[2] \in rows'}
      /\ SingleMemories' = {x \in rows' \cap MemoryRow : Cand(x).predicate \in Single}
      /\ \A x : Published(x) => Published(x)'
  BY CommitTables
<1>2. /\ Parted(r) /\ Linked(r) /\ InOrder(r) /\ Succeeded(r) /\ HistoryOK
  BY DEF HistoryInv, Orderly
<1>3. rows' = rows \cup w[r].ins
  BY <1>2, CommitTables DEF Parted
<1>4. /\ active \subseteq rows \cap MemoryRow /\ w[r].on \subseteq w[r].ins
      /\ supersedes \subseteq rows \X rows /\ w[r].on \subseteq MemoryRow
  BY DEF Ground, TypeOK, TablesOK, HandlersOK, Writes, TurnsConsistent, Careful
<1>5. active' = (active \ w[r].off) \cup w[r].on
  BY <1>1, <1>2, <1>4 DEF ActiveFor, Visible, Parted
<1>6. supersedes \subseteq supersedes'
  BY <1>1, <1>3, <1>4 DEF History
<1>7. \A p \in supersedes' : p[1] \in MemoryRow /\ p[2] \in MemoryRow
  BY <1>1, <1>2 DEF History, Linked, HistoryOK, Inserted
<1>8. \A p, q \in supersedes' : p[2] = q[2] => p = q
  BY <1>1, <1>2 DEF History, Linked, HistoryOK
<1>9. \A x \in active' : Unreplaced(x, supersedes')
  BY <1>1, <1>2 DEF Linked, Unreplaced
<1>10. ASSUME NEW x \in SingleMemories' \ active' PROVE ~Unreplaced(x, supersedes')
  <2>1. CASE x \in rows /\ x \notin active
    BY <1>1, <1>2, <1>6, <2>1 DEF HistoryOK, Unreplaced, SingleMemories, Memories
  <2>2. CASE x \in w[r].off \cup (Inserted(r) \ w[r].on)
    <3>1. PICK p \in w[r].chain : p[2] = x
      BY <1>1, <1>2, <2>2 DEF Succeeded, Unreplaced
    <3>2. p \in supersedes'
      BY <1>1, <1>2, <1>3, <3>1 DEF Linked, Inserted, History
    <3> QED
      BY <3>1, <3>2 DEF Unreplaced
  <2> QED
    BY <1>1, <1>3, <1>5, <2>1, <2>2 DEF Inserted
<1>11. ASSUME NEW x \in SingleMemories' PROVE \E z \in active' : KeyOf(z) = KeyOf(x)
  <2>1. \A y \in w[r].off \cup Inserted(r) : \E z \in w[r].on : KeyOf(z) = KeyOf(y)
    BY <1>2 DEF Succeeded
  <2>2. CASE x \in rows
    <3>1. PICK z \in active : KeyOf(z) = KeyOf(x)
      BY <1>1, <1>2, <2>2 DEF HistoryOK, SingleMemories, Memories
    <3> QED
      BY <1>5, <2>1, <3>1
  <2>3. CASE x \in Inserted(r)
    BY <1>5, <2>1, <2>3
  <2> QED
    BY <1>1, <1>3, <2>2, <2>3 DEF Inserted
<1>12. \A x \in rows' : Published(x)'
  BY <1>1, <1>2, <1>3 DEF HistoryOK, InOrder, Inserted, Published
<1> QED
  BY <1>1, <1>7, <1>8, <1>9, <1>10, <1>11, <1>12, RowStable DEF HistoryOK

LEMMA CommitDeleteOK ==
  ASSUME Ground, HistoryInv, NEW r \in Request, Commit(r), pc[r] = "commit",
         job[r].op = "delete_user"
  PROVE  HistoryOK'
<1>1. /\ job' = job /\ active' = ActiveFor(r)
      /\ supersedes' = {p \in History(r) : p[1] \in rows' /\ p[2] \in rows'}
      /\ SingleMemories' = {x \in rows' \cap MemoryRow : Cand(x).predicate \in Single}
      /\ \A x : Published(x) => Published(x)'
  BY CommitTables
<1>2. Parted(r) /\ Spared(r) /\ HistoryOK
  BY DEF HistoryInv, Orderly
<1>3. Doomed(r) = w[r].del /\ rows' = rows \ Doomed(r)
  BY <1>2, CommitTables DEF Doomed, Parted
<1>4. active \subseteq rows \cap MemoryRow /\ supersedes \subseteq rows \X rows
  BY DEF Ground, TypeOK, TablesOK
<1>5. active' = active \ Doomed(r)
  BY <1>1, <1>2, <1>3, <1>4 DEF ActiveFor, Visible, Parted
<1>6. supersedes' \subseteq supersedes
  BY <1>1, <1>2 DEF History, Parted
<1>7. SingleMemories' = SingleMemories \ Doomed(r)
  BY <1>1, <1>3 DEF SingleMemories, Memories
<1>8. \A x \in active' : Unreplaced(x, supersedes')
  BY <1>2, <1>5, <1>6 DEF HistoryOK, Unreplaced
<1>9. ASSUME NEW x \in SingleMemories' \ active' PROVE ~Unreplaced(x, supersedes')
  <2>1. PICK p \in supersedes : p[2] = x
    BY <1>2, <1>5, <1>7 DEF HistoryOK, Unreplaced
  <2>2. p[1] \notin Doomed(r) /\ p[2] \notin Doomed(r)
    BY <1>2, <1>7, <2>1 DEF Spared
  <2>3. p \in supersedes'
    BY <1>1, <1>3, <1>4, <2>2 DEF History
  <2> QED
    BY <2>1, <2>3 DEF Unreplaced
<1>10. \A x \in SingleMemories' : \E z \in active' : KeyOf(z) = KeyOf(x)
  BY <1>2, <1>5, <1>7 DEF Spared
<1>11. \A x \in rows' : Published(x)'
  BY <1>1, <1>2, <1>3 DEF HistoryOK
<1> QED
  BY <1>1, <1>2, <1>6, <1>8, <1>9, <1>10, <1>11, RowStable DEF HistoryOK

\* What becomes active for another transaction is what the committing one activated.
LEMMA NewlyActive ==
  ASSUME Ground, NEW r \in Request, NEW q \in Request \ {r}, Commit(r),
         NEW x \in ActiveFor(q)'
  PROVE  /\ x \in ActiveFor(q) \/ x \in w[r].on
         /\ x \in ActiveFor(r) \/ x \in w[q].on
<1>1. rows' = Visible(r) /\ active' = ActiveFor(r) /\ w'[q] = w[q]
  BY DEF Commit, Close, Ground, TypeOK, HandlersOK
<1>2. w[q].on \subseteq w[q].ins
  BY DEF Ground, TurnsConsistent, Careful
<1>3. /\ x \in (ActiveFor(r) \ w[q].off) \cup w[q].on
      /\ x \in Visible(r) \cup w[q].ins /\ x \notin w[q].del
  BY <1>1 DEF ActiveFor, Visible
<1>4. CASE x \in w[q].on
  BY <1>2, <1>3, <1>4 DEF ActiveFor, Visible
<1>5. CASE x \notin w[q].on /\ x \in active
  BY <1>3, <1>5 DEF ActiveFor, Visible, Ground, TypeOK, TablesOK
<1>6. CASE x \notin w[q].on /\ x \notin active
  BY <1>3, <1>6 DEF ActiveFor
<1> QED
  BY <1>3, <1>4, <1>5, <1>6

\* A commit touches nothing that another transaction builds on: the rows either of
\* them writes are under its own advisory locks, and what a user delete will remove
\* was told before.
LEMMA CommitOthers ==
  ASSUME Ground, HistoryInv, HistoryOK', NEW r \in Request, Commit(r),
         pc[r] \in {"edges", "commit"}, job[r].op \in {"turn", "delete_user"},
         pc[r] = "commit" <=> job[r].op = "delete_user", NEW q \in Request \ {r}
  PROVE  Orderly(q)'
<1>1. /\ job' = job /\ active' = ActiveFor(r) /\ rows' = (rows \cup w[r].ins) \ w[r].del
      /\ supersedes' \subseteq History(r)
      /\ SingleMemories' = {x \in rows' \cap MemoryRow : Cand(x).predicate \in Single}
      /\ \A x : Published(x) => Published(x)'
  BY CommitTables
<1>2. /\ pc'[q] = pc[q] /\ at'[q] = at[q] /\ todo'[q] = todo[q]
      /\ sup'[q] = sup[q] /\ w'[q] = w[q] /\ locks'[q] = locks[q]
  BY CommitTables DEF OthersKept
<1>3. /\ Parted(r) /\ Linked(r) /\ InOrder(r) /\ Succeeded(r) /\ Spared(r)
      /\ Parted(q) /\ Linked(q) /\ InOrder(q) /\ Pending(q) /\ Succeeded(q) /\ Spared(q)
      /\ HistoryOK
  BY DEF HistoryInv, Orderly
<1>4. locks[r] \cap locks[q] = {}
  BY DEF Ground, TurnsConsistent, Exclusive
<1>5. /\ Inserted(q)' = Inserted(q) /\ Doomed(q)' = Doomed(q) /\ ThisMemory(q)' = ThisMemory(q)
      /\ History(q)' \subseteq History(q) \cup w[r].chain
  BY <1>1, <1>2 DEF Inserted, Doomed, ThisMemory, History
<1>6. /\ \A x \in w[r].on : Hash(KeyOf(x)) \in locks[r]
      /\ \A x \in w[q].on : Hash(KeyOf(x)) \in locks[q]
      /\ \A p \in w[r].chain : Hash(KeyOf(p[2])) \in locks[r]
      /\ w[r].on \subseteq Inserted(r)
  BY <1>3 DEF Ground, TypeOK, HandlersOK, Writes, TurnsConsistent, Careful, Linked, Inserted
<1>7. \A x \in ActiveFor(q)' : /\ x \in ActiveFor(q) \/ x \in w[r].on
                               /\ x \in ActiveFor(r) \/ x \in w[q].on
  BY NewlyActive
<1>8. Parted(q)' /\ InOrder(q)'
  BY <1>1, <1>2, <1>3, <1>5 DEF Parted, InOrder
<1>9. Linked(q)'
  <2>1. ASSUME NEW p \in w[q].chain
        PROVE  /\ p[1] \in Inserted(q) /\ p[2] \in MemoryRow
               /\ p[2] \in Inserted(q) \/ Published(p[2])'
               /\ Hash(KeyOf(p[2])) \in locks[q]
               /\ p[2] \notin ActiveFor(q)'
               /\ \A t \in History(q)' : t[2] = p[2] => t = p
    <3>1. Hash(KeyOf(p[2])) \in locks[q] /\ Hash(KeyOf(p[2])) \notin locks[r]
      BY <1>3, <1>4 DEF Linked
    <3>2. p[2] \notin ActiveFor(q)'
      BY <1>3, <1>6, <1>7, <3>1 DEF Linked
    <3>3. ASSUME NEW t \in History(q)', t[2] = p[2] PROVE t = p
      BY <1>3, <1>5, <1>6, <3>1, <3>3 DEF Linked
    <3> QED
      BY <1>1, <1>3, <3>1, <3>2, <3>3 DEF Linked
  <2>2. ASSUME NEW x \in ActiveFor(q)', NEW t \in History(q)', t[2] = x PROVE FALSE
    <3>1. CASE t \in w[r].chain
      BY <1>3, <1>4, <1>6, <1>7, <2>2, <3>1 DEF Linked
    <3>2. CASE t \in History(q)
      <4>1. x \in w[r].on
        BY <1>3, <1>7, <2>2, <3>2 DEF Linked, Unreplaced
      <4>2. x \in ActiveFor(r)
        BY <1>4, <1>6, <1>7, <4>1
      <4>3. t \in w[q].chain
        BY <1>3, <2>2, <3>2, <4>2 DEF Linked, Unreplaced, History
      <4> QED
        BY <1>3, <1>4, <1>6, <2>2, <4>1, <4>3 DEF Linked
    <3> QED
      BY <1>5, <3>1, <3>2
  <2>3. \A x \in ActiveFor(q)' : Unreplaced(x, History(q))'
    BY <2>2 DEF Unreplaced
  <2> QED
    BY <1>1, <1>2, <1>3, <1>5, <2>1, <2>3, RowStable DEF Linked
<1>10. Pending(q)'
  <2> SUFFICES ASSUME pc[q] = "apply" PROVE Pending(q)'
    BY <1>2 DEF Pending
  <2>1. \A y : InKey(y, q) => Hash(KeyOf(y)) \in locks[q] /\ Hash(KeyOf(y)) \notin locks[r]
    BY <1>4 DEF InKey, Ground, TurnsConsistent, Careful
  <2>2. ASSUME NEW y \in sup[q]
        PROVE  /\ y \in MemoryRow /\ InKey(y, q) /\ y # ThisMemory(q)
               /\ Unreplaced(y, History(q)') /\ (y \in todo[q] \/ y \notin ActiveFor(q)')
    <3>1. /\ y \in MemoryRow /\ InKey(y, q) /\ y # ThisMemory(q)
          /\ Unreplaced(y, History(q)) /\ (y \in todo[q] \/ y \notin ActiveFor(q))
      BY <1>3 DEF Pending
    <3>2. \A t \in w[r].chain : t[2] # y
      BY <1>6, <2>1, <3>1
    <3>3. y \notin w[r].on
      BY <1>6, <2>1, <3>1
    <3> QED
      BY <1>5, <1>7, <3>1, <3>2, <3>3 DEF Unreplaced
  <2>3. \A y \in sup[q] : Unreplaced(y, History(q))'
    BY <2>2 DEF Unreplaced
  <2> QED
    BY <1>1, <1>2, <1>3, <1>5, <2>2, <2>3, RowStable DEF Pending, InKey
<1>11. Succeeded(q)'
  BY <1>1, <1>2, <1>3, <1>5, RowStable DEF Succeeded, InKey
<1>12. Spared(q)'
  <2> SUFFICES ASSUME job[q].op # "turn" PROVE Spared(q)'
    BY <1>1 DEF Spared
  <2>1. /\ pc[q] \in {"turns", "entities"} => todo[q] \cap MemoryRow = {}
        /\ \A x \in Doomed(q) : Published(x)
        /\ \A p \in supersedes : p[1] \in Doomed(q) => p[2] \in Doomed(q)
        /\ \A x \in SingleMemories \ Doomed(q) :
              \E z \in active \ Doomed(q) : KeyOf(z) = KeyOf(x)
    BY <1>3 DEF Spared
  <2>2. \A x \in Inserted(r) : x \notin Doomed(q)
    <3>1. \A x \in Inserted(r) : ~Published(x)
      BY <1>3 DEF InOrder, Inserted, Published
    <3> QED
      BY <2>1, <3>1
  <2>3. \A p \in supersedes' : p[1] \in Doomed(q) => p[2] \in Doomed(q)
    BY <1>1, <1>3, <2>1, <2>2 DEF History, Linked
  <2>4. /\ active \subseteq rows \cap MemoryRow /\ SingleMemories \subseteq rows \cap MemoryRow
        /\ \A x \in SingleMemories : Cand(x).predicate \in Single
    BY DEF Ground, TypeOK, TablesOK, SingleMemories, Memories
  <2>5. ASSUME NEW x \in SingleMemories' \ Doomed(q)
        PROVE  \E z \in active' \ Doomed(q) : KeyOf(z) = KeyOf(x)
    <3>1. CASE job[r].op = "turn"
      <4>1. active' = (active \ w[r].off) \cup w[r].on /\ rows' = rows \cup w[r].ins
        BY <1>1, <1>3, <1>6, <2>4, <3>1 DEF ActiveFor, Visible, Parted, Inserted
      <4>2. \A y \in w[r].off \cup Inserted(r) : \E z \in w[r].on : KeyOf(z) = KeyOf(y)
        BY <1>3, <3>1 DEF Succeeded, Parted
      <4>3. w[r].on \subseteq active' \ Doomed(q)
        BY <1>6, <2>2, <4>1
      <4>4. CASE x \in Inserted(r)
        BY <4>2, <4>3, <4>4
      <4>5. CASE x \in rows
        <5>1. PICK z \in active \ Doomed(q) : KeyOf(z) = KeyOf(x)
          BY <1>1, <2>1, <4>5 DEF SingleMemories, Memories
        <5> QED
          BY <4>1, <4>2, <4>3, <5>1
      <4> QED
        BY <1>1, <4>1, <4>4, <4>5 DEF Inserted
    <3>2. CASE job[r].op = "delete_user"
      <4>1. Doomed(r) = w[r].del /\ rows' = rows \ w[r].del /\ active' = active \ w[r].del
        BY <1>1, <1>3, <2>4, <3>2 DEF Doomed, ActiveFor, Visible, Parted
      <4>2. x \in SingleMemories /\ x \notin Doomed(r)
        BY <1>1, <4>1 DEF SingleMemories, Memories
      <4>3. PICK z \in active \ Doomed(q) : KeyOf(z) = KeyOf(x)
        BY <2>1, <4>2
      <4>4. PICK y \in active \ Doomed(r) : KeyOf(y) = KeyOf(x)
        BY <1>3, <3>2, <4>2 DEF Spared
      <4>5. y = z
        <5>1. KeyOf(y) = KeyOf(z) /\ Cand(y).predicate = Cand(x).predicate
          BY <4>3, <4>4 DEF KeyOf
        <5> QED
          BY <2>4, <4>2, <5>1 DEF Ground, TurnsConsistent, ActiveConsistent, NoClash, Clash
      <4> QED
        BY <4>1, <4>3, <4>4, <4>5
    <3> QED
      BY <3>1, <3>2
  <2>6. \A x \in Doomed(q) : Published(x)'
    BY <1>1, <2>1
  <2> QED
    BY <1>1, <1>2, <1>5, <2>1, <2>3, <2>5, <2>6, RowStable DEF Spared
<1> QED
  BY <1>8, <1>9, <1>10, <1>11, <1>12 DEF Orderly

LEMMA CommitHistory ==
  ASSUME Ground, TypeOK', HistoryInv, NEW r \in Request, Commit(r),
         pc[r] \in {"edges", "commit"}, job[r].op \in {"turn", "delete_user"}
  PROVE  HistoryInv'
<1>1. pc[r] = "commit" <=> job[r].op = "delete_user"
  BY DEF HistoryInv, Orderly, Parted
<1>2. HistoryOK'
  BY <1>1, CommitTurnOK, CommitDeleteOK
<1>3. Orderly(r)'
  BY <1>2, CommitTables, BlankOrderly
<1> QED
  BY <1>1, <1>2, <1>3, CommitOthers DEF HistoryInv

----------------------------------------------------------------------------
LEMMA InitHistory == ASSUME StoreInit PROVE HistoryInv
<1>1. HistoryOK
  BY DEF StoreInit, HistoryOK, SingleMemories, Memories
<1>2. ASSUME NEW r \in Request PROVE Orderly(r)
  <2>1. /\ Inserted(r) = {} /\ ActiveFor(r) = {} /\ Doomed(r) = {} /\ SingleMemories = {}
        /\ w[r] = NoWrites /\ pc[r] = "waiting" /\ supersedes = {}
    BY DEF StoreInit, Inserted, ActiveFor, Visible, Doomed, SingleMemories, Memories, NoWrites
  <2>2. Parted(r) /\ Linked(r) /\ InOrder(r)
    BY <2>1 DEF Parted, Linked, InOrder, NoWrites, Deleting, Updating
  <2>3. Pending(r) /\ Succeeded(r) /\ Spared(r)
    BY <2>1 DEF Pending, Succeeded, Spared, NoWrites
  <2> QED
    BY <2>2, <2>3 DEF Orderly
<1> QED
  BY <1>1, <1>2 DEF HistoryInv

LEMMA StutterHistory == ASSUME HistoryInv, UNCHANGED vars PROVE HistoryInv'
<1>1. UNCHANGED <<job, pc, at, todo, sup, locks, w, store>>
  BY DEF vars, control
<1>2. /\ SingleMemories' = SingleMemories /\ \A x : Published(x)' <=> Published(x)
  BY <1>1, RowStable DEF SingleMemories, Memories, store, Published
<1>3. HistoryOK'
  BY <1>1, <1>2, RowStable DEF HistoryInv, HistoryOK, store
<1>4. ASSUME NEW q \in Request PROVE Orderly(q)'
  <2>1. Orderly(q)
    BY DEF HistoryInv
  <2>2. /\ Inserted(q)' = Inserted(q) /\ ActiveFor(q)' = ActiveFor(q)
        /\ History(q)' = History(q) /\ Doomed(q)' = Doomed(q) /\ ThisMemory(q)' = ThisMemory(q)
    BY <1>1 DEF Inserted, ActiveFor, Visible, History, Doomed, ThisMemory, store
  <2>3. Parted(q)' /\ InOrder(q)'
    BY <1>1, <2>1, <2>2 DEF Orderly, Parted, InOrder
  <2>4. Linked(q)'
    BY <1>1, <1>2, <2>1, <2>2, RowStable DEF Orderly, Linked
  <2>5. Pending(q)' /\ Succeeded(q)'
    BY <1>1, <2>1, <2>2, RowStable DEF Orderly, Pending, Succeeded, InKey
  <2>6. Spared(q)'
    BY <1>1, <1>2, <2>1, <2>2, RowStable DEF Orderly, Spared, store
  <2> QED
    BY <2>3, <2>4, <2>5, <2>6 DEF Orderly
<1> QED
  BY <1>3, <1>4 DEF HistoryInv

LEMMA NextHistory ==
  ASSUME Ground, TypeOK', HistoryInv, NoRecompute, [Next]_vars
  PROVE  HistoryInv'
<1>1. CASE UNCHANGED vars
  BY <1>1, StutterHistory
<1>2. CASE Next
  <2>1. PICK r \in Request : TurnStep(r) \/ DeleteStep(r) \/ DeadlockVictim(r) \/ Fail(r)
    BY <1>2 DEF Next
  <2>2. job[r].op \in {"turn", "delete_user"}
    BY StoreAssumption DEF NoRecompute, Ground, TypeOK, HandlersOK, Job
  <2>3. CASE TurnStep(r)
    <3>1. CASE ForeignKeyError(r)
      BY <3>1, RollbackHistory DEF ForeignKeyError
    <3>2. CASE CommitTurn(r)
      BY <2>2, <3>2, CommitHistory DEF CommitTurn
    <3> QED
      BY <2>3, <3>1, <3>2, BeginTurnHistory, ReconcileHistory, DeactivateHistory,
         InsertMemoryHistory, MentionEntityHistory, LinkHistory DEF TurnStep
  <2>4. CASE DeleteStep(r)
    <3>1. CASE BeginDeleteSession(r)
      BY <2>2, <3>1 DEF BeginDeleteSession
    <3>2. CASE NextStatement(r)
      BY <2>2, <3>2, NextStatementHistory DEF NextStatement
    <3>3. CASE VisitRow(r)
      <4>1. job[r].op = "delete_user"
        BY <2>2, <3>3 DEF VisitRow, HistoryInv, Orderly, Parted
      <4> QED
        BY <3>3, <4>1, VisitRowHistory
    <3>4. CASE CommitDelete(r)
      BY <2>2, <3>4, CommitHistory DEF CommitDelete
    <3> QED
      BY <2>4, <3>1, <3>2, <3>3, <3>4, BeginDeleteUserHistory DEF DeleteStep
  <2>5. CASE DeadlockVictim(r) \/ Fail(r)
    <3>1. pc[r] # "done" /\ Rollback(r)
      BY <2>5 DEF DeadlockVictim, Fail, InTransaction, Over
    <3> QED
      BY <3>1, RollbackHistory
  <2> QED
    BY <2>1, <2>3, <2>4, <2>5
<1> QED
  BY <1>1, <1>2

\* The inductive invariant holds while no session delete is about.
THEOREM HistoryKept == Spec => [](NoRecompute => HistoryInv)
<1>1. Init => HistoryInv
  BY InitHistory DEF Init
<1>2. /\ TypeOK /\ TypeOK' /\ LinkInv /\ (NoRecompute => TurnsConsistent)
      /\ (NoRecompute => HistoryInv) /\ [Next]_vars
      => (NoRecompute => HistoryInv)'
  <2> SUFFICES ASSUME TypeOK, TypeOK', LinkInv, NoRecompute => TurnsConsistent,
                      NoRecompute => HistoryInv, [Next]_vars, NoRecompute'
               PROVE  HistoryInv'
    OBVIOUS
  <2>1. NoRecompute
    BY JobsStay DEF NoRecompute
  <2> QED
    BY <2>1, NextHistory DEF Ground
<1> QED
  BY <1>1, <1>2, TypeCorrect, LinksHold, AdvisoryLocksHold, PTL DEF Spec

\* While no session delete is about, history is a chain: whatever turns and user
\* deletes interleave to, at most one memory supersedes another, never an active
\* one, and a value of a single-valued key that went inactive has its successor.
THEOREM HistoryNeverBranches == Spec => []HistoryIsAChain
<1>1. TypeOK /\ HistoryStaysInKey /\ (NoRecompute => HistoryInv) => HistoryIsAChain
  <2> SUFFICES ASSUME TypeOK, HistoryStaysInKey, HistoryInv, NEW x \in Memories
               PROVE  /\ Cardinality(Successors(x)) <= IF x \in active THEN 0 ELSE 1
                      /\ x \in SingleMemories \ active => Successors(x) # {}
                      /\ \A y \in Successors(x) : KeyOf(y) = KeyOf(x)
    BY DEF HistoryIsAChain, NoRecompute
  <2>1. HistoryOK /\ supersedes \subseteq rows \X rows
    BY DEF HistoryInv, TypeOK, TablesOK
  <2>2. \A y \in Successors(x) : KeyOf(y) = KeyOf(x)
    BY DEF Successors, HistoryStaysInKey
  <2>3. ASSUME x \in SingleMemories \ active PROVE Successors(x) # {}
    <3>1. PICK p \in supersedes : p[2] = x
      BY <2>1, <2>3 DEF HistoryOK, Unreplaced
    <3>2. p[1] \in rows /\ <<p[1], x>> \in supersedes
      BY <2>1, <3>1
    <3> QED
      BY <3>2 DEF Successors
  <2>4. CASE x \in active
    <3>1. Successors(x) = {}
      BY <2>1, <2>4 DEF Successors, HistoryOK, Unreplaced
    <3> QED
      BY <2>2, <2>4, <3>1, FS_EmptySet
  <2>5. CASE x \notin active
    <3>1. \A y, z \in Successors(x) : y = z
      BY <2>1 DEF Successors, HistoryOK
    <3>2. Successors(x) = {} \/ \E y : Successors(x) = {y}
      BY <3>1
    <3>3. Cardinality(Successors(x)) \in {0, 1}
      BY <3>2, FS_EmptySet, FS_Singleton
    <3> QED
      BY <2>2, <2>3, <2>5, <3>3
  <2> QED
    BY <2>4, <2>5
<1> QED
  BY <1>1, TypeCorrect, HistoryNeverLeavesKey, HistoryKept, PTL

\* While no session delete is about, a single-valued key that has memories has
\* exactly one active: no supersession, lost race or user delete leaves it with
\* none or with two.
THEOREM EveryKeyKeepsOneValue ==
  ASSUME \A j \in Jobs : j.op # "delete_session"
  PROVE  Spec => []EveryKeyHasOneValue
<1>1. TypeOK /\ TurnsConsistent /\ HistoryInv => EveryKeyHasOneValue
  <2> SUFFICES ASSUME TypeOK, TurnsConsistent, HistoryInv, NEW x \in SingleMemories
               PROVE  Cardinality(Values(x) \cap active) = 1
    BY DEF EveryKeyHasOneValue
  <2>1. PICK z \in active : KeyOf(z) = KeyOf(x)
    BY DEF HistoryInv, HistoryOK
  <2>2. z \in Values(x)
    BY <2>1 DEF Values, SingleMemories, Memories, TypeOK, TablesOK, KeyOf
  <2>3. \A y \in Values(x) \cap active : y = z
    BY <2>1, <2>2 DEF Values, SingleMemories, TurnsConsistent, ActiveConsistent, NoClash, Clash
  <2>4. Values(x) \cap active = {z}
    BY <2>1, <2>2, <2>3
  <2> QED
    BY <2>4, FS_Singleton
<1>2. TypeOK => NoRecompute
  BY DEF TypeOK, HandlersOK, NoRecompute
<1> QED
  BY <1>1, <1>2, TypeCorrect, AdvisoryLocksSuffice, HistoryKept, PTL
=============================================================================
