----------------------- MODULE MemoryService_proofs -----------------------
(***************************************************************************)
(* The writers.  In any number and interleaving they keep their types, and *)
(* a request changes nothing outside the keys it is about.  Turns and user *)
(* deletes keep the active memories consistent; session deletes are        *)
(* excluded from that by assumption, for they do break it.  One request at *)
(* a time, all operations keep what two of them together may not.          *)
(***************************************************************************)
EXTENDS MemoryService, FiniteSetTheorems, TLAPS

\* A candidate, its key and its rows are what their names say.
LEMMA Attributes ==
  ASSUME HandlersOK, NEW x \in MemoryRow, Stated(x)
  PROVE  Cand(x) \in Candidate /\ KeyOf(x) \in ScopeKey
<1>1. x[2] \in Request /\ x[3] \in 1..Len(job[x[2]].cands)
  BY DEF MemoryRow, Stated, cands
<1>2. job[x[2]] \in Job
  BY <1>1, StoreAssumption DEF HandlersOK
<1>3. Cand(x) \in Candidate
  BY <1>1, <1>2 DEF Job, Cand
<1>4. ScopeOf(job[x[2]]) \in Scope
  BY <1>2 DEF Job, ScopeOf, Scope
<1> QED
  BY <1>3, <1>4 DEF Candidate, KeyOf, ScopeKey

\* The rows a request may write.
LEMMA OwnRows ==
  ASSUME NEW r \in Request
  PROVE  /\ Turn(r) \in Row
         /\ \A i \in Nat : Memory(r, i) \in MemoryRow
         /\ \A s \in Scope, nm \in Name : Entity(s, nm) \in Row
         /\ MemoryRow \subseteq Row
         /\ Turn(r) \notin MemoryRow
         /\ \A s \in Scope, nm \in Name : Entity(s, nm) \notin MemoryRow
  BY DEF Turn, TurnRow, Memory, MemoryRow, Entity, EntityRow, Row

LEMMA InitTypeOK == ASSUME StoreInit PROVE TypeOK
<1>1. HandlersOK
  BY StoreAssumption DEF StoreInit, HandlersOK, Pcs, Writes, NoWrites
<1>2. TablesOK
  BY DEF StoreInit, TablesOK
<1>3. ASSUME NEW r \in Request PROVE Placed(r) /\ \A x \in rows \cup w[r].ins : Stated(x)
  BY DEF StoreInit, Placed, NoWrites
<1> QED
  BY <1>1, <1>2, <1>3 DEF TypeOK

\* What r sees and leaves behind is made of rows.
LEMMA SeenRows ==
  ASSUME TypeOK, NEW r \in Request
  PROVE  /\ Visible(r) \subseteq Row
         /\ ActiveFor(r) \subseteq Visible(r) \cap MemoryRow
         /\ \A x \in Visible(r) : Stated(x)
<1>1. w[r] \in Writes
  BY DEF TypeOK, HandlersOK
<1>2. Visible(r) \subseteq Row
  BY <1>1 DEF TypeOK, TablesOK, Writes, Visible
<1>3. ActiveFor(r) \subseteq Visible(r) \cap MemoryRow
  BY <1>1 DEF TypeOK, TablesOK, Writes, ActiveFor
<1> QED
  BY <1>2, <1>3 DEF TypeOK, Visible

\* The end of a transaction, on either path, leaves a clean handler.
LEMMA CloseTypes ==
  ASSUME TypeOK, NEW r \in Request, NEW outcome \in {"done", "failed"}, Close(r, outcome)
  PROVE  /\ HandlersOK'
         /\ \A q \in Request : Placed(q)'
         /\ \A q \in Request : w'[q].ins \subseteq w[q].ins
<1>1. w' \in [Request -> Writes]
  BY DEF TypeOK, HandlersOK, Close, NoWrites, Writes
<1>2. HandlersOK'
  BY <1>1 DEF TypeOK, HandlersOK, Close, Pcs
<1>3. ASSUME NEW q \in Request PROVE Placed(q)'
  <2>1. CASE q = r
    BY <2>1 DEF TypeOK, HandlersOK, Placed, Close
  <2>2. CASE q # r
    BY <2>2 DEF TypeOK, HandlersOK, Placed, Close, cands
  <2> QED
    BY <2>1, <2>2
<1>4. \A q \in Request : w'[q].ins \subseteq w[q].ins
  BY DEF TypeOK, HandlersOK, Close, NoWrites
<1> QED
  BY <1>2, <1>3, <1>4

LEMMA CommitTypeOK ==
  ASSUME TypeOK, NEW r \in Request, Commit(r)
  PROVE  TypeOK'
<1>1. Close(r, "done") /\ job' = job
  BY DEF Commit, Close
<1>2. /\ HandlersOK'
      /\ \A q \in Request : Placed(q)'
      /\ \A q \in Request : w'[q].ins \subseteq w[q].ins
  BY <1>1, CloseTypes
<1>3. TablesOK'
  <2>1. w[r] \in Writes
    BY DEF TypeOK, HandlersOK
  <2>2. rows' \subseteq Row /\ active' \subseteq rows' \cap MemoryRow
    BY SeenRows DEF Commit
  <2>3. supersedes' \subseteq rows' \X rows'
    BY <2>1 DEF Commit, TypeOK, TablesOK, Writes
  <2>4. edges' \subseteq rows' \X rows' \X EdgeKind
    BY <2>1 DEF Commit, TypeOK, TablesOK, Writes
  <2>5. mentions' \subseteq rows' \X rows'
    BY <2>1 DEF Commit, TypeOK, TablesOK, Writes
  <2> QED
    BY <2>2, <2>3, <2>4, <2>5 DEF TablesOK
<1>4. ASSUME NEW q \in Request, NEW x \in rows' \cup w'[q].ins PROVE Stated(x)'
  <2>1. Stated(x)
    BY <1>2, SeenRows DEF Commit, TypeOK
  <2> QED
    BY <2>1, <1>1 DEF Stated, cands
<1> QED
  BY <1>2, <1>3, <1>4 DEF TypeOK

LEMMA RollbackTypeOK ==
  ASSUME TypeOK, NEW r \in Request, Rollback(r)
  PROVE  TypeOK'
<1>1. Close(r, "failed") /\ job' = job /\ UNCHANGED store
  BY DEF Rollback, Close
<1>2. /\ HandlersOK'
      /\ \A q \in Request : Placed(q)'
      /\ \A q \in Request : w'[q].ins \subseteq w[q].ins
  BY <1>1, CloseTypes
<1>3. TablesOK' /\ rows' = rows
  BY <1>1 DEF store, TypeOK, TablesOK
<1>4. ASSUME NEW q \in Request, NEW x \in rows' \cup w'[q].ins PROVE Stated(x)'
  <2>1. Stated(x)
    BY <1>2, <1>3 DEF TypeOK
  <2> QED
    BY <2>1, <1>1 DEF Stated, cands
<1> QED
  BY <1>2, <1>3, <1>4 DEF TypeOK

\* A step inside the transaction of r leaves the tables alone: what is left to
\* show is the handler's own state and write set.
LEMMA LocalTypeOK ==
  ASSUME TypeOK, NEW r \in Request,
         HandlersOK', job' = job, UNCHANGED store,
         Placed(r)', \A x \in w'[r].ins : Stated(x),
         \A q \in Request \ {r} : /\ pc'[q] = pc[q] /\ at'[q] = at[q] /\ todo'[q] = todo[q]
                                  /\ names'[q] = names[q] /\ keys'[q] = keys[q]
                                  /\ w'[q] = w[q]
  PROVE  TypeOK'
<1>1. TablesOK'
  BY DEF TypeOK, TablesOK, store
<1>2. ASSUME NEW q \in Request PROVE Placed(q)'
  <2>1. CASE q = r
    BY <2>1
  <2>2. CASE q # r
    BY <2>2 DEF TypeOK, Placed, cands
  <2> QED
    BY <2>1, <2>2
<1>3. ASSUME NEW q \in Request, NEW x \in rows' \cup w'[q].ins PROVE Stated(x)'
  <2>1. Stated(x)
    BY DEF TypeOK, store
  <2> QED
    BY <2>1 DEF Stated, cands
<1> QED
  BY <1>1, <1>2, <1>3 DEF TypeOK

LEMMA BeginTurnTypeOK ==
  ASSUME TypeOK, NEW r \in Request, BeginTurn(r)
  PROVE  TypeOK'
<1>1. w' \in [Request -> Writes]
  <2>1. w[r] \in Writes /\ w \in [Request -> Writes]
    BY DEF TypeOK, HandlersOK
  <2>2. [w[r] EXCEPT !.ins = {Turn(r)}] \in Writes
    BY <2>1, OwnRows DEF Writes
  <2> QED
    BY <2>1, <2>2 DEF BeginTurn
<1>2. job[r].cands \in Seq(Candidate)
  BY StoreAssumption DEF TypeOK, HandlersOK, Job
<1>3. HandlersOK'
  BY <1>1 DEF TypeOK, HandlersOK, BeginTurn, Open, Pcs, store
<1>4. Placed(r)'
  BY <1>2 DEF TypeOK, HandlersOK, Placed, BeginTurn, Open, cands
<1>5. \A x \in w'[r].ins : Stated(x)
  BY OwnRows DEF TypeOK, HandlersOK, BeginTurn, Stated
<1> QED
  BY <1>3, <1>4, <1>5, LocalTypeOK DEF TypeOK, HandlersOK, BeginTurn

\* Moving on to the next candidate or entity keeps the handler in place.
LEMMA NextCandidatePlaced ==
  ASSUME TypeOK, NEW r \in Request, NextCandidate(r), at[r] \in 1..Len(cands(r)),
         job' = job, todo'[r] \subseteq MemoryRow
  PROVE  /\ pc' \in [Request -> Pcs] /\ at' \in [Request -> Nat]
         /\ Placed(r)'
         /\ \A q \in Request \ {r} : pc'[q] = pc[q] /\ at'[q] = at[q]
<1>1. Len(cands(r)) \in Nat
  BY StoreAssumption DEF TypeOK, HandlersOK, Job, cands
<1>2. pc \in [Request -> Pcs] /\ at \in [Request -> Nat] /\ at[r] \in Nat
  BY DEF TypeOK, HandlersOK
<1>3. cands(r)' = cands(r)
  BY DEF cands
<1>4. CASE at[r] < Len(cands(r))
  <2>1. pc' = [pc EXCEPT ![r] = "reconcile"] /\ at' = [at EXCEPT ![r] = @ + 1]
    BY <1>4 DEF NextCandidate
  <2>2. at[r] + 1 \in 1..Len(cands(r))
    BY <1>1, <1>2, <1>4
  <2>3. /\ pc' \in [Request -> Pcs] /\ at' \in [Request -> Nat]
        /\ \A q \in Request \ {r} : pc'[q] = pc[q] /\ at'[q] = at[q]
        /\ pc'[r] = "reconcile" /\ at'[r] = at[r] + 1
    BY <1>2, <2>1 DEF Pcs
  <2> QED
    BY <1>3, <2>2, <2>3 DEF Placed
<1>5. CASE ~(at[r] < Len(cands(r)))
  <2>1. pc' = [pc EXCEPT ![r] = "edges"] /\ at' = [at EXCEPT ![r] = 1]
    BY <1>5 DEF NextCandidate
  <2>2. /\ pc' \in [Request -> Pcs] /\ at' \in [Request -> Nat]
        /\ \A q \in Request \ {r} : pc'[q] = pc[q] /\ at'[q] = at[q]
        /\ pc'[r] = "edges" /\ at'[r] = 1
    BY <1>2, <2>1 DEF Pcs
  <2> QED
    BY <2>2 DEF Placed
<1> QED
  BY <1>4, <1>5

LEMMA NextEntityPlaced ==
  ASSUME TypeOK, NEW r \in Request, NEW rest \in Seq(Name), NextEntity(r, rest),
         at[r] \in 1..Len(cands(r)), job' = job, todo'[r] \subseteq MemoryRow
  PROVE  /\ pc' \in [Request -> Pcs] /\ at' \in [Request -> Nat]
         /\ names' \in [Request -> Seq(Name)]
         /\ Placed(r)'
         /\ \A q \in Request \ {r} : /\ pc'[q] = pc[q] /\ at'[q] = at[q]
                                     /\ names'[q] = names[q]
<1>1. names' \in [Request -> Seq(Name)] /\ names'[r] = rest
      /\ \A q \in Request \ {r} : names'[q] = names[q]
  BY DEF NextEntity, TypeOK, HandlersOK
<1>2. CASE rest = <<>>
  BY <1>1, <1>2, NextCandidatePlaced DEF NextEntity
<1>3. CASE rest # <<>>
  BY <1>1, <1>3 DEF NextEntity, TypeOK, HandlersOK, Pcs, Placed, cands
<1> QED
  BY <1>2, <1>3

\* Where the loop over candidates goes next.
LEMMA NextCandidateGoes ==
  ASSUME TypeOK, NEW r \in Request, NextCandidate(r)
  PROVE  /\ pc'[r] \in {"reconcile", "edges"}
         /\ \A q \in Request \ {r} : pc'[q] = pc[q] /\ at'[q] = at[q]
  BY DEF NextCandidate, TypeOK, HandlersOK

LEMMA NextEntityGoes ==
  ASSUME TypeOK, NEW r \in Request, NEW rest, NextEntity(r, rest)
  PROVE  /\ pc'[r] \in {"reconcile", "edges", "mentions"}
         /\ \A q \in Request \ {r} : pc'[q] = pc[q] /\ at'[q] = at[q]
<1>1. CASE rest = <<>>
  BY <1>1, NextCandidateGoes DEF NextEntity
<1>2. CASE rest # <<>>
  BY <1>2 DEF NextEntity, TypeOK, HandlersOK
<1> QED
  BY <1>1, <1>2

\* The memory a handler works on is one of its candidates.
LEMMA ThisMemoryStated ==
  ASSUME TypeOK, NEW r \in Request, at[r] \in 1..Len(cands(r))
  PROVE  /\ ThisMemory(r) \in MemoryRow /\ Stated(ThisMemory(r))
         /\ ThisMemory(r)[2] = r /\ ThisMemory(r)[3] = at[r]
         /\ Cand(ThisMemory(r)) \in Candidate
         /\ KeyOf(ThisMemory(r)) \in ScopeKey
<1>1. ThisMemory(r) \in MemoryRow /\ ThisMemory(r)[2] = r /\ ThisMemory(r)[3] = at[r]
  BY DEF TypeOK, HandlersOK, ThisMemory, Memory, MemoryRow
<1>2. Stated(ThisMemory(r))
  BY <1>1 DEF Stated
<1> QED
  BY <1>1, <1>2, Attributes DEF TypeOK

\* What reconcile decides concerns the active rows it was given.
LEMMA DecisionRows ==
  ASSUME NEW c, NEW S, NEW d \in Decisions(c, S)
  PROVE  d.deactivate \subseteq S /\ d.supersedes \subseteq S
<1>1. CASE d = Skip
  BY <1>1 DEF Skip
<1>2. CASE d # Skip
  <2>1. PICK gone \in Replaced(c, S) : \E head \in Heads(gone) : d = Insert(head, gone)
    BY <1>2 DEF Decisions
  <2>2. PICK head \in Heads(gone) : d = Insert(head, gone)
    BY <2>1
  <2>3. gone \subseteq S
    BY DEF Replaced, Quoted, Latest
  <2>4. head \subseteq gone
    BY DEF Heads, Latest
  <2> QED
    BY <2>2, <2>3, <2>4 DEF Insert
<1> QED
  BY <1>1, <1>2

LEMMA ReconcileTypeOK ==
  ASSUME TypeOK, NEW r \in Request, Reconcile(r)
  PROVE  TypeOK'
<1> DEFINE k == KeyOf(ThisMemory(r))
<1>1. at[r] \in 1..Len(cands(r))
  BY DEF TypeOK, Placed, Reconcile
<1>2. k \in ScopeKey
  BY <1>1, ThisMemoryStated
<1>3. PICK d \in Decisions(Cand(ThisMemory(r)), Rivals(r, k)) :
         /\ todo' = [todo EXCEPT ![r] = d.deactivate]
         /\ sup' = [sup EXCEPT ![r] = d.supersedes]
         /\ IF d.insert
            THEN pc' = [pc EXCEPT ![r] = "apply"] /\ UNCHANGED at
            ELSE NextCandidate(r)
  BY DEF Reconcile
<1>4. d.deactivate \subseteq MemoryRow /\ d.supersedes \subseteq MemoryRow
  BY DecisionRows, SeenRows DEF Rivals
<1>5. /\ todo' \in [Request -> SUBSET Row] /\ todo'[r] \subseteq MemoryRow
      /\ sup' \in [Request -> SUBSET Row]
      /\ \A q \in Request \ {r} : todo'[q] = todo[q]
  BY <1>3, <1>4, OwnRows DEF TypeOK, HandlersOK
<1>6. locks' \in [Request -> SUBSET {Hash(h) : h \in ScopeKey}]
  BY <1>2 DEF Reconcile, TypeOK, HandlersOK
<1>7. job' = job /\ UNCHANGED <<names, keys, begun, clock, w, store>>
  BY DEF Reconcile
<1>8. /\ pc' \in [Request -> Pcs] /\ at' \in [Request -> Nat]
      /\ Placed(r)'
      /\ \A q \in Request \ {r} : pc'[q] = pc[q] /\ at'[q] = at[q]
  <2>1. CASE d.insert
    <3>1. pc' = [pc EXCEPT ![r] = "apply"] /\ at' = at
      BY <2>1, <1>3
    <3>2. /\ pc' \in [Request -> Pcs] /\ at' \in [Request -> Nat]
          /\ pc'[r] = "apply"
          /\ \A q \in Request \ {r} : pc'[q] = pc[q] /\ at'[q] = at[q]
      BY <3>1 DEF TypeOK, HandlersOK, Pcs
    <3>3. cands(r)' = cands(r)
      BY <1>7 DEF cands
    <3> QED
      BY <1>1, <1>5, <3>1, <3>2, <3>3 DEF Placed
  <2>2. CASE ~d.insert
    BY <2>2, <1>1, <1>3, <1>5, <1>7, NextCandidatePlaced
  <2> QED
    BY <2>1, <2>2
<1>9. HandlersOK'
  BY <1>5, <1>6, <1>7, <1>8 DEF TypeOK, HandlersOK
<1> QED
  BY <1>5, <1>7, <1>8, <1>9, LocalTypeOK DEF TypeOK

LEMMA DeactivateTypeOK ==
  ASSUME TypeOK, NEW r \in Request, Deactivate(r)
  PROVE  TypeOK'
<1>1. PICK x \in todo[r] :
         /\ todo' = [todo EXCEPT ![r] = @ \ {x}]
         /\ w' = IF x \in Visible(r)
                 THEN [w EXCEPT ![r].off = @ \cup {x}, ![r].on = @ \ {x}]
                 ELSE w
  BY DEF Deactivate
<1>2. x \in MemoryRow
  BY DEF Deactivate, TypeOK, Placed
<1>3. w[r] \in Writes /\ w \in [Request -> Writes]
  BY DEF TypeOK, HandlersOK
<1>4. [w[r] EXCEPT !.off = @ \cup {x}, !.on = @ \ {x}] \in Writes
  BY <1>2, <1>3 DEF Writes
<1>5. w' \in [Request -> Writes] /\ w'[r].ins = w[r].ins
      /\ \A q \in Request \ {r} : w'[q] = w[q]
  BY <1>1, <1>3, <1>4 DEF Writes
<1>6. todo' \in [Request -> SUBSET Row] /\ todo'[r] \subseteq todo[r]
      /\ \A q \in Request \ {r} : todo'[q] = todo[q]
  BY <1>1 DEF TypeOK, HandlersOK
<1>7. HandlersOK'
  BY <1>5, <1>6 DEF Deactivate, TypeOK, HandlersOK
<1>8. Placed(r)'
  BY <1>6 DEF Deactivate, TypeOK, Placed, cands
<1> QED
  BY <1>5, <1>6, <1>7, <1>8, LocalTypeOK DEF Deactivate, TypeOK

\* Writing one row, with what refers to it, keeps a write set well formed.
LEMMA WriteInsert ==
  ASSUME NEW v \in Writes, NEW m \in MemoryRow, NEW S \in SUBSET Row
  PROVE  [v EXCEPT !.ins = @ \cup {m}, !.on = @ \cup {m},
                   !.chain = @ \cup ({m} \X S)] \in Writes
<1>1. v.ins \cup {m} \subseteq Row /\ v.on \cup {m} \subseteq MemoryRow
  BY DEF Writes, Row
<1>2. v.chain \cup ({m} \X S) \subseteq Row \X Row
  BY DEF Writes, Row
<1> QED
  BY <1>1, <1>2 DEF Writes

LEMMA WriteMention ==
  ASSUME NEW v \in Writes, NEW m \in Row, NEW e \in Row, NEW I \in SUBSET {e},
         NEW T \in SUBSET {e}
  PROVE  [v EXCEPT !.ins = @ \cup I, !.touch = @ \cup T,
                   !.mentions = @ \cup {<<m, e>>}] \in Writes
<1>1. v.ins \cup I \subseteq Row /\ v.touch \cup T \subseteq Row
  BY DEF Writes
<1>2. v.mentions \cup {<<m, e>>} \subseteq Row \X Row
  BY DEF Writes
<1> QED
  BY <1>1, <1>2 DEF Writes

LEMMA WriteEdges ==
  ASSUME NEW v \in Writes, NEW S \in SUBSET Row, NEW E \in SUBSET (Row \X Row \X EdgeKind)
  PROVE  [v EXCEPT !.share = @ \cup S, !.edges = @ \cup E] \in Writes
<1>1. v.share \cup S \subseteq Row
  BY DEF Writes
<1>2. v.edges \cup E \subseteq Row \X Row \X EdgeKind
  BY DEF Writes
<1> QED
  BY <1>1, <1>2 DEF Writes

LEMMA InsertMemoryTypeOK ==
  ASSUME TypeOK, NEW r \in Request, InsertMemory(r)
  PROVE  TypeOK'
<1> DEFINE m == ThisMemory(r)
<1>1. at[r] \in 1..Len(cands(r)) /\ todo[r] = {}
  BY DEF TypeOK, Placed, InsertMemory
<1>2. m \in MemoryRow /\ Stated(m) /\ Cand(m) \in Candidate
  BY <1>1, ThisMemoryStated
<1>3. w[r] \in Writes /\ w \in [Request -> Writes] /\ sup[r] \subseteq Row
  BY DEF TypeOK, HandlersOK
<1>4. [w[r] EXCEPT !.ins = @ \cup {m}, !.on = @ \cup {m},
                   !.chain = @ \cup ({m} \X sup[r])] \in Writes
  BY <1>2, <1>3, WriteInsert
<1>5. w' = [w EXCEPT ![r] = [w[r] EXCEPT !.ins = @ \cup {m}, !.on = @ \cup {m},
                                        !.chain = @ \cup ({m} \X sup[r])]]
  BY <1>3 DEF InsertMemory
<1>6. w' \in [Request -> Writes] /\ w'[r].ins = w[r].ins \cup {m}
      /\ \A q \in Request \ {r} : w'[q] = w[q]
  BY <1>3, <1>4, <1>5 DEF Writes
<1>7. sup' \in [Request -> SUBSET Row]
  BY DEF InsertMemory, TypeOK, HandlersOK
<1>8. UNCHANGED <<job, todo, keys, begun, clock, locks, store>>
  BY DEF InsertMemory
<1>9. /\ pc' \in [Request -> Pcs] /\ at' \in [Request -> Nat]
      /\ names' \in [Request -> Seq(Name)]
      /\ Placed(r)'
      /\ \A q \in Request \ {r} : pc'[q] = pc[q] /\ at'[q] = at[q] /\ names'[q] = names[q]
  <2>1. Cand(m).entities \in Seq(Name)
    BY <1>2 DEF Candidate
  <2>2. NextEntity(r, Cand(m).entities)
    BY DEF InsertMemory
  <2> QED
    BY <1>1, <1>8, <2>1, <2>2, NextEntityPlaced
<1>10. HandlersOK'
  BY <1>6, <1>7, <1>8, <1>9 DEF TypeOK, HandlersOK
<1>11. \A x \in w'[r].ins : Stated(x)
  BY <1>2, <1>6 DEF TypeOK
<1> QED
  BY <1>6, <1>8, <1>9, <1>10, <1>11, LocalTypeOK DEF TypeOK

LEMMA MentionEntityTypeOK ==
  ASSUME TypeOK, NEW r \in Request, MentionEntity(r)
  PROVE  TypeOK'
<1> DEFINE m == ThisMemory(r)
           e == ThisEntity(r)
           I == {e} \ Visible(r)
           T == {e} \cap Visible(r)
           v == [w[r] EXCEPT !.ins = @ \cup I, !.touch = @ \cup T,
                             !.mentions = @ \cup {<<m, e>>}]
<1>1. at[r] \in 1..Len(cands(r)) /\ todo[r] \subseteq MemoryRow /\ names[r] # <<>>
  BY DEF TypeOK, Placed, MentionEntity
<1>2. m \in Row
  BY <1>1, ThisMemoryStated, OwnRows
<1>3. names[r] \in Seq(Name) /\ Tail(names[r]) \in Seq(Name) /\ Head(names[r]) \in Name
  BY <1>1 DEF TypeOK, HandlersOK
<1>4. e \in Row /\ e \notin MemoryRow
  <2>1. ScopeOf(job[r]) \in Scope
    BY StoreAssumption DEF TypeOK, HandlersOK, Job, ScopeOf, Scope
  <2> QED
    BY <1>3, <2>1, OwnRows DEF ThisEntity
<1>5. w[r] \in Writes /\ w \in [Request -> Writes]
  BY DEF TypeOK, HandlersOK
<1>6. v \in Writes
  BY <1>2, <1>4, <1>5, WriteMention
<1>7. w' = [w EXCEPT ![r] = v]
  BY DEF MentionEntity
<1>8. w' \in [Request -> Writes] /\ w'[r].ins \subseteq w[r].ins \cup {e}
      /\ \A q \in Request \ {r} : w'[q] = w[q]
  BY <1>5, <1>6, <1>7 DEF Writes
<1>9. UNCHANGED <<job, todo, sup, keys, begun, clock, locks, store>>
  BY DEF MentionEntity
<1>10. /\ pc' \in [Request -> Pcs] /\ at' \in [Request -> Nat]
       /\ names' \in [Request -> Seq(Name)]
       /\ Placed(r)'
       /\ \A q \in Request \ {r} : pc'[q] = pc[q] /\ at'[q] = at[q] /\ names'[q] = names[q]
  <2>1. NextEntity(r, Tail(names[r]))
    BY DEF MentionEntity
  <2> QED
    BY <1>1, <1>3, <1>9, <2>1, NextEntityPlaced
<1>11. HandlersOK'
  BY <1>8, <1>9, <1>10 DEF TypeOK, HandlersOK
<1>12. \A x \in w'[r].ins : Stated(x)
  BY <1>4, <1>8 DEF TypeOK, Stated
<1> QED
  BY <1>8, <1>9, <1>10, <1>11, <1>12, LocalTypeOK DEF TypeOK

LEMMA LinkSourceTypeOK ==
  ASSUME TypeOK, NEW r \in Request, LinkSource(r)
  PROVE  TypeOK'
<1> DEFINE m == ThisMemory(r)
           new == {<<m, x, "co_extracted">> : x \in Inserted(r) \ {m}}
<1>1. w[r] \in Writes /\ w \in [Request -> Writes]
  BY DEF TypeOK, HandlersOK
<1>2. m \in Row
  BY OwnRows DEF ThisMemory, TypeOK, HandlersOK
<1>3. [w[r] EXCEPT !.edges = @ \cup new] \in Writes
  <2>1. new \subseteq Row \X Row \X EdgeKind
    BY <1>1, <1>2 DEF Writes, EdgeKind, Inserted
  <2>2. w[r].edges \cup new \subseteq Row \X Row \X EdgeKind
    BY <1>1, <2>1 DEF Writes
  <2> QED
    BY <1>1, <2>2 DEF Writes
<1>4. w' \in [Request -> Writes] /\ w'[r].ins = w[r].ins
      /\ \A q \in Request \ {r} : w'[q] = w[q]
  <2>1. CASE m \in Inserted(r)
    <3>1. w' = [w EXCEPT ![r] = [w[r] EXCEPT !.edges = @ \cup new]]
      BY <1>1, <2>1 DEF LinkSource
    <3> QED
      BY <1>1, <1>3, <3>1 DEF Writes
  <2>2. CASE m \notin Inserted(r)
    BY <1>1, <2>2 DEF LinkSource
  <2> QED
    BY <2>1, <2>2
<1>5. Peers(r, m) \subseteq MemoryRow
  BY SeenRows DEF Peers
<1>6. /\ todo' \in [Request -> SUBSET Row] /\ todo'[r] \subseteq MemoryRow
      /\ \A q \in Request \ {r} : todo'[q] = todo[q]
  <2>1. MemoryRow \subseteq Row
    BY DEF Row
  <2>2. CASE todo' = [todo EXCEPT ![r] = Peers(r, m)]
    BY <1>5, <2>1, <2>2 DEF TypeOK, HandlersOK
  <2>3. CASE todo' = todo
    BY <2>3 DEF LinkSource, TypeOK, HandlersOK
  <2> QED
    BY <2>2, <2>3 DEF LinkSource
<1>7. /\ at' \in [Request -> Nat] /\ at'[r] = at[r] + 1 /\ at[r] \in Nat
      /\ \A q \in Request \ {r} : at'[q] = at[q]
  BY DEF LinkSource, TypeOK, HandlersOK
<1>8. pc[r] = "edges" /\ UNCHANGED <<job, pc, sup, names, keys, begun, clock, locks, store>>
  BY DEF LinkSource
<1>9. HandlersOK'
  BY <1>4, <1>6, <1>7, <1>8 DEF TypeOK, HandlersOK
<1>10. Placed(r)'
  BY <1>6, <1>7, <1>8 DEF Placed
<1> QED
  BY <1>4, <1>6, <1>7, <1>8, <1>9, <1>10, LocalTypeOK DEF TypeOK

LEMMA LinkPeerTypeOK ==
  ASSUME TypeOK, NEW r \in Request, LinkPeer(r)
  PROVE  TypeOK'
<1> DEFINE m == Memory(r, at[r] - 1)
<1>1. PICK x \in todo[r] :
         /\ todo' = [todo EXCEPT ![r] = @ \ {x}]
         /\ w' = [w EXCEPT ![r].share = @ \cup {x},
                           ![r].edges = @ \cup {<<m, x, "same_subject">>,
                                                <<x, m, "same_subject">>}]
  BY DEF LinkPeer
<1>2. w[r] \in Writes /\ w \in [Request -> Writes]
  BY DEF TypeOK, HandlersOK
<1>3. m \in Row /\ x \in Row
  <2>1. at[r] - 1 \in Nat
    BY DEF LinkPeer, TypeOK, HandlersOK, Placed
  <2> QED
    BY <2>1, OwnRows DEF TypeOK, HandlersOK
<1>4. [w[r] EXCEPT !.share = @ \cup {x},
                   !.edges = @ \cup {<<m, x, "same_subject">>,
                                     <<x, m, "same_subject">>}] \in Writes
  <2> DEFINE E == {<<m, x, "same_subject">>, <<x, m, "same_subject">>}
  <2>1. E \subseteq Row \X Row \X EdgeKind
    BY <1>3 DEF EdgeKind
  <2> HIDE DEF E
  <2>2. [w[r] EXCEPT !.share = @ \cup {x}, !.edges = @ \cup E] \in Writes
    BY <1>2, <1>3, <2>1, WriteEdges
  <2> QED
    BY <2>2 DEF E
<1>5. w' = [w EXCEPT ![r] = [w[r] EXCEPT !.share = @ \cup {x},
                               !.edges = @ \cup {<<m, x, "same_subject">>,
                                                 <<x, m, "same_subject">>}]]
  BY <1>1, <1>2
<1>6. w' \in [Request -> Writes] /\ w'[r].ins = w[r].ins
      /\ \A q \in Request \ {r} : w'[q] = w[q]
  BY <1>2, <1>4, <1>5 DEF Writes
<1>7. /\ todo' \in [Request -> SUBSET Row] /\ todo'[r] \subseteq todo[r]
      /\ \A q \in Request \ {r} : todo'[q] = todo[q]
  BY <1>1 DEF TypeOK, HandlersOK
<1>8. pc[r] = "edges" /\ UNCHANGED <<job, pc, at, sup, names, keys, begun, clock, locks, store>>
  BY DEF LinkPeer
<1>9. HandlersOK'
  BY <1>6, <1>7, <1>8 DEF TypeOK, HandlersOK
<1>10. Placed(r)'
  BY <1>7, <1>8 DEF Placed, TypeOK
<1> QED
  BY <1>6, <1>7, <1>8, <1>9, <1>10, LocalTypeOK DEF TypeOK

LEMMA TurnStepTypeOK ==
  ASSUME TypeOK, NEW r \in Request, TurnStep(r)
  PROVE  TypeOK'
  BY BeginTurnTypeOK, ReconcileTypeOK, DeactivateTypeOK, InsertMemoryTypeOK,
     MentionEntityTypeOK, LinkSourceTypeOK, LinkPeerTypeOK, RollbackTypeOK, CommitTypeOK
  DEF TurnStep, ForeignKeyError, CommitTurn

\* The deletes.  The keys to recompute are those of rows that exist.
LEMMA DoomedRows ==
  ASSUME TypeOK, NEW r \in Request
  PROVE  /\ DoomedMemories(r) \subseteq MemoryRow
         /\ \A x \in DoomedMemories(r) : Stated(x)
  BY SeenRows DEF DoomedMemories, VisibleMemories

LEMMA OrdersAreSequences ==
  ASSUME NEW S, NEW q \in Orders(S)
  PROVE  q \in Seq(S)
<1>1. PICK n \in 0..Cardinality(S) : q \in [1..n -> S]
  BY DEF Orders
<1>2. n \in Nat
  OBVIOUS
<1> QED
  BY <1>1, <1>2

LEMMA BeginDeleteSessionTypeOK ==
  ASSUME TypeOK, NEW r \in Request, BeginDeleteSession(r)
  PROVE  TypeOK'
<1>1. AffectedKeys(r) \subseteq ScopeKey
  BY DoomedRows, Attributes DEF AffectedKeys, TypeOK
<1>2. PICK order \in Orders(AffectedKeys(r)) : keys' = [keys EXCEPT ![r] = order]
  BY DEF BeginDeleteSession
<1>3. order \in Seq(ScopeKey)
  <2>1. order \in Seq(AffectedKeys(r))
    BY OrdersAreSequences
  <2> QED
    BY <1>1, <2>1
<1>4. keys' \in [Request -> Seq(ScopeKey)]
  BY <1>2, <1>3 DEF TypeOK, HandlersOK
<1>5. HandlersOK'
  BY <1>4 DEF TypeOK, HandlersOK, BeginDeleteSession, Open, Pcs
<1>6. Placed(r)'
  BY DEF TypeOK, HandlersOK, Placed, BeginDeleteSession, Pcs
<1> QED
  BY <1>5, <1>6, LocalTypeOK DEF TypeOK, HandlersOK, BeginDeleteSession

LEMMA BeginDeleteUserTypeOK ==
  ASSUME TypeOK, NEW r \in Request, BeginDeleteUser(r)
  PROVE  TypeOK'
<1>1. HandlersOK'
  BY DEF TypeOK, HandlersOK, BeginDeleteUser, Open, Pcs, control
<1>2. Placed(r)'
  BY DEF TypeOK, HandlersOK, Placed, BeginDeleteUser, Pcs, control
<1> QED
  BY <1>1, <1>2, LocalTypeOK DEF TypeOK, HandlersOK, BeginDeleteUser, control

\* The targets of a statement are rows; those of the recompute are memories.
LEMMA TargetRows ==
  ASSUME TypeOK, NEW r \in Request, NEW statement, NEW T \in Targets(r, statement)
  PROVE  /\ T \subseteq Row
         /\ statement \in {"reset", "activate"} => T \subseteq MemoryRow
<1>1. Visible(r) \subseteq Row /\ VisibleMemories(r) \subseteq MemoryRow
  BY SeenRows DEF VisibleMemories
<1>2. DoomedMemories(r) \subseteq MemoryRow /\ MemoryRow \subseteq Row
  BY DoomedRows DEF Row
<1>3. DoomedTurns(r) \subseteq Row /\ DoomedEntities(r) \subseteq Row
  BY <1>1 DEF DoomedTurns, DoomedEntities
<1>4. CASE statement = "memories"
  BY <1>2, <1>4 DEF Targets
<1>5. CASE statement = "successors"
  BY <1>1, <1>5 DEF Targets
<1>6. CASE statement = "turns"
  BY <1>3, <1>6 DEF Targets
<1>7. CASE statement = "sources"
  BY <1>1, <1>2, <1>7 DEF Targets
<1>8. CASE statement = "entities"
  BY <1>3, <1>8 DEF Targets
<1>9. CASE statement = "reset"
  BY <1>1, <1>2, <1>9 DEF Targets, OfKey
<1>10. CASE statement = "activate"
  BY <1>1, <1>2, <1>10 DEF Targets, OfKey, Heads, Latest
<1>11. CASE statement \notin {"memories", "successors", "turns", "sources",
                             "entities", "reset", "activate"}
  <2>1. Targets(r, statement) = {{}}
    BY <1>11 DEF Targets
  <2> QED
    BY <1>11, <2>1
<1> QED
  BY <1>4, <1>5, <1>6, <1>7, <1>8, <1>9, <1>10, <1>11

LEMMA StatementTypeOK ==
  ASSUME TypeOK, NEW r \in Request,
         NEW next \in {"memories", "successors", "turns", "sources", "entities",
                       "reset", "activate", "commit"},
         next \in {"reset", "activate"} => keys[r] # <<>>,
         Statement(r, next)
  PROVE  TypeOK'
<1>1. PICK T \in Targets(r, next) : todo' = [todo EXCEPT ![r] = T]
  BY DEF Statement
<1>2. T \subseteq Row /\ (next \in {"reset", "activate"} => T \subseteq MemoryRow)
  BY TargetRows
<1>3. /\ todo' \in [Request -> SUBSET Row] /\ todo'[r] = T
      /\ \A q \in Request \ {r} : todo'[q] = todo[q]
  BY <1>1, <1>2 DEF TypeOK, HandlersOK
<1>4. keys' \in [Request -> Seq(ScopeKey)]
  <2>1. keys \in [Request -> Seq(ScopeKey)] /\ keys[r] \in Seq(ScopeKey)
    BY DEF TypeOK, HandlersOK
  <2>2. CASE next = "activate"
    <3>1. Tail(keys[r]) \in Seq(ScopeKey)
      BY <2>1, <2>2
    <3> QED
      BY <2>1, <2>2, <3>1 DEF Statement
  <2>3. CASE next # "activate"
    BY <2>1, <2>3 DEF Statement
  <2> QED
    BY <2>2, <2>3
<1>5. pc' = [pc EXCEPT ![r] = next] /\ next \in Pcs
  BY DEF Statement, Pcs
<1>6. UNCHANGED <<job, at, sup, names, begun, clock, locks, w, store>>
  BY DEF Statement
<1>7. HandlersOK'
  BY <1>3, <1>4, <1>5, <1>6 DEF TypeOK, HandlersOK
<1>8. Placed(r)'
  <2>1. pc'[r] = next
    BY <1>5 DEF TypeOK, HandlersOK
  <2> QED
    BY <1>2, <1>3, <2>1 DEF Placed, Statement
<1>9. \A q \in Request \ {r} : pc'[q] = pc[q] /\ keys'[q] = keys[q]
  BY <1>5 DEF TypeOK, HandlersOK, Statement
<1> QED
  BY <1>3, <1>6, <1>7, <1>8, <1>9, LocalTypeOK DEF TypeOK

LEMMA NextStatementTypeOK ==
  ASSUME TypeOK, NEW r \in Request, NextStatement(r)
  PROVE  TypeOK'
<1>1. CASE job[r].op = "delete_user"
  <2>1. pc[r] \in DOMAIN UserPlan /\ UserPlan[pc[r]] # "recompute"
    BY <1>1 DEF NextStatement, UserPlan
  <2>2. Statement(r, UserPlan[pc[r]])
    BY <1>1, <2>1 DEF NextStatement
  <2>3. UserPlan[pc[r]] \in {"entities", "memories", "successors", "turns", "sources", "commit"}
    BY <2>1 DEF UserPlan
  <2> QED
    BY <2>2, <2>3, StatementTypeOK
<1>2. CASE job[r].op # "delete_user"
  <2> DEFINE next == IF SessionPlan[pc[r]] # "recompute" THEN SessionPlan[pc[r]]
                     ELSE IF keys[r] = <<>> THEN "commit" ELSE "reset"
  <2>1. pc[r] \in DOMAIN SessionPlan /\ Statement(r, next)
    BY <1>2 DEF NextStatement
  <2>2. /\ next \in {"memories", "successors", "turns", "sources", "entities",
                     "reset", "activate", "commit"}
        /\ next = "activate" => pc[r] = "reset"
        /\ next = "reset" => keys[r] # <<>>
    BY <2>1 DEF SessionPlan
  <2>3. next \in {"reset", "activate"} => keys[r] # <<>>
    BY <2>2 DEF TypeOK, Placed
  <2> HIDE DEF next
  <2> QED
    BY <2>1, <2>2, <2>3, StatementTypeOK
<1> QED
  BY <1>1, <1>2

\* Visiting a row writes to that row only, and inserts nothing.
LEMMA VisitRowWrites ==
  ASSUME TypeOK, NEW r \in Request, VisitRow(r)
  PROVE  /\ w' \in [Request -> Writes] /\ w'[r].ins = w[r].ins
         /\ \A q \in Request \ {r} : w'[q] = w[q]
<1>1. PICK x \in todo[r] :
         w' = IF x \notin Visible(r) THEN w
              ELSE IF pc[r] \in Deleting THEN [w EXCEPT ![r].del = @ \cup {x}]
              ELSE IF pc[r] = "reset"
                   THEN [w EXCEPT ![r].off = @ \cup {x}, ![r].on = @ \ {x}]
              ELSE IF pc[r] = "activate"
                   THEN [w EXCEPT ![r].on = @ \cup {x}, ![r].off = @ \ {x}]
              ELSE [w EXCEPT ![r].touch = @ \cup {x}]
  BY DEF VisitRow
<1>2. w[r] \in Writes /\ w \in [Request -> Writes] /\ x \in Row
  BY DEF TypeOK, HandlersOK
<1>3. pc[r] \in {"reset", "activate"} => x \in MemoryRow
  BY DEF TypeOK, Placed
<1>4. CASE x \notin Visible(r)
  BY <1>1, <1>2, <1>4
<1>5. CASE x \in Visible(r) /\ pc[r] \in Deleting
  <2>1. [w[r] EXCEPT !.del = @ \cup {x}] \in Writes
    BY <1>2 DEF Writes
  <2> QED
    BY <1>1, <1>2, <1>5, <2>1 DEF Writes
<1>6. CASE x \in Visible(r) /\ pc[r] = "reset"
  <2>1. [w[r] EXCEPT !.off = @ \cup {x}, !.on = @ \ {x}] \in Writes
    BY <1>2, <1>3, <1>6 DEF Writes
  <2> QED
    BY <1>1, <1>2, <1>6, <2>1 DEF Writes, Deleting
<1>7. CASE x \in Visible(r) /\ pc[r] = "activate"
  <2>1. [w[r] EXCEPT !.on = @ \cup {x}, !.off = @ \ {x}] \in Writes
    BY <1>2, <1>3, <1>7 DEF Writes
  <2> QED
    BY <1>1, <1>2, <1>7, <2>1 DEF Writes, Deleting
<1>8. CASE x \in Visible(r) /\ pc[r] \notin Deleting \cup {"reset", "activate"}
  <2>1. [w[r] EXCEPT !.touch = @ \cup {x}] \in Writes
    BY <1>2 DEF Writes
  <2>2. w' = [w EXCEPT ![r] = [w[r] EXCEPT !.touch = @ \cup {x}]]
    BY <1>1, <1>2, <1>8
  <2> QED
    BY <1>2, <2>1, <2>2 DEF Writes
<1> QED
  BY <1>4, <1>5, <1>6, <1>7, <1>8

LEMMA VisitRowTypeOK ==
  ASSUME TypeOK, NEW r \in Request, VisitRow(r)
  PROVE  TypeOK'
<1>1. /\ w' \in [Request -> Writes] /\ w'[r].ins = w[r].ins
      /\ \A q \in Request \ {r} : w'[q] = w[q]
  BY VisitRowWrites
<1>2. /\ todo' \in [Request -> SUBSET Row] /\ todo'[r] \subseteq todo[r]
      /\ \A q \in Request \ {r} : todo'[q] = todo[q]
  BY DEF VisitRow, TypeOK, HandlersOK
<1>3. UNCHANGED <<job, pc, at, sup, names, keys, begun, clock, locks, store>>
  BY DEF VisitRow
<1>4. HandlersOK'
  BY <1>1, <1>2, <1>3 DEF TypeOK, HandlersOK
<1>5. Placed(r)'
  BY <1>2, <1>3 DEF Placed, TypeOK, cands
<1> QED
  BY <1>1, <1>2, <1>3, <1>4, <1>5, LocalTypeOK DEF TypeOK

LEMMA DeleteStepTypeOK ==
  ASSUME TypeOK, NEW r \in Request, DeleteStep(r)
  PROVE  TypeOK'
  BY BeginDeleteSessionTypeOK, BeginDeleteUserTypeOK, NextStatementTypeOK,
     VisitRowTypeOK, CommitTypeOK DEF DeleteStep, CommitDelete

LEMMA StutterTypeOK == ASSUME TypeOK, UNCHANGED vars PROVE TypeOK'
<1>1. HandlersOK' /\ TablesOK'
  BY DEF TypeOK, HandlersOK, TablesOK, vars, control, store
<1>2. ASSUME NEW r \in Request PROVE Placed(r)' /\ \A x \in rows' \cup w'[r].ins : Stated(x)'
  BY DEF TypeOK, Placed, Stated, cands, vars, control, store
<1> QED
  BY <1>1, <1>2 DEF TypeOK

\* Every request, at any point of any interleaving and whatever fails, leaves
\* the tables, the write sets and the handlers well formed.
THEOREM TypeCorrect == Spec => []TypeOK
<1>1. Init => TypeOK
  BY InitTypeOK DEF Init
<1>2. TypeOK /\ [Next]_vars => TypeOK'
  <2> SUFFICES ASSUME TypeOK, [Next]_vars PROVE TypeOK'
    OBVIOUS
  <2>1. CASE UNCHANGED vars
    BY <2>1, StutterTypeOK
  <2>2. CASE Next
    <3>1. PICK r \in Request : TurnStep(r) \/ DeleteStep(r) \/ DeadlockVictim(r) \/ Fail(r)
      BY <2>2 DEF Next
    <3> QED
      BY <3>1, TurnStepTypeOK, DeleteStepTypeOK, RollbackTypeOK DEF DeadlockVictim, Fail
  <2> QED
    BY <2>1, <2>2
<1> QED
  BY <1>1, <1>2, PTL DEF Spec

----------------------------------------------------------------------------
\* What is active.

\* Clashes concern attributes of rows, which never change.
LEMMA ClashStable ==
  ASSUME job' = job
  PROVE  /\ \A x : KeyOf(x)' = KeyOf(x)
         /\ \A x, y : Clash(x, y)' <=> Clash(x, y)
  BY DEF Clash, KeyOf, Cand

LEMMA InitConsistent == ASSUME StoreInit PROVE TurnsConsistent
<1>1. ActiveConsistent /\ Exclusive
  BY DEF StoreInit, ActiveConsistent, NoClash, Exclusive
<1>2. ASSUME NEW r \in Request PROVE Careful(r)
  BY DEF StoreInit, Careful, NoWrites, ActiveFor, NoClash
<1> QED
  BY <1>1, <1>2 DEF TurnsConsistent

\* A step inside the transaction of r: what is left to show is that r stays
\* careful and takes no lock of another transaction.
LEMMA LocalConsistent ==
  ASSUME TurnsConsistent, NEW r \in Request,
         job' = job, UNCHANGED store, Exclusive', Careful(r)',
         \A q \in Request \ {r} : /\ pc'[q] = pc[q] /\ at'[q] = at[q] /\ todo'[q] = todo[q]
                                  /\ w'[q] = w[q] /\ locks'[q] = locks[q]
  PROVE  TurnsConsistent'
<1>1. ActiveConsistent'
  BY ClashStable DEF TurnsConsistent, ActiveConsistent, NoClash, store
<1>2. ASSUME NEW q \in Request \ {r} PROVE Careful(q)'
  <2>1. ActiveFor(q)' = ActiveFor(q)
    BY DEF ActiveFor, Visible, store
  <2>2. ThisMemory(q)' = ThisMemory(q)
    BY DEF ThisMemory, Memory
  <2>3. Careful(q)
    BY DEF TurnsConsistent
  <2> QED
    BY <2>1, <2>2, <2>3, ClashStable DEF Careful, NoClash
<1> QED
  BY <1>1, <1>2 DEF TurnsConsistent

\* A step that neither locks nor changes what r activates, inserts, deactivates
\* or deletes.
LEMMA QuietConsistent ==
  ASSUME TurnsConsistent, NEW r \in Request,
         job' = job, UNCHANGED <<store, locks>>,
         w'[r].ins = w[r].ins, w'[r].on = w[r].on, w'[r].off = w[r].off,
         w[r].del \subseteq w'[r].del,
         pc'[r] \notin {"waiting", "apply", "affected", "reset", "activate"},
         \A q \in Request \ {r} : /\ pc'[q] = pc[q] /\ at'[q] = at[q] /\ todo'[q] = todo[q]
                                  /\ w'[q] = w[q]
  PROVE  TurnsConsistent'
<1>1. Careful(r)
  BY DEF TurnsConsistent
<1>2. ActiveFor(r)' \subseteq ActiveFor(r)
  BY DEF ActiveFor, Visible, store
<1>3. Careful(r)'
  BY <1>1, <1>2, ClashStable DEF Careful, NoClash
<1>4. Exclusive'
  BY DEF TurnsConsistent, Exclusive
<1> QED
  BY <1>3, <1>4, LocalConsistent

\* A commit publishes a view without clashes.  Whatever another transaction has
\* activated cannot clash with it: both would hold the lock of one key.
LEMMA CommitConsistent ==
  ASSUME TypeOK, TurnsConsistent, NEW q \in Request, Commit(q)
  PROVE  TurnsConsistent'
<1>1. /\ rows' = Visible(q) /\ active' = ActiveFor(q) /\ job' = job
      /\ Close(q, "done")
  BY DEF Commit, Close
<1>2. Careful(q) /\ NoClash(active)
  BY DEF TurnsConsistent, ActiveConsistent
<1>3. ActiveConsistent'
  BY <1>1, <1>2, ClashStable DEF Careful, ActiveConsistent, NoClash
<1>4. w'[q] = NoWrites /\ locks'[q] = {} /\ pc'[q] = "done"
  BY <1>1 DEF Close, TypeOK, HandlersOK
<1>5. \A r \in Request \ {q} : /\ pc'[r] = pc[r] /\ at'[r] = at[r] /\ todo'[r] = todo[r]
                               /\ w'[r] = w[r] /\ locks'[r] = locks[r]
  BY <1>1 DEF Close, TypeOK, HandlersOK
<1>6. Exclusive'
  BY <1>4, <1>5 DEF TurnsConsistent, Exclusive
<1>7. Careful(q)'
  <2>1. ActiveFor(q)' \subseteq active'
    BY <1>4 DEF ActiveFor, NoWrites
  <2> QED
    BY <1>3, <1>4, <2>1 DEF Careful, NoWrites, ActiveConsistent, NoClash
<1>8. ASSUME NEW r \in Request \ {q} PROVE Careful(r)'
  <2>1. Careful(r)
    BY DEF TurnsConsistent
  <2>2. ASSUME NEW x \in ActiveFor(r)', x \notin ActiveFor(r)
        PROVE  x \in ActiveFor(q) /\ x \in w[q].on
    <3>1. x \in (ActiveFor(q) \ w[r].off) \cup w[r].on
      BY <1>1, <1>5 DEF ActiveFor
    <3>2. x \in Visible(q) \cup w[r].ins /\ x \notin w[r].del
      BY <1>1, <1>5 DEF ActiveFor, Visible
    <3>3. x \notin w[r].on
      BY <2>1, <2>2, <3>2 DEF Careful, ActiveFor, Visible
    <3>4. x \notin active
      BY <2>2, <3>1, <3>2, <3>3 DEF ActiveFor, Visible, TypeOK, TablesOK
    <3> QED
      BY <3>1, <3>3, <3>4 DEF ActiveFor
  <2>3. \A x \in ActiveFor(r)' : x \in ActiveFor(q) \/ x \in w[r].on
    BY <1>1, <1>5 DEF ActiveFor
  <2>4. locks[r] \cap locks[q] = {}
    BY DEF TurnsConsistent, Exclusive
  <2>5. NoClash(ActiveFor(r)')
    <3> SUFFICES ASSUME NEW x \in ActiveFor(r)', NEW y \in ActiveFor(r)', Clash(x, y)
                 PROVE  FALSE
      BY DEF NoClash
    <3>1. KeyOf(x) = KeyOf(y)
      BY DEF Clash
    <3>2. CASE x \in ActiveFor(r) /\ y \in ActiveFor(r)
      BY <2>1, <3>2 DEF Careful, NoClash
    <3>3. CASE x \in ActiveFor(q) /\ y \in ActiveFor(q)
      BY <1>2, <3>3 DEF Careful, NoClash
    <3>4. CASE x \in w[q].on /\ y \in w[r].on
      BY <1>2, <2>1, <2>4, <3>1, <3>4 DEF Careful
    <3>5. CASE x \in w[r].on /\ y \in w[q].on
      BY <1>2, <2>1, <2>4, <3>1, <3>5 DEF Careful
    <3> QED
      BY <2>2, <2>3, <3>2, <3>3, <3>4, <3>5
  <2>6. ThisMemory(r)' = ThisMemory(r)
    BY <1>5 DEF ThisMemory, Memory
  <2>7. ASSUME pc[r] = "apply", NEW y \in ActiveFor(r)', Clash(ThisMemory(r), y)
        PROVE  y \in todo[r]
    <3>1. KeyOf(ThisMemory(r)) = KeyOf(y)
      BY <2>7 DEF Clash
    <3>2. Hash(KeyOf(ThisMemory(r))) \in locks[r]
      BY <2>1, <2>7 DEF Careful
    <3>3. y \notin w[q].on
      BY <1>2, <2>4, <3>1, <3>2 DEF Careful
    <3> QED
      BY <2>1, <2>2, <2>7, <3>3 DEF Careful
  <2>8. NoClash(ActiveFor(r))'
    BY <1>1, <2>5, ClashStable DEF NoClash
  <2> QED
    BY <1>1, <1>5, <2>1, <2>6, <2>7, <2>8, ClashStable DEF Careful
<1> QED
  BY <1>3, <1>6, <1>7, <1>8 DEF TurnsConsistent

\* A rollback leaves no trace.
LEMMA RollbackConsistent ==
  ASSUME TypeOK, TurnsConsistent, NEW r \in Request, Rollback(r)
  PROVE  TurnsConsistent'
<1>1. Close(r, "failed") /\ job' = job /\ UNCHANGED store
  BY DEF Rollback, Close
<1>2. w'[r] = NoWrites /\ locks'[r] = {} /\ pc'[r] = "failed"
  BY <1>1 DEF Close, TypeOK, HandlersOK
<1>3. \A q \in Request \ {r} : /\ pc'[q] = pc[q] /\ at'[q] = at[q] /\ todo'[q] = todo[q]
                               /\ w'[q] = w[q] /\ locks'[q] = locks[q]
  BY <1>1 DEF Close, TypeOK, HandlersOK
<1>4. Exclusive'
  BY <1>2, <1>3 DEF TurnsConsistent, Exclusive
<1>5. Careful(r)'
  <2>1. ActiveFor(r)' \subseteq active
    BY <1>1, <1>2 DEF ActiveFor, NoWrites, store
  <2> QED
    BY <1>1, <1>2, <2>1, ClashStable
    DEF Careful, NoWrites, TurnsConsistent, ActiveConsistent, NoClash
<1> QED
  BY <1>1, <1>3, <1>4, <1>5, LocalConsistent

\* The turn itself is no memory.
LEMMA BeginTurnConsistent ==
  ASSUME TypeOK, TurnsConsistent, NEW r \in Request, BeginTurn(r)
  PROVE  TurnsConsistent'
<1>1. /\ UNCHANGED <<job, todo, locks, store>>
      /\ pc[r] = "waiting" /\ pc'[r] \in {"edges", "reconcile"}
      /\ w'[r] = [w[r] EXCEPT !.ins = {Turn(r)}]
  BY DEF BeginTurn, Open, TypeOK, HandlersOK
<1>2. \A q \in Request \ {r} : pc'[q] = pc[q] /\ at'[q] = at[q] /\ w'[q] = w[q]
  BY DEF BeginTurn, TypeOK, HandlersOK
<1>3. Careful(r) /\ NoClash(active) /\ Exclusive'
  BY <1>1 DEF TurnsConsistent, ActiveConsistent, Exclusive
<1>4. w'[r].on = {} /\ w'[r].ins = {Turn(r)}
  BY <1>1, <1>3 DEF Careful, TypeOK, HandlersOK, Writes
<1>5. ActiveFor(r)' \subseteq active
  BY <1>1, <1>4 DEF ActiveFor, store
<1>6. Careful(r)'
  BY <1>1, <1>3, <1>4, <1>5, ClashStable DEF Careful, NoClash
<1> QED
  BY <1>1, <1>2, <1>3, <1>6, LocalConsistent

\* An inserted candidate replaces every active memory it would clash with.
LEMMA DecisionCoversClashes ==
  ASSUME NEW c, NEW S, NEW d \in Decisions(c, S), d.insert, NEW y \in S,
         c.predicate \in Single \/ Cand(y).object = c.object
  PROVE  y \in d.deactivate
<1>1. /\ ~\E x \in S : Cand(x).object = c.object
      /\ \E gone \in Replaced(c, S) : \E head \in Heads(gone) : d = Insert(head, gone)
  BY DEF Decisions, Skip
<1>2. Replaced(c, S) = {S}
  BY <1>1 DEF Replaced
<1> QED
  BY <1>1, <1>2 DEF Insert

LEMMA ReconcileConsistent ==
  ASSUME TypeOK, TurnsConsistent, NEW r \in Request, Reconcile(r)
  PROVE  TurnsConsistent'
<1> DEFINE m == ThisMemory(r)
           k == KeyOf(m)
<1>1. /\ UNCHANGED <<job, w, store>>
      /\ LockFree(r, k)
      /\ locks' = [locks EXCEPT ![r] = @ \cup {Hash(k)}]
  BY DEF Reconcile
<1>2. PICK d \in Decisions(Cand(m), Rivals(r, k)) :
         /\ todo' = [todo EXCEPT ![r] = d.deactivate]
         /\ IF d.insert
            THEN pc' = [pc EXCEPT ![r] = "apply"] /\ UNCHANGED at
            ELSE NextCandidate(r)
  BY DEF Reconcile
<1>3. Careful(r)
  BY DEF TurnsConsistent
<1>4. /\ locks'[r] = locks[r] \cup {Hash(k)} /\ todo'[r] = d.deactivate
      /\ \A q \in Request \ {r} : locks'[q] = locks[q] /\ todo'[q] = todo[q]
  BY <1>1, <1>2 DEF TypeOK, HandlersOK
<1>5. Exclusive'
  <2>1. \A q \in Request \ {r} : Hash(k) \notin locks[q]
    BY <1>1 DEF LockFree
  <2> QED
    BY <1>4, <2>1 DEF TurnsConsistent, Exclusive
<1>6. ActiveFor(r)' = ActiveFor(r)
  BY <1>1 DEF ActiveFor, Visible, store
<1>7. CASE d.insert
  <2>1. /\ pc'[r] = "apply" /\ at' = at
        /\ \A q \in Request \ {r} : pc'[q] = pc[q]
    BY <1>2, <1>7 DEF TypeOK, HandlersOK
  <2>2. ThisMemory(r)' = m
    BY <2>1 DEF ThisMemory, Memory
  <2>3. ASSUME NEW y \in ActiveFor(r), Clash(m, y) PROVE y \in d.deactivate
    <3>1. y \in Rivals(r, k)
      BY <2>3 DEF Rivals, Clash
    <3>2. Cand(m).predicate \in Single \/ Cand(y).object = Cand(m).object
      BY <2>3 DEF Clash
    <3> QED
      BY <1>2, <1>7, <3>1, <3>2, DecisionCoversClashes
  <2>4. Careful(r)'
    BY <1>1, <1>3, <1>4, <1>6, <2>1, <2>2, <2>3, ClashStable DEF Careful, NoClash
  <2> QED
    BY <1>1, <1>4, <1>5, <2>1, <2>4, LocalConsistent
<1>8. CASE ~d.insert
  <2>1. /\ pc'[r] \in {"reconcile", "edges"}
        /\ \A q \in Request \ {r} : pc'[q] = pc[q] /\ at'[q] = at[q]
    BY <1>2, <1>8, NextCandidateGoes
  <2>2. Careful(r)'
    BY <1>1, <1>3, <1>4, <1>6, <2>1, ClashStable DEF Careful, NoClash
  <2> QED
    BY <1>1, <1>4, <1>5, <2>1, <2>2, LocalConsistent
<1> QED
  BY <1>7, <1>8

LEMMA DeactivateConsistent ==
  ASSUME TypeOK, TurnsConsistent, NEW r \in Request, Deactivate(r)
  PROVE  TurnsConsistent'
<1>1. PICK x \in todo[r] :
         /\ todo' = [todo EXCEPT ![r] = @ \ {x}]
         /\ w' = IF x \in Visible(r)
                 THEN [w EXCEPT ![r].off = @ \cup {x}, ![r].on = @ \ {x}]
                 ELSE w
  BY DEF Deactivate
<1>2. UNCHANGED <<job, pc, at, locks, store>> /\ pc[r] = "apply"
  BY DEF Deactivate
<1>3. /\ todo'[r] = todo[r] \ {x}
      /\ \A q \in Request \ {r} : todo'[q] = todo[q] /\ w'[q] = w[q]
  BY <1>1 DEF TypeOK, HandlersOK
<1>4. /\ w'[r].ins = w[r].ins /\ w'[r].del = w[r].del
      /\ w'[r].on \subseteq w[r].on /\ w[r].off \subseteq w'[r].off
      /\ x \in Visible(r) => x \in w'[r].off /\ x \notin w'[r].on
  BY <1>1 DEF TypeOK, HandlersOK, Writes
<1>5. ActiveFor(r)' \subseteq ActiveFor(r) \ {x}
  BY <1>2, <1>4 DEF ActiveFor, Visible, store
<1>6. Careful(r) /\ Exclusive'
  BY <1>2 DEF TurnsConsistent, Exclusive
<1>7. ThisMemory(r)' = ThisMemory(r)
  BY <1>2 DEF ThisMemory, Memory
<1>8. Careful(r)'
  BY <1>2, <1>3, <1>4, <1>5, <1>6, <1>7, ClashStable DEF Careful, NoClash
<1> QED
  BY <1>2, <1>3, <1>6, <1>8, LocalConsistent

LEMMA InsertMemoryConsistent ==
  ASSUME TypeOK, TurnsConsistent, NEW r \in Request, InsertMemory(r)
  PROVE  TurnsConsistent'
<1> DEFINE m == ThisMemory(r)
<1>1. /\ UNCHANGED <<job, todo, locks, store>>
      /\ pc[r] = "apply" /\ todo[r] = {}
  BY DEF InsertMemory
<1>2. /\ w'[r].ins = w[r].ins \cup {m} /\ w'[r].on = w[r].on \cup {m}
      /\ w'[r].off = w[r].off /\ w'[r].del = w[r].del
      /\ \A q \in Request \ {r} : w'[q] = w[q]
  BY DEF InsertMemory, TypeOK, HandlersOK, Writes
<1>3. /\ pc'[r] \in {"reconcile", "edges", "mentions"}
      /\ \A q \in Request \ {r} : pc'[q] = pc[q] /\ at'[q] = at[q]
  BY NextEntityGoes DEF InsertMemory
<1>4. Careful(r) /\ Exclusive'
  BY <1>1 DEF TurnsConsistent, Exclusive
<1>5. ActiveFor(r)' \subseteq ActiveFor(r) \cup {m}
  BY <1>1, <1>2 DEF ActiveFor, Visible, store
<1>6. \A y \in ActiveFor(r) : ~Clash(m, y) /\ ~Clash(y, m)
  <2>1. \A y \in ActiveFor(r) : ~Clash(m, y)
    BY <1>1, <1>4 DEF Careful
  <2>2. \A y : Clash(y, m) => Clash(m, y)
    BY DEF Clash, KeyOf
  <2> QED
    BY <2>1, <2>2
<1>7. NoClash(ActiveFor(r)')
  BY <1>4, <1>5, <1>6 DEF Careful, NoClash, Clash
<1>8. Careful(r)'
  BY <1>1, <1>2, <1>3, <1>4, <1>7, ClashStable DEF Careful, NoClash
<1> QED
  BY <1>1, <1>2, <1>3, <1>4, <1>8, LocalConsistent

\* An entity is no memory.
LEMMA MentionEntityConsistent ==
  ASSUME TypeOK, TurnsConsistent, NEW r \in Request, MentionEntity(r)
  PROVE  TurnsConsistent'
<1> DEFINE e == ThisEntity(r)
<1>1. UNCHANGED <<job, todo, locks, store>>
  BY DEF MentionEntity
<1>2. /\ w[r].ins \subseteq w'[r].ins /\ w'[r].ins \subseteq w[r].ins \cup {e}
      /\ w'[r].on = w[r].on
      /\ w'[r].off = w[r].off /\ w'[r].del = w[r].del
      /\ \A q \in Request \ {r} : w'[q] = w[q]
  BY DEF MentionEntity, TypeOK, HandlersOK, Writes
<1>3. /\ pc'[r] \in {"reconcile", "edges", "mentions"}
      /\ \A q \in Request \ {r} : pc'[q] = pc[q] /\ at'[q] = at[q]
  BY NextEntityGoes DEF MentionEntity
<1>4. Careful(r) /\ Exclusive'
  BY <1>1 DEF TurnsConsistent, Exclusive
<1>5. e \notin MemoryRow
  BY DEF ThisEntity, Entity, MemoryRow
<1>6. ActiveFor(r)' \subseteq ActiveFor(r)
  BY <1>1, <1>2, <1>5 DEF ActiveFor, Visible, store, TypeOK, TablesOK, HandlersOK, Writes
<1>7. Careful(r)'
  BY <1>1, <1>2, <1>3, <1>4, <1>6, ClashStable DEF Careful, NoClash
<1> QED
  BY <1>1, <1>2, <1>3, <1>4, <1>7, LocalConsistent

LEMMA LinkSourceConsistent ==
  ASSUME TypeOK, TurnsConsistent, NEW r \in Request, LinkSource(r)
  PROVE  TurnsConsistent'
<1>1. /\ w'[r].ins = w[r].ins /\ w'[r].on = w[r].on /\ w'[r].off = w[r].off
      /\ w'[r].del = w[r].del
      /\ \A q \in Request \ {r} : w'[q] = w[q]
  BY DEF LinkSource, TypeOK, HandlersOK, Writes
<1>2. \A q \in Request \ {r} : at'[q] = at[q] /\ todo'[q] = todo[q]
  BY DEF LinkSource, TypeOK, HandlersOK
<1>3. pc[r] = "edges" /\ UNCHANGED <<job, pc, locks, store>>
  BY DEF LinkSource
<1> QED
  BY <1>1, <1>2, <1>3, QuietConsistent

LEMMA LinkPeerConsistent ==
  ASSUME TypeOK, TurnsConsistent, NEW r \in Request, LinkPeer(r)
  PROVE  TurnsConsistent'
<1>1. /\ w'[r].ins = w[r].ins /\ w'[r].on = w[r].on /\ w'[r].off = w[r].off
      /\ w'[r].del = w[r].del
      /\ \A q \in Request \ {r} : w'[q] = w[q] /\ todo'[q] = todo[q]
  BY DEF LinkPeer, TypeOK, HandlersOK, Writes
<1>2. pc[r] = "edges" /\ UNCHANGED <<job, pc, at, locks, store>>
  BY DEF LinkPeer
<1> QED
  BY <1>1, <1>2, QuietConsistent

LEMMA BeginDeleteUserConsistent ==
  ASSUME TypeOK, TurnsConsistent, NEW r \in Request, BeginDeleteUser(r)
  PROVE  TurnsConsistent'
<1>1. /\ UNCHANGED <<job, at, todo, locks, w, store>>
      /\ pc'[r] = "begin" /\ \A q \in Request \ {r} : pc'[q] = pc[q]
  BY DEF BeginDeleteUser, control, TypeOK, HandlersOK
<1> QED
  BY <1>1, QuietConsistent

\* The statements of a user delete recompute nothing.
LEMMA NextStatementConsistent ==
  ASSUME TypeOK, TurnsConsistent, NEW r \in Request, job[r].op = "delete_user",
         NextStatement(r)
  PROVE  TurnsConsistent'
<1>1. /\ pc[r] \in DOMAIN UserPlan /\ UserPlan[pc[r]] # "recompute"
      /\ Statement(r, UserPlan[pc[r]])
  BY DEF NextStatement, UserPlan
<1>2. UserPlan[pc[r]] \in {"entities", "memories", "successors", "turns", "sources", "commit"}
  BY <1>1 DEF UserPlan
<1>3. /\ pc'[r] = UserPlan[pc[r]]
      /\ \A q \in Request \ {r} : pc'[q] = pc[q] /\ todo'[q] = todo[q]
      /\ UNCHANGED <<job, at, locks, w, store>>
  BY <1>1 DEF Statement, TypeOK, HandlersOK
<1> QED
  BY <1>2, <1>3, QuietConsistent

LEMMA VisitRowConsistent ==
  ASSUME TypeOK, TurnsConsistent, NEW r \in Request, VisitRow(r)
  PROVE  TurnsConsistent'
<1>1. pc[r] \in (Deleting \cup Updating) \ {"reset", "activate"}
  BY DEF VisitRow, TurnsConsistent, Careful
<1>2. PICK x \in todo[r] :
         w' = IF x \notin Visible(r) THEN w
              ELSE IF pc[r] \in Deleting THEN [w EXCEPT ![r].del = @ \cup {x}]
              ELSE [w EXCEPT ![r].touch = @ \cup {x}]
  BY <1>1 DEF VisitRow
<1>3. /\ w'[r].ins = w[r].ins /\ w'[r].on = w[r].on /\ w'[r].off = w[r].off
      /\ w[r].del \subseteq w'[r].del
      /\ \A q \in Request \ {r} : w'[q] = w[q]
  BY <1>2 DEF TypeOK, HandlersOK, Writes
<1>4. \A q \in Request \ {r} : todo'[q] = todo[q]
  BY DEF VisitRow, TypeOK, HandlersOK
<1>5. UNCHANGED <<job, pc, at, locks, store>>
  BY DEF VisitRow
<1> QED
  BY <1>1, <1>3, <1>4, <1>5, QuietConsistent DEF Deleting, Updating

LEMMA StutterConsistent ==
  ASSUME TurnsConsistent, UNCHANGED vars
  PROVE  TurnsConsistent'
<1>1. UNCHANGED <<job, pc, at, todo, locks, w, store>>
  BY DEF vars, control
<1>2. ActiveConsistent' /\ Exclusive'
  BY <1>1, ClashStable DEF TurnsConsistent, ActiveConsistent, NoClash, Exclusive, store
<1>3. ASSUME NEW q \in Request PROVE Careful(q)'
  <2>1. ActiveFor(q)' = ActiveFor(q) /\ ThisMemory(q)' = ThisMemory(q)
    BY <1>1 DEF ActiveFor, Visible, store, ThisMemory, Memory
  <2> QED
    BY <1>1, <2>1, ClashStable DEF TurnsConsistent, Careful, NoClash
<1> QED
  BY <1>2, <1>3 DEF TurnsConsistent

\* No session delete is about.
NoRecompute == \A r \in Request : job[r].op # "delete_session"

\* What a request asks for never changes.
LEMMA JobsStay == ASSUME [Next]_vars PROVE job' = job
<1>1. \A r \in Request : Rollback(r) \/ Commit(r) => job' = job
  BY DEF Rollback, Commit, Close
<1>2. ASSUME NEW r \in Request, TurnStep(r) PROVE job' = job
  BY <1>1, <1>2 DEF TurnStep, BeginTurn, Reconcile, Deactivate, InsertMemory, MentionEntity,
     LinkSource, LinkPeer, ForeignKeyError, CommitTurn
<1>3. ASSUME NEW r \in Request, DeleteStep(r) PROVE job' = job
  BY <1>1, <1>3 DEF DeleteStep, BeginDeleteSession, BeginDeleteUser, NextStatement, Statement,
     VisitRow, CommitDelete
<1> QED
  BY <1>1, <1>2, <1>3 DEF Next, DeadlockVictim, Fail, vars

LEMMA NextConsistent ==
  ASSUME TypeOK, TurnsConsistent, NoRecompute, [Next]_vars
  PROVE  TurnsConsistent'
<1>1. CASE UNCHANGED vars
  BY <1>1, StutterConsistent
<1>2. CASE Next
  <2>1. PICK r \in Request : TurnStep(r) \/ DeleteStep(r) \/ DeadlockVictim(r) \/ Fail(r)
    BY <1>2 DEF Next
  <2>2. job[r].op \in {"turn", "delete_user"}
    BY StoreAssumption DEF NoRecompute, TypeOK, HandlersOK, Job
  <2>3. CASE TurnStep(r)
    BY <2>3, BeginTurnConsistent, ReconcileConsistent, DeactivateConsistent,
       InsertMemoryConsistent, MentionEntityConsistent, LinkSourceConsistent,
       LinkPeerConsistent, RollbackConsistent, CommitConsistent
    DEF TurnStep, ForeignKeyError, CommitTurn
  <2>4. CASE DeleteStep(r)
    <3>1. CASE BeginDeleteSession(r)
      BY <2>2, <3>1 DEF BeginDeleteSession
    <3>2. CASE NextStatement(r)
      BY <2>2, <3>2, NextStatementConsistent DEF NextStatement
    <3> QED
      BY <2>4, <3>1, <3>2, BeginDeleteUserConsistent, VisitRowConsistent,
         CommitConsistent DEF DeleteStep, CommitDelete
  <2>5. CASE DeadlockVictim(r) \/ Fail(r)
    BY <2>5, RollbackConsistent DEF DeadlockVictim, Fail
  <2> QED
    BY <2>1, <2>3, <2>4, <2>5
<1> QED
  BY <1>1, <1>2

\* While no session delete is about the inductive invariant holds, whatever turns
\* and user deletes interleave to, wait for, lose or roll back.
LEMMA AdvisoryLocksHold == Spec => [](NoRecompute => TurnsConsistent)
<1>1. Init => TurnsConsistent
  BY InitConsistent DEF Init
<1>2. TypeOK /\ (NoRecompute => TurnsConsistent) /\ [Next]_vars
      => (NoRecompute => TurnsConsistent)'
  <2> SUFFICES ASSUME TypeOK, NoRecompute => TurnsConsistent, [Next]_vars, NoRecompute'
               PROVE  TurnsConsistent'
    OBVIOUS
  <2>1. NoRecompute
    BY JobsStay DEF NoRecompute
  <2> QED
    BY <2>1, NextConsistent
<1> QED
  BY <1>1, <1>2, TypeCorrect, PTL DEF Spec

\* Where sessions are never deleted the inductive invariant holds: every
\* transaction activates only what it holds the lock for.
THEOREM AdvisoryLocksSuffice ==
  ASSUME \A j \in Jobs : j.op # "delete_session"
  PROVE  Spec => []TurnsConsistent
<1>1. TypeOK => NoRecompute
  BY DEF TypeOK, HandlersOK, NoRecompute
<1> QED
  BY <1>1, TypeCorrect, AdvisoryLocksHold, PTL

\* Without session deletes no two active memories ever clash: reconcile under the
\* advisory lock never leaves two values of a single-valued key, nor a fact twice.
THEOREM TurnsNeverClash ==
  ASSUME \A j \in Jobs : j.op # "delete_session"
  PROVE  Spec => []ActiveConsistent
<1>1. TurnsConsistent => ActiveConsistent
  BY DEF TurnsConsistent
<1> QED
  BY <1>1, AdvisoryLocksSuffice, PTL

----------------------------------------------------------------------------
\* Which keys a request changes: turns and both deletes, without exception.

StatedBy(q) == {KeyOf(Memory(q, i)) : i \in DOMAIN cands(q)}

InReach(S, r) == \A x \in S \cap MemoryRow : KeyOf(x) \in Reach(r)

\* Everything a request activates, deactivates or deletes, or is about to, is under
\* the keys it may change, and so are the keys it will recompute.
OwnKeys(r) ==
    /\ InReach(w[r].on \cup w[r].off \cup w[r].del, r)
    /\ pc[r] \in {"apply", "memories", "reset", "activate"} => InReach(todo[r], r)
    /\ pc[r] \in {"turns", "entities"} => todo[r] \cap MemoryRow = {}
    /\ pc[r] \in {"reconcile", "apply", "mentions", "edges"} => job[r].op = "turn"
    /\ \A i \in DOMAIN keys[r] : keys[r][i] \in Reach(r)

LEMMA ReachStable ==
  ASSUME job' = job, NEW r
  PROVE  /\ Reach(r)' = Reach(r)
         /\ \A S : InReach(S, r)' <=> InReach(S, r)
<1>1. \A x : KeyOf(x)' = KeyOf(x)
  BY ClashStable
<1>2. Reach(r)' = Reach(r)
  BY DEF Reach, cands, OwnScope, KeyOf, ScopeOf, Cand, Memory
<1> QED
  BY <1>1, <1>2 DEF InReach

\* A memory's key is one its request stated.
LEMMA StatedKey ==
  ASSUME TypeOK, NEW x \in MemoryRow, Stated(x)
  PROVE  x[2] \in Request /\ KeyOf(x) \in StatedBy(x[2])
<1>1. x = Memory(x[2], x[3]) /\ x[2] \in Request
  BY DEF MemoryRow, Memory
<1>2. x[3] \in DOMAIN cands(x[2])
  BY <1>1, StoreAssumption DEF Stated, TypeOK, HandlersOK, Job, cands
<1> QED
  BY <1>1, <1>2 DEF StatedBy

LEMMA ReachOf ==
  ASSUME NEW r \in Request
  PROVE  /\ job[r].op = "turn" => Reach(r) = StatedBy(r)
         /\ job[r].op = "delete_session" =>
               \A q \in Request : job[q].session = job[r].session => StatedBy(q) \subseteq Reach(r)
         /\ job[r].op = "delete_user" =>
               \A q \in Request : \A k \in StatedBy(q) : k[1] = OwnScope(r) => k \in Reach(r)
BY DEF Reach, StatedBy

\* What the WHERE clause of a delete selects is within its reach.
LEMMA DoomedInReach ==
  ASSUME TypeOK, NEW r \in Request, job[r].op \in {"delete_session", "delete_user"}
  PROVE  InReach(DoomedMemories(r), r)
<1> SUFFICES ASSUME NEW x \in DoomedMemories(r) PROVE KeyOf(x) \in Reach(r)
  BY DEF InReach
<1>1. x \in MemoryRow /\ Stated(x)
  BY SeenRows DEF DoomedMemories, VisibleMemories
<1>2. x[2] \in Request /\ KeyOf(x) \in StatedBy(x[2])
  BY <1>1, StatedKey
<1>3. /\ job[r].op = "delete_user" => KeyOf(x)[1] = OwnScope(r)
      /\ job[r].op = "delete_session" => job[x[2]].session = job[r].session
  BY DEF DoomedMemories
<1> QED
  BY <1>2, <1>3, ReachOf

\* A step inside the transaction of r.
LEMMA LocalKeys ==
  ASSUME \A q \in Request : OwnKeys(q), NEW r \in Request, job' = job, OwnKeys(r)',
         \A q \in Request \ {r} : /\ pc'[q] = pc[q] /\ todo'[q] = todo[q]
                                  /\ keys'[q] = keys[q] /\ w'[q] = w[q]
  PROVE  \A q \in Request : OwnKeys(q)'
<1> SUFFICES ASSUME NEW q \in Request \ {r} PROVE OwnKeys(q)'
  OBVIOUS
<1>1. OwnKeys(q) /\ Reach(q)' = Reach(q) /\ \A S : InReach(S, q)' <=> InReach(S, q)
  BY ReachStable
<1> QED
  BY <1>1 DEF OwnKeys

\* A step that activates, deactivates and deletes nothing.
LEMMA QuietKeys ==
  ASSUME \A q \in Request : OwnKeys(q), NEW r \in Request, job' = job,
         w'[r].on = w[r].on, w'[r].off = w[r].off, w'[r].del = w[r].del,
         keys'[r] = keys[r],
         pc'[r] \notin {"apply", "memories", "reset", "activate", "turns", "entities"},
         pc'[r] \in {"reconcile", "mentions", "edges"} => job[r].op = "turn",
         \A q \in Request \ {r} : /\ pc'[q] = pc[q] /\ todo'[q] = todo[q]
                                  /\ keys'[q] = keys[q] /\ w'[q] = w[q]
  PROVE  \A q \in Request : OwnKeys(q)'
<1>1. OwnKeys(r) /\ Reach(r)' = Reach(r) /\ \A S : InReach(S, r)' <=> InReach(S, r)
  BY ReachStable
<1>2. OwnKeys(r)'
  BY <1>1 DEF OwnKeys
<1> QED
  BY <1>2, LocalKeys

LEMMA CloseKeys ==
  ASSUME TypeOK, \A q \in Request : OwnKeys(q), NEW r \in Request,
         NEW outcome \in {"done", "failed"}, Close(r, outcome)
  PROVE  \A q \in Request : OwnKeys(q)'
<1>1. /\ job' = job /\ w'[r] = NoWrites /\ keys'[r] = <<>> /\ pc'[r] = outcome
      /\ \A q \in Request \ {r} : /\ pc'[q] = pc[q] /\ todo'[q] = todo[q]
                                  /\ keys'[q] = keys[q] /\ w'[q] = w[q]
  BY DEF Close, TypeOK, HandlersOK
<1>2. OwnKeys(r)'
  BY <1>1 DEF OwnKeys, InReach, NoWrites
<1> QED
  BY <1>1, <1>2, LocalKeys

LEMMA BeginTurnKeys ==
  ASSUME TypeOK, \A q \in Request : OwnKeys(q), NEW r \in Request, BeginTurn(r)
  PROVE  \A q \in Request : OwnKeys(q)'
<1>1. /\ UNCHANGED <<job, todo, keys>> /\ job[r].op = "turn" /\ pc'[r] \in {"edges", "reconcile"}
      /\ w'[r] = [w[r] EXCEPT !.ins = {Turn(r)}]
      /\ \A q \in Request \ {r} : pc'[q] = pc[q] /\ w'[q] = w[q]
  BY DEF BeginTurn, TypeOK, HandlersOK
<1>2. w'[r].on = w[r].on /\ w'[r].off = w[r].off /\ w'[r].del = w[r].del
  BY <1>1 DEF TypeOK, HandlersOK, Writes
<1> QED
  BY <1>1, <1>2, QuietKeys

\* The memory at hand is under a key of its turn.
LEMMA ThisKey ==
  ASSUME TypeOK, NEW r \in Request, at[r] \in 1..Len(cands(r)), job[r].op = "turn"
  PROVE  ThisMemory(r) \in MemoryRow /\ KeyOf(ThisMemory(r)) \in Reach(r)
<1>1. ThisMemory(r) \in MemoryRow /\ Stated(ThisMemory(r)) /\ ThisMemory(r)[2] = r
  BY ThisMemoryStated
<1> QED
  BY <1>1, StatedKey, ReachOf

LEMMA ReconcileKeys ==
  ASSUME TypeOK, \A q \in Request : OwnKeys(q), NEW r \in Request, Reconcile(r)
  PROVE  \A q \in Request : OwnKeys(q)'
<1> DEFINE m == ThisMemory(r)
           k == KeyOf(m)
<1>1. UNCHANGED <<job, keys, w>> /\ pc[r] = "reconcile"
  BY DEF Reconcile
<1>2. PICK d \in Decisions(Cand(m), Rivals(r, k)) :
         /\ todo' = [todo EXCEPT ![r] = d.deactivate]
         /\ IF d.insert
            THEN pc' = [pc EXCEPT ![r] = "apply"] /\ UNCHANGED at
            ELSE NextCandidate(r)
  BY DEF Reconcile
<1>3. /\ todo'[r] = d.deactivate /\ \A q \in Request \ {r} : todo'[q] = todo[q]
      /\ pc'[r] \in {"apply", "reconcile", "edges"} /\ \A q \in Request \ {r} : pc'[q] = pc[q]
  BY <1>2, NextCandidateGoes DEF TypeOK, HandlersOK
<1>4. OwnKeys(r) /\ job[r].op = "turn" /\ at[r] \in 1..Len(cands(r))
  BY <1>1 DEF OwnKeys, TypeOK, Placed
<1>5. d.deactivate \subseteq Rivals(r, k)
  BY DecisionRows
<1>6. InReach(todo'[r], r)
  BY <1>3, <1>4, <1>5, ThisKey DEF InReach, Rivals
<1>7. OwnKeys(r)'
  BY <1>1, <1>3, <1>4, <1>6, ReachStable DEF OwnKeys
<1> QED
  BY <1>1, <1>3, <1>7, LocalKeys

LEMMA DeactivateKeys ==
  ASSUME TypeOK, \A q \in Request : OwnKeys(q), NEW r \in Request, Deactivate(r)
  PROVE  \A q \in Request : OwnKeys(q)'
<1>1. UNCHANGED <<job, pc, keys>> /\ pc[r] = "apply"
  BY DEF Deactivate
<1>2. PICK x \in todo[r] :
         /\ todo' = [todo EXCEPT ![r] = @ \ {x}]
         /\ w' = IF x \in Visible(r)
                 THEN [w EXCEPT ![r].off = @ \cup {x}, ![r].on = @ \ {x}]
                 ELSE w
  BY DEF Deactivate
<1>3. /\ todo'[r] = todo[r] \ {x} /\ w'[r].on \subseteq w[r].on
      /\ w'[r].off \subseteq w[r].off \cup {x} /\ w'[r].del = w[r].del
      /\ \A q \in Request \ {r} : todo'[q] = todo[q] /\ w'[q] = w[q]
  BY <1>2 DEF TypeOK, HandlersOK, Writes
<1>4. OwnKeys(r) /\ InReach(todo[r], r)
  BY <1>1 DEF OwnKeys
<1>5. InReach(w'[r].on \cup w'[r].off \cup w'[r].del, r) /\ InReach(todo'[r], r)
  BY <1>3, <1>4 DEF OwnKeys, InReach
<1>6. OwnKeys(r)'
  BY <1>1, <1>4, <1>5, ReachStable DEF OwnKeys
<1> QED
  BY <1>1, <1>3, <1>6, LocalKeys

LEMMA InsertMemoryKeys ==
  ASSUME TypeOK, \A q \in Request : OwnKeys(q), NEW r \in Request, InsertMemory(r)
  PROVE  \A q \in Request : OwnKeys(q)'
<1> DEFINE m == ThisMemory(r)
<1>1. UNCHANGED <<job, todo, keys>> /\ pc[r] = "apply"
  BY DEF InsertMemory
<1>2. /\ w'[r].on = w[r].on \cup {m} /\ w'[r].off = w[r].off /\ w'[r].del = w[r].del
      /\ \A q \in Request \ {r} : w'[q] = w[q]
  BY DEF InsertMemory, TypeOK, HandlersOK, Writes
<1>3. /\ pc'[r] \in {"reconcile", "edges", "mentions"}
      /\ \A q \in Request \ {r} : pc'[q] = pc[q]
  BY NextEntityGoes DEF InsertMemory
<1>4. OwnKeys(r) /\ job[r].op = "turn" /\ at[r] \in 1..Len(cands(r))
  BY <1>1 DEF OwnKeys, TypeOK, Placed
<1>5. InReach(w'[r].on \cup w'[r].off \cup w'[r].del, r)
  BY <1>2, <1>4, ThisKey DEF OwnKeys, InReach
<1>6. OwnKeys(r)'
  BY <1>1, <1>3, <1>4, <1>5, ReachStable DEF OwnKeys
<1> QED
  BY <1>1, <1>2, <1>3, <1>6, LocalKeys

LEMMA MentionEntityKeys ==
  ASSUME TypeOK, \A q \in Request : OwnKeys(q), NEW r \in Request, MentionEntity(r)
  PROVE  \A q \in Request : OwnKeys(q)'
<1>1. UNCHANGED <<job, todo, keys>> /\ pc[r] = "mentions"
  BY DEF MentionEntity
<1>2. /\ w'[r].on = w[r].on /\ w'[r].off = w[r].off /\ w'[r].del = w[r].del
      /\ \A q \in Request \ {r} : w'[q] = w[q]
  BY DEF MentionEntity, TypeOK, HandlersOK, Writes
<1>3. /\ pc'[r] \in {"reconcile", "edges", "mentions"}
      /\ \A q \in Request \ {r} : pc'[q] = pc[q]
  BY NextEntityGoes DEF MentionEntity
<1>4. job[r].op = "turn"
  BY <1>1 DEF OwnKeys
<1> QED
  BY <1>1, <1>2, <1>3, <1>4, QuietKeys

LEMMA LinkKeys ==
  ASSUME TypeOK, \A q \in Request : OwnKeys(q), NEW r \in Request, LinkSource(r) \/ LinkPeer(r)
  PROVE  \A q \in Request : OwnKeys(q)'
<1>1. UNCHANGED <<job, pc, keys>> /\ pc[r] = "edges"
  BY DEF LinkSource, LinkPeer
<1>2. /\ w'[r].on = w[r].on /\ w'[r].off = w[r].off /\ w'[r].del = w[r].del
      /\ \A q \in Request \ {r} : w'[q] = w[q] /\ todo'[q] = todo[q]
  <2>1. CASE LinkSource(r)
    BY <2>1 DEF LinkSource, TypeOK, HandlersOK, Writes
  <2>2. CASE LinkPeer(r)
    <3> DEFINE m == Memory(r, at[r] - 1)
    <3>1. PICK x \in todo[r] :
             /\ todo' = [todo EXCEPT ![r] = @ \ {x}]
             /\ w' = [w EXCEPT ![r].share = @ \cup {x},
                               ![r].edges = @ \cup {<<m, x, "same_subject">>,
                                                    <<x, m, "same_subject">>}]
      BY <2>2 DEF LinkPeer
    <3> QED
      BY <3>1 DEF TypeOK, HandlersOK, Writes
  <2> QED
    BY <2>1, <2>2
<1>3. job[r].op = "turn"
  BY <1>1 DEF OwnKeys
<1> QED
  BY <1>1, <1>2, <1>3, QuietKeys

LEMMA BeginDeleteUserKeys ==
  ASSUME TypeOK, \A q \in Request : OwnKeys(q), NEW r \in Request, BeginDeleteUser(r)
  PROVE  \A q \in Request : OwnKeys(q)'
<1>1. /\ UNCHANGED <<job, todo, keys, w>> /\ pc'[r] = "begin"
      /\ \A q \in Request \ {r} : pc'[q] = pc[q]
  BY DEF BeginDeleteUser, control, TypeOK, HandlersOK
<1> QED
  BY <1>1, QuietKeys

LEMMA BeginDeleteSessionKeys ==
  ASSUME TypeOK, \A q \in Request : OwnKeys(q), NEW r \in Request, BeginDeleteSession(r)
  PROVE  \A q \in Request : OwnKeys(q)'
<1>1. /\ UNCHANGED <<job, todo, w>> /\ pc'[r] = "affected" /\ job[r].op = "delete_session"
      /\ \A q \in Request \ {r} : pc'[q] = pc[q]
  BY DEF BeginDeleteSession, TypeOK, HandlersOK
<1>2. PICK order \in Orders(AffectedKeys(r)) : keys' = [keys EXCEPT ![r] = order]
  BY DEF BeginDeleteSession
<1>3. keys'[r] = order /\ \A q \in Request \ {r} : keys'[q] = keys[q]
  BY <1>2 DEF TypeOK, HandlersOK
<1>4. DoomedMemories(r) \subseteq MemoryRow /\ InReach(DoomedMemories(r), r)
  BY <1>1, DoomedRows, DoomedInReach
<1>5. AffectedKeys(r) \subseteq Reach(r)
  BY <1>4 DEF AffectedKeys, InReach
<1>6. \A i \in DOMAIN order : order[i] \in AffectedKeys(r)
  BY OrdersAreSequences
<1>7. OwnKeys(r)
  OBVIOUS
<1>8. OwnKeys(r)'
  BY <1>1, <1>3, <1>5, <1>6, <1>7, ReachStable DEF OwnKeys
<1> QED
  BY <1>1, <1>3, <1>8, LocalKeys

\* The rows a statement will delete, deactivate or activate.
LEMMA TargetsInReach ==
  ASSUME TypeOK, NEW r \in Request, OwnKeys(r), job[r].op \in {"delete_session", "delete_user"},
         NEW statement, NEW T \in Targets(r, statement),
         statement \in {"reset", "activate"} => keys[r] # <<>>
  PROVE  /\ statement \in {"memories", "reset", "activate"} => InReach(T, r)
         /\ statement \in {"turns", "entities"} => T \cap MemoryRow = {}
<1>1. CASE statement = "memories"
  BY <1>1, DoomedInReach DEF Targets
<1>2. CASE statement \in {"turns", "entities"}
  BY <1>2 DEF Targets, DoomedTurns, DoomedEntities, TurnRow, EntityRow, MemoryRow
<1>3. CASE statement \in {"reset", "activate"}
  <2>1. keys[r] \in Seq(ScopeKey) /\ keys[r] # <<>>
    BY <1>3 DEF TypeOK, HandlersOK
  <2>2. 1 \in DOMAIN keys[r] /\ Head(keys[r]) = keys[r][1]
    BY <2>1
  <2>3. Head(keys[r]) \in Reach(r)
    BY <2>2 DEF OwnKeys
  <2>4. T \subseteq OfKey(r, Head(keys[r]))
    BY <1>3 DEF Targets, Heads, Latest
  <2> QED
    BY <1>3, <2>3, <2>4 DEF OfKey, InReach
<1>4. CASE statement \notin {"memories", "turns", "entities", "reset", "activate"}
  BY <1>4
<1> QED
  BY <1>1, <1>2, <1>3, <1>4

LEMMA StatementKeys ==
  ASSUME TypeOK, \A q \in Request : OwnKeys(q), NEW r \in Request, job[r].op # "turn",
         NEW next \in {"memories", "successors", "turns", "sources", "entities",
                       "reset", "activate", "commit"},
         next \in {"reset", "activate"} => keys[r] # <<>>,
         Statement(r, next)
  PROVE  \A q \in Request : OwnKeys(q)'
<1>1. PICK T \in Targets(r, next) : todo' = [todo EXCEPT ![r] = T]
  BY DEF Statement
<1>2. job[r].op \in {"delete_session", "delete_user"} /\ OwnKeys(r) /\ keys[r] \in Seq(ScopeKey)
  BY StoreAssumption DEF TypeOK, HandlersOK, Job
<1>3. /\ next \in {"memories", "reset", "activate"} => InReach(T, r)
      /\ next \in {"turns", "entities"} => T \cap MemoryRow = {}
  BY <1>2, TargetsInReach
<1>4. /\ todo'[r] = T /\ pc'[r] = next /\ UNCHANGED <<job, w>>
      /\ keys'[r] = IF next = "activate" THEN Tail(keys[r]) ELSE keys[r]
      /\ \A q \in Request \ {r} : todo'[q] = todo[q] /\ pc'[q] = pc[q] /\ keys'[q] = keys[q]
  BY <1>1 DEF Statement, TypeOK, HandlersOK
<1>5. \A i \in DOMAIN keys'[r] : keys'[r][i] \in Reach(r)
  <2>1. CASE next = "activate"
    <3>1. \A i \in DOMAIN Tail(keys[r]) : i + 1 \in DOMAIN keys[r] /\ Tail(keys[r])[i] = keys[r][i + 1]
      BY <1>2, <2>1
    <3> QED
      BY <1>2, <1>4, <2>1, <3>1 DEF OwnKeys
  <2>2. CASE next # "activate"
    BY <1>2, <1>4, <2>2 DEF OwnKeys
  <2> QED
    BY <2>1, <2>2
<1>6. OwnKeys(r)'
  BY <1>2, <1>3, <1>4, <1>5, ReachStable DEF OwnKeys
<1> QED
  BY <1>4, <1>6, LocalKeys

LEMMA NextStatementKeys ==
  ASSUME TypeOK, \A q \in Request : OwnKeys(q), NEW r \in Request, NextStatement(r)
  PROVE  \A q \in Request : OwnKeys(q)'
<1>1. CASE job[r].op = "delete_user"
  <2>1. pc[r] \in DOMAIN UserPlan /\ UserPlan[pc[r]] # "recompute"
    BY <1>1 DEF NextStatement, UserPlan
  <2>2. Statement(r, UserPlan[pc[r]])
    BY <1>1, <2>1 DEF NextStatement
  <2>3. UserPlan[pc[r]] \in {"entities", "memories", "successors", "turns", "sources", "commit"}
    BY <2>1 DEF UserPlan
  <2> QED
    BY <1>1, <2>2, <2>3, StatementKeys
<1>2. CASE job[r].op # "delete_user"
  <2> DEFINE next == IF SessionPlan[pc[r]] # "recompute" THEN SessionPlan[pc[r]]
                     ELSE IF keys[r] = <<>> THEN "commit" ELSE "reset"
  <2>1. pc[r] \in DOMAIN SessionPlan /\ Statement(r, next) /\ job[r].op # "turn"
    BY <1>2 DEF NextStatement
  <2>2. /\ next \in {"memories", "successors", "turns", "sources", "entities",
                     "reset", "activate", "commit"}
        /\ next = "activate" => pc[r] = "reset"
        /\ next = "reset" => keys[r] # <<>>
    BY <2>1 DEF SessionPlan
  <2>3. next \in {"reset", "activate"} => keys[r] # <<>>
    BY <2>2 DEF TypeOK, Placed
  <2> HIDE DEF next
  <2> QED
    BY <2>1, <2>2, <2>3, StatementKeys
<1> QED
  BY <1>1, <1>2

LEMMA VisitRowKeys ==
  ASSUME TypeOK, \A q \in Request : OwnKeys(q), NEW r \in Request, VisitRow(r)
  PROVE  \A q \in Request : OwnKeys(q)'
<1>1. UNCHANGED <<job, pc, keys>> /\ pc[r] \in Deleting \cup Updating
  BY DEF VisitRow
<1>2. PICK x \in todo[r] :
         /\ todo' = [todo EXCEPT ![r] = @ \ {x}]
         /\ w' = IF x \notin Visible(r) THEN w
                 ELSE IF pc[r] \in Deleting THEN [w EXCEPT ![r].del = @ \cup {x}]
                 ELSE IF pc[r] = "reset"
                      THEN [w EXCEPT ![r].off = @ \cup {x}, ![r].on = @ \ {x}]
                 ELSE IF pc[r] = "activate"
                      THEN [w EXCEPT ![r].on = @ \cup {x}, ![r].off = @ \ {x}]
                 ELSE [w EXCEPT ![r].touch = @ \cup {x}]
  BY DEF VisitRow
<1>3. /\ todo'[r] = todo[r] \ {x}
      /\ w'[r].on \cup w'[r].off \cup w'[r].del
            \subseteq w[r].on \cup w[r].off \cup w[r].del \cup
                      (IF pc[r] \in Deleting \cup {"reset", "activate"} THEN {x} ELSE {})
      /\ \A q \in Request \ {r} : todo'[q] = todo[q] /\ w'[q] = w[q]
  BY <1>2 DEF TypeOK, HandlersOK, Writes
<1>4. OwnKeys(r)
  OBVIOUS
<1>5. pc[r] \in Deleting \cup {"reset", "activate"} => InReach({x}, r)
  BY <1>2, <1>4 DEF OwnKeys, InReach, Deleting
<1>6. InReach(w'[r].on \cup w'[r].off \cup w'[r].del, r)
  BY <1>3, <1>4, <1>5 DEF OwnKeys, InReach
<1>7. OwnKeys(r)'
  BY <1>1, <1>3, <1>4, <1>6, ReachStable DEF OwnKeys, InReach
<1> QED
  BY <1>1, <1>3, <1>7, LocalKeys

LEMMA StutterKeys ==
  ASSUME \A q \in Request : OwnKeys(q), UNCHANGED vars
  PROVE  \A q \in Request : OwnKeys(q)'
<1> SUFFICES ASSUME NEW q \in Request PROVE OwnKeys(q)'
  OBVIOUS
<1>1. UNCHANGED <<job, pc, todo, keys, w>>
  BY DEF vars, control
<1>2. OwnKeys(q) /\ Reach(q)' = Reach(q) /\ \A S : InReach(S, q)' <=> InReach(S, q)
  BY <1>1, ReachStable
<1> QED
  BY <1>1, <1>2 DEF OwnKeys

LEMMA OwnKeysHold == Spec => []\A r \in Request : OwnKeys(r)
<1>1. Init => \A r \in Request : OwnKeys(r)
  BY DEF Init, StoreInit, OwnKeys, InReach, NoWrites
<1>2. TypeOK /\ (\A r \in Request : OwnKeys(r)) /\ [Next]_vars => (\A r \in Request : OwnKeys(r))'
  <2> SUFFICES ASSUME TypeOK, \A r \in Request : OwnKeys(r), [Next]_vars
               PROVE  \A r \in Request : OwnKeys(r)'
    OBVIOUS
  <2>1. CASE UNCHANGED vars
    BY <2>1, StutterKeys
  <2>2. ASSUME NEW r \in Request, TurnStep(r) PROVE \A q \in Request : OwnKeys(q)'
    BY <2>2, BeginTurnKeys, ReconcileKeys, DeactivateKeys, InsertMemoryKeys, MentionEntityKeys,
       LinkKeys, CloseKeys DEF TurnStep, ForeignKeyError, CommitTurn, Commit, Rollback
  <2>3. ASSUME NEW r \in Request, DeleteStep(r) PROVE \A q \in Request : OwnKeys(q)'
    BY <2>3, BeginDeleteSessionKeys, BeginDeleteUserKeys, NextStatementKeys, VisitRowKeys,
       CloseKeys DEF DeleteStep, CommitDelete, Commit
  <2>4. ASSUME NEW r \in Request, DeadlockVictim(r) \/ Fail(r) PROVE \A q \in Request : OwnKeys(q)'
    BY <2>4, CloseKeys DEF DeadlockVictim, Fail, Rollback
  <2> QED
    BY <2>1, <2>2, <2>3, <2>4 DEF Next
<1> QED
  BY <1>1, <1>2, TypeCorrect, PTL DEF Spec

\* Only a commit changes what is active.
LEMMA OnlyCommitsPublish ==
  ASSUME TypeOK, [Next]_vars
  PROVE  \/ active' = active
         \/ \E r \in Request : Commit(r) /\ pc[r] \in {"edges", "commit"} /\ pc'[r] = "done"
<1>1. CASE UNCHANGED vars
  BY <1>1 DEF vars, store
<1>2. \A r \in Request : Rollback(r) => active' = active
  BY DEF Rollback, store
<1>3. \A r \in Request : Commit(r) => pc'[r] = "done"
  BY DEF Commit, Close, TypeOK, HandlersOK
<1>4. ASSUME NEW r \in Request, TurnStep(r) /\ ~CommitTurn(r) PROVE active' = active
  BY <1>2, <1>4 DEF TurnStep, BeginTurn, Reconcile, Deactivate, InsertMemory, MentionEntity,
     LinkSource, LinkPeer, ForeignKeyError, store
<1>5. ASSUME NEW r \in Request, DeleteStep(r) /\ ~CommitDelete(r) PROVE active' = active
  BY <1>5 DEF DeleteStep, BeginDeleteSession, BeginDeleteUser, NextStatement, Statement,
     VisitRow, store
<1> QED
  BY <1>1, <1>2, <1>3, <1>4, <1>5 DEF Next, DeadlockVictim, Fail, CommitTurn, CommitDelete

\* Turns and both deletes change what is active only when they are answered, and only
\* under the keys they are about: whatever runs beside them, a failed request, and
\* another user's or another key's, changes nothing.
THEOREM OthersKeysStay == Spec => OnlyOwnKeysChange
<1>1. TypeOK /\ (\A r \in Request : OwnKeys(r)) /\ [Next]_vars =>
         [\A x \in (active \ active') \cup (active' \ active) :
            \E r \in Request : /\ pc[r] # "done" /\ pc'[r] = "done"
                               /\ KeyOf(x) \in Reach(r)]_vars
  <2> SUFFICES ASSUME TypeOK, \A r \in Request : OwnKeys(r), [Next]_vars,
                      NEW x \in (active \ active') \cup (active' \ active)
               PROVE  \E r \in Request : /\ pc[r] # "done" /\ pc'[r] = "done"
                                         /\ KeyOf(x) \in Reach(r)
    OBVIOUS
  <2>1. PICK r \in Request : Commit(r) /\ pc[r] \in {"edges", "commit"} /\ pc'[r] = "done"
    BY OnlyCommitsPublish
  <2>2. active' = ActiveFor(r) /\ active \subseteq rows \cap MemoryRow /\ w[r] \in Writes
    BY <2>1 DEF Commit, TypeOK, TablesOK, HandlersOK
  <2>3. x \in (w[r].on \cup w[r].off \cup w[r].del) \cap MemoryRow
    BY <2>2 DEF ActiveFor, Visible, Writes
  <2>4. KeyOf(x) \in Reach(r)
    BY <2>3 DEF OwnKeys, InReach
  <2> QED
    BY <2>1, <2>4
<1> QED
  BY <1>1, TypeCorrect, OwnKeysHold, PTL DEF Spec, OnlyOwnKeysChange

----------------------------------------------------------------------------
\* One request at a time: what two of them may do to each other is left out, what
\* each does in all its statements is not.  Every memory keeps its turn, and every
\* single-valued key one value, the latest, through supersessions, deletions and
\* recomputes in any order.

OneAtATime == \A r, q \in Request : InTransaction(r) /\ InTransaction(q) => r = q

\* Rows S of which A are active: the memories of a key, and that its active value is
\* the latest of them.
OfKeyIn(S, k) == {x \in S \cap MemoryRow : KeyOf(x) = k}
ShowsLatest(S, A, k) ==
    OfKeyIn(S, k) # {} => \E x \in Latest(OfKeyIn(S, k)) : OfKeyIn(S, k) \cap A = {x}

SingleKeys == {k \in ScopeKey : k[3] \in Single}

\* The tables between two transactions.
Committed ==
    /\ EveryMemoryHasItsTurn
    /\ \A k \in SingleKeys : ShowsLatest(rows, active, k)
    /\ \A x \in Memories : pc[x[2]] = "done" /\ begun[x[2]] <= clock

\* A turn sees every key in order, but for that of the memory it is about to insert:
\* what is active there it has still to deactivate.
Replacing(r, k) == pc[r] = "apply" /\ k = KeyOf(ThisMemory(r))

TurnView(r) ==
    /\ pc[r] \in {"reconcile", "apply", "mentions", "edges"}
    /\ w[r].del = {}
    /\ Turn(r) \in w[r].ins
    /\ \A x \in w[r].ins \cap MemoryRow : x[2] = r
    /\ pc[r] = "apply" => \A x \in todo[r] : Replacing(r, KeyOf(x))
    /\ \A k \in SingleKeys :
          IF Replacing(r, k) THEN OfKeyIn(Visible(r), k) \cap ActiveFor(r) \subseteq todo[r]
                             ELSE ShowsLatest(Visible(r), ActiveFor(r), k)

\* The committed rows that a delete is about.
SelectedMemories(r) ==
    {x \in Memories : IF job[r].op = "delete_user"
                      THEN KeyOf(x)[1] = OwnScope(r)
                      ELSE job[x[2]].session = job[r].session}
SelectedTurns(r) ==
    {x \in rows \cap TurnRow : IF job[r].op = "delete_user"
                               THEN job[x[2]].user = job[r].user
                               ELSE job[x[2]].session = job[r].session}

Plan(r) == IF job[r].op = "delete_user" THEN UserPlan ELSE SessionPlan
BeforeMemories(r) == IF job[r].op = "delete_user" THEN {"begin", "entities"} ELSE {"affected"}

\* A delete removes these rows and no others.
Removes(r) ==
    /\ pc[r] \in DOMAIN Plan(r) \cup {"commit"}
    /\ w[r].ins = {}
    /\ w[r].del \cap MemoryRow \subseteq SelectedMemories(r)
    /\ w[r].del \cap TurnRow \subseteq SelectedTurns(r)
    /\ pc[r] \in BeforeMemories(r) => w[r].del \cap MemoryRow = {}
    /\ pc[r] = "memories" => /\ todo[r] \subseteq SelectedMemories(r)
                             /\ SelectedMemories(r) \subseteq w[r].del \cup todo[r]
    /\ pc[r] \notin BeforeMemories(r) \cup {"memories"} => SelectedMemories(r) \subseteq w[r].del
    /\ pc[r] = "turns" => todo[r] \subseteq SelectedTurns(r)
    /\ pc[r] = "entities" => todo[r] \subseteq EntityRow

\* The keys a delete may leave without a current value for now: those of its user, or
\* those it has still to recompute.
Exempt(r, k) == IF job[r].op = "delete_user" THEN k[1] = OwnScope(r)
                ELSE \E i \in DOMAIN keys[r] : keys[r][i] = k

\* The recompute of a key: all of its memories off, then the latest on.
Recomputes(r) ==
    /\ pc[r] \in {"affected", "memories"} => \A x \in SelectedMemories(r) : Exempt(r, KeyOf(x))
    /\ pc[r] = "reset" =>
         /\ OfKeyIn(Visible(r), Head(keys[r])) \cap ActiveFor(r) \subseteq todo[r]
         /\ \A x \in todo[r] : KeyOf(x) = Head(keys[r])
    /\ pc[r] = "activate" =>
         /\ \A x, y \in todo[r] : x = y
         /\ \A x \in todo[r] :
              \/ Exempt(r, KeyOf(x))
              \/ /\ x \in Latest(OfKeyIn(Visible(r), KeyOf(x)))
                 /\ OfKeyIn(Visible(r), KeyOf(x)) \cap ActiveFor(r) = {}
    /\ pc[r] = "commit" => job[r].op = "delete_user" \/ keys[r] = <<>>
    /\ \A k \in SingleKeys :
         \/ Exempt(r, k)
         \/ ShowsLatest(Visible(r), ActiveFor(r), k)
         \/ pc[r] = "activate" /\ \E x \in todo[r] : KeyOf(x) = k

\* Where a request stands, and that it has written nothing unless it runs.
AtWork(r) ==
    /\ begun[r] = clock
    /\ job[r].op = "turn" => TurnView(r)
    /\ job[r].op # "turn" => Removes(r) /\ Recomputes(r)

Serial(r) == IF InTransaction(r) THEN AtWork(r) ELSE w[r] = NoWrites

SerialInv == OneAtATime /\ Committed /\ \A r \in Request : Serial(r)

----------------------------------------------------------------------------
\* Keys, ages and places do not change while no transaction opens.
LEMMA KeyStable ==
  ASSUME job' = job
  PROVE  /\ \A x : KeyOf(x)' = KeyOf(x)
         /\ \A S, k : OfKeyIn(S, k)' = OfKeyIn(S, k)
<1>1. \A x : KeyOf(x)' = KeyOf(x)
  BY DEF KeyOf, ScopeOf, Cand
<1> QED
  BY <1>1 DEF OfKeyIn

LEMMA ViewStable ==
  ASSUME job' = job, begun' = begun
  PROVE  /\ \A S : Latest(S)' = Latest(S)
         /\ \A S, A, k : ShowsLatest(S, A, k)' <=> ShowsLatest(S, A, k)
<1>1. \A S : Latest(S)' = Latest(S)
  BY DEF Latest
<1> QED
  BY <1>1, KeyStable DEF ShowsLatest

\* A view shows the same under a key whose rows are the same.
LEMMA SameView ==
  ASSUME NEW S, NEW A, NEW T, NEW B, NEW k,
         OfKeyIn(S, k) = OfKeyIn(T, k),
         OfKeyIn(S, k) \cap A = OfKeyIn(S, k) \cap B,
         ShowsLatest(S, A, k)
  PROVE  ShowsLatest(T, B, k)
BY DEF ShowsLatest

\* The others are not running while r is.
LEMMA OthersIdle ==
  ASSUME SerialInv, NEW r \in Request, InTransaction(r), NEW q \in Request \ {r},
         pc'[q] = pc[q], w'[q] = w[q]
  PROVE  Serial(q)'
<1>1. ~InTransaction(q)
  BY DEF SerialInv, OneAtATime
<1>2. ~InTransaction(q)'
  BY <1>1 DEF InTransaction, Over
<1>3. w[q] = NoWrites
  BY <1>1 DEF SerialInv, Serial
<1> QED
  BY <1>2, <1>3 DEF Serial, NoWrites

\* A step inside the transaction of r.
LEMMA LocalSerial ==
  ASSUME TypeOK, SerialInv, NEW r \in Request, InTransaction(r), InTransaction(r)',
         UNCHANGED <<job, begun, clock, store>>,
         \A q \in Request \ {r} : pc'[q] = pc[q] /\ w'[q] = w[q],
         AtWork(r)'
  PROVE  SerialInv'
<1>1. \A q \in Request : InTransaction(q)' <=> InTransaction(q)
  BY DEF InTransaction, Over
<1>2. OneAtATime'
  BY <1>1 DEF SerialInv, OneAtATime
<1>3. Committed'
  <2>1. EveryMemoryHasItsTurn' /\ Memories' = Memories
    BY DEF SerialInv, Committed, EveryMemoryHasItsTurn, Memories, store
  <2>2. \A k \in SingleKeys : ShowsLatest(rows, active, k)'
    BY ViewStable DEF SerialInv, Committed, store
  <2>3. rows' = rows /\ active' = active
    BY DEF store
  <2>4. \A x \in Memories : pc'[x[2]] = "done" /\ begun'[x[2]] <= clock'
    BY DEF SerialInv, Committed, InTransaction, Over, Memories, MemoryRow
  <2> QED
    BY <2>1, <2>2, <2>3, <2>4 DEF Committed, SingleKeys
<1>4. \A q \in Request : Serial(q)'
  BY OthersIdle DEF Serial
<1> QED
  BY <1>2, <1>3, <1>4 DEF SerialInv

\* With one connection a transaction opens only when there is none.
LEMMA OnlyOne ==
  ASSUME PoolSize = 1, NEW r \in Request, Open(r), OneAtATime
  PROVE  \A q \in Request : ~InTransaction(q)
<1> SUFFICES ASSUME NEW q \in Request, InTransaction(q) PROVE FALSE
  OBVIOUS
<1>1. {p \in Request : InTransaction(p)} = {q}
  BY DEF OneAtATime
<1>2. Cardinality({q}) = 1
  BY FS_Singleton
<1> QED
  BY <1>1, <1>2 DEF Open, ConnectionFree

\* A transaction opens: it sees what is committed, none of which is younger.
LEMMA OpenSerial ==
  ASSUME PoolSize = 1, TypeOK, SerialInv, NEW r \in Request, Open(r),
         UNCHANGED <<job, store>>,
         InTransaction(r)',
         \A q \in Request \ {r} : pc'[q] = pc[q] /\ w'[q] = w[q]
  PROVE  /\ Committed'
         /\ begun'[r] = clock'
         /\ w[r] = NoWrites
         /\ AtWork(r)' => SerialInv'
<1>1. \A q \in Request : ~InTransaction(q) /\ w[q] = NoWrites
  <2>1. \A q \in Request : ~InTransaction(q)
    BY OnlyOne DEF SerialInv
  <2> QED
    BY <2>1 DEF SerialInv, Serial
<1>2. begun'[r] = clock' /\ clock \in Nat /\ clock' = clock + 1
      /\ (\A q \in Request \ {r} : begun'[q] = begun[q]) /\ begun \in [Request -> Nat]
  BY DEF Open, TypeOK, HandlersOK
<1>3. rows' = rows /\ active' = active /\ Memories' = Memories
  BY DEF store, Memories
<1>4. \A x \in Memories : x[2] \in Request \ {r} /\ pc'[x[2]] = "done"
                          /\ begun'[x[2]] = begun[x[2]] /\ begun'[x[2]] <= clock'
  <2>1. \A x \in Memories : x[2] \in Request /\ pc[x[2]] = "done" /\ begun[x[2]] <= clock
    BY DEF SerialInv, Committed, Memories, MemoryRow
  <2>2. pc[r] # "done"
    BY DEF Open
  <2>3. \A x \in Memories : x[2] \in Request \ {r}
    BY <2>1, <2>2
  <2> QED
    BY <1>2, <2>1, <2>3
<1>5. \A k \in SingleKeys : ShowsLatest(rows, active, k)'
  <2> SUFFICES ASSUME NEW k \in SingleKeys PROVE ShowsLatest(rows, active, k)'
    OBVIOUS
  <2> DEFINE S == OfKeyIn(rows, k)
  <2>1. OfKeyIn(rows, k)' = S /\ \A x \in S : begun'[x[2]] = begun[x[2]]
    BY <1>3, <1>4, KeyStable DEF OfKeyIn, Memories
  <2>2. Latest(S)' = Latest(S)
    BY <2>1 DEF Latest
  <2>3. ShowsLatest(rows, active, k)
    BY DEF SerialInv, Committed
  <2> QED
    BY <1>3, <2>1, <2>2, <2>3 DEF ShowsLatest
<1>6. EveryMemoryHasItsTurn'
  BY <1>3 DEF SerialInv, Committed, EveryMemoryHasItsTurn
<1>7. Committed'
  BY <1>3, <1>4, <1>5, <1>6 DEF Committed, SingleKeys
<1>8. ASSUME AtWork(r)' PROVE SerialInv'
  <2>1. \A q \in Request \ {r} : ~InTransaction(q)' /\ w'[q] = NoWrites
    BY <1>1 DEF InTransaction, Over
  <2>2. OneAtATime'
    BY <2>1 DEF OneAtATime
  <2>3. \A q \in Request : Serial(q)'
    BY <1>8, <2>1 DEF Serial, NoWrites
  <2> QED
    BY <1>7, <2>2, <2>3 DEF SerialInv
<1> QED
  BY <1>1, <1>2, <1>7, <1>8

\* What r does not touch.
LEMMA RunningStays ==
  ASSUME NEW q \in Request, UNCHANGED <<job, begun, clock, rows, active>>,
         pc'[q] = pc[q], w'[q] = w[q], at'[q] = at[q], todo'[q] = todo[q], keys'[q] = keys[q],
         AtWork(q)
  PROVE  AtWork(q)'
<1>1. /\ Visible(q)' = Visible(q) /\ ActiveFor(q)' = ActiveFor(q) /\ Memories' = Memories
      /\ Plan(q)' = Plan(q) /\ BeforeMemories(q)' = BeforeMemories(q)
      /\ ThisMemory(q)' = ThisMemory(q) /\ OwnScope(q)' = OwnScope(q)
      /\ \A k : Exempt(q, k)' <=> Exempt(q, k)
  BY DEF Visible, ActiveFor, Memories, Plan, BeforeMemories, ThisMemory, Memory, OwnScope, Exempt
<1>2. SelectedMemories(q)' = SelectedMemories(q) /\ SelectedTurns(q)' = SelectedTurns(q)
  BY <1>1, KeyStable DEF SelectedMemories, SelectedTurns
<1>3. \A k : Replacing(q, k)' <=> Replacing(q, k)
  BY <1>1, KeyStable DEF Replacing
<1>4. job[q].op = "turn" => TurnView(q)'
  <2> SUFFICES ASSUME TurnView(q) PROVE TurnView(q)'
    BY DEF AtWork
  <2>1. pc[q] = "apply" => \A x \in todo'[q] : Replacing(q, KeyOf(x))'
    BY <1>3, KeyStable DEF TurnView
  <2>2. \A k \in SingleKeys :
          IF Replacing(q, k)' THEN OfKeyIn(Visible(q), k)' \cap ActiveFor(q)' \subseteq todo'[q]
                              ELSE ShowsLatest(Visible(q), ActiveFor(q), k)'
    BY <1>1, <1>3, KeyStable, ViewStable DEF TurnView
  <2> QED
    BY <2>1, <2>2 DEF TurnView, SingleKeys
<1>5. job[q].op # "turn" => Removes(q)'
  BY <1>1, <1>2 DEF AtWork, Removes
<1>6. job[q].op # "turn" => Recomputes(q)'
  <2> SUFFICES ASSUME Recomputes(q) PROVE Recomputes(q)'
    BY DEF AtWork
  <2>1. \A k \in SingleKeys :
         \/ Exempt(q, k)'
         \/ ShowsLatest(Visible(q), ActiveFor(q), k)'
         \/ pc'[q] = "activate" /\ \E x \in todo'[q] : KeyOf(x)' = k
    BY <1>1, KeyStable, ViewStable DEF Recomputes
  <2>2. pc[q] = "activate" => \A x \in todo'[q] :
              \/ Exempt(q, KeyOf(x))'
              \/ /\ x \in Latest(OfKeyIn(Visible(q), KeyOf(x)))'
                 /\ OfKeyIn(Visible(q), KeyOf(x))' \cap ActiveFor(q)' = {}
    BY <1>1, KeyStable, ViewStable DEF Recomputes
  <2>3. pc[q] = "reset" =>
         /\ OfKeyIn(Visible(q), Head(keys[q]))' \cap ActiveFor(q)' \subseteq todo'[q]
         /\ \A x \in todo'[q] : KeyOf(x)' = Head(keys'[q])
    BY <1>1, KeyStable DEF Recomputes
  <2>4. pc[q] \in {"affected", "memories"} => \A x \in SelectedMemories(q)' : Exempt(q, KeyOf(x))'
    BY <1>1, <1>2, KeyStable DEF Recomputes
  <2> QED
    BY <2>1, <2>2, <2>3, <2>4 DEF Recomputes, SingleKeys
<1> QED
  BY <1>4, <1>5, <1>6 DEF AtWork

\* The end of a transaction, or of a request that has not opened one.
LEMMA CloseSerial ==
  ASSUME TypeOK, SerialInv, NEW r \in Request, ~Over(r),
         NEW outcome \in {"done", "failed"}, Close(r, outcome),
         InTransaction(r) \/ UNCHANGED store, Committed'
  PROVE  SerialInv'
<1>1. /\ pc'[r] = outcome /\ w'[r] = NoWrites /\ UNCHANGED <<job, begun, clock>>
      /\ \A q \in Request \ {r} : /\ pc'[q] = pc[q] /\ w'[q] = w[q] /\ at'[q] = at[q]
                                  /\ todo'[q] = todo[q] /\ keys'[q] = keys[q]
  BY DEF Close, TypeOK, HandlersOK
<1>2. \A q \in Request \ {r} : InTransaction(q)' <=> InTransaction(q)
  BY <1>1 DEF InTransaction, Over
<1>3. ~InTransaction(r)'
  BY <1>1 DEF InTransaction, Over
<1>4. OneAtATime'
  BY <1>2, <1>3 DEF SerialInv, OneAtATime
<1>5. ASSUME NEW q \in Request PROVE Serial(q)'
  <2>1. CASE q = r
    BY <1>1, <1>3, <2>1 DEF Serial, NoWrites
  <2>2. CASE q # r /\ InTransaction(r)
    BY <1>1, <2>2, OthersIdle
  <2>3. CASE q # r /\ ~InTransaction(r)
    <3>1. rows' = rows /\ active' = active
      BY <2>3 DEF store
    <3>2. InTransaction(q) => AtWork(q)'
      BY <1>1, <2>3, <3>1, RunningStays DEF SerialInv, Serial
    <3>3. ~InTransaction(q) => w'[q] = NoWrites
      BY <1>1, <2>3 DEF SerialInv, Serial
    <3> QED
      BY <1>2, <2>3, <3>2, <3>3 DEF Serial, NoWrites
  <2> QED
    BY <2>1, <2>2, <2>3
<1> QED
  BY <1>4, <1>5 DEF SerialInv

\* A failure leaves the tables as they are.
LEMMA RollbackSerial ==
  ASSUME TypeOK, SerialInv, NEW r \in Request, ~Over(r), Rollback(r)
  PROVE  SerialInv'
<1>1. Close(r, "failed") /\ UNCHANGED store
  BY DEF Rollback
<1>2. /\ UNCHANGED <<job, begun, clock, rows, active>> /\ Memories' = Memories
      /\ \A q \in Request \ {r} : pc'[q] = pc[q]
  BY <1>1 DEF Close, store, TypeOK, HandlersOK, Memories
<1>3. \A x \in Memories : pc'[x[2]] = "done" /\ begun'[x[2]] <= clock'
  BY <1>2 DEF SerialInv, Committed, Over, Memories, MemoryRow
<1>4. EveryMemoryHasItsTurn'
  BY <1>2 DEF SerialInv, Committed, EveryMemoryHasItsTurn
<1>5. \A k \in SingleKeys : ShowsLatest(rows, active, k)'
  BY <1>2, ViewStable DEF SerialInv, Committed
<1>6. Committed'
  BY <1>2, <1>3, <1>4, <1>5 DEF Committed, SingleKeys
<1> QED
  BY <1>1, <1>6, CloseSerial

\* A commit publishes what the transaction sees.
LEMMA CommitSerial ==
  ASSUME TypeOK, SerialInv, NEW r \in Request, InTransaction(r), Commit(r),
         \A x \in VisibleMemories(r) : Turn(x[2]) \in Visible(r) /\ (x \in rows \/ x[2] = r),
         \A k \in SingleKeys : ShowsLatest(Visible(r), ActiveFor(r), k)
  PROVE  SerialInv'
<1>1. /\ Close(r, "done") /\ rows' = Visible(r) /\ active' = ActiveFor(r) /\ ~Over(r)
      /\ Memories' = VisibleMemories(r)
  BY DEF Commit, InTransaction, Memories, VisibleMemories
<1>2. /\ UNCHANGED <<job, begun, clock>> /\ pc'[r] = "done"
      /\ \A q \in Request \ {r} : pc'[q] = pc[q]
  BY <1>1 DEF Close, TypeOK, HandlersOK
<1>3. EveryMemoryHasItsTurn'
  BY <1>1 DEF EveryMemoryHasItsTurn
<1>4. begun[r] = clock /\ clock \in Nat
  BY DEF SerialInv, Serial, AtWork, TypeOK, HandlersOK
<1>5. \A x \in VisibleMemories(r) : pc'[x[2]] = "done" /\ begun'[x[2]] <= clock'
  <2> SUFFICES ASSUME NEW x \in VisibleMemories(r) PROVE pc'[x[2]] = "done" /\ begun[x[2]] <= clock
    BY <1>2
  <2>1. x[2] \in Request
    BY DEF VisibleMemories, MemoryRow
  <2>2. CASE x \in rows
    BY <1>2, <2>1, <2>2 DEF SerialInv, Committed, Memories, VisibleMemories
  <2>3. CASE x[2] = r
    BY <1>2, <1>4, <2>3
  <2> QED
    BY <2>2, <2>3
<1>6. \A k \in SingleKeys : ShowsLatest(rows, active, k)'
  <2>1. \A S, A, k : ShowsLatest(S, A, k)' <=> ShowsLatest(S, A, k)
    BY <1>2, ViewStable
  <2> QED
    BY <1>1, <2>1
<1>7. Committed'
  BY <1>1, <1>3, <1>5, <1>6 DEF Committed, SingleKeys
<1> QED
  BY <1>1, <1>7, CloseSerial

LEMMA StutterSerial == ASSUME SerialInv, UNCHANGED vars PROVE SerialInv'
<1>1. UNCHANGED <<job, pc, at, todo, keys, begun, clock, w, rows, active>>
  BY DEF vars, control, store
<1>2. OneAtATime' /\ \A q \in Request : InTransaction(q)' <=> InTransaction(q)
  BY <1>1 DEF SerialInv, OneAtATime, InTransaction, Over
<1>3. \A q \in Request : Serial(q)'
  BY <1>1, <1>2, RunningStays DEF SerialInv, Serial, NoWrites
<1>4. Memories' = Memories /\ EveryMemoryHasItsTurn'
  BY <1>1 DEF SerialInv, Committed, EveryMemoryHasItsTurn, Memories
<1>5. \A k \in SingleKeys : ShowsLatest(rows, active, k)'
  BY <1>1, ViewStable DEF SerialInv, Committed
<1>6. Committed'
  BY <1>1, <1>4, <1>5 DEF SerialInv, Committed, SingleKeys
<1> QED
  BY <1>2, <1>3, <1>6 DEF SerialInv

----------------------------------------------------------------------------
\* Turns.

LEMMA TurnRuns ==
  ASSUME TypeOK, SerialInv, NEW r \in Request,
         pc[r] \in {"reconcile", "apply", "mentions", "edges"}
  PROVE  InTransaction(r) /\ begun[r] = clock /\ job[r].op = "turn" /\ TurnView(r)
<1>1. InTransaction(r)
  BY DEF InTransaction, Over
<1>2. AtWork(r)
  BY <1>1 DEF SerialInv, Serial
<1>3. job[r].op = "turn"
  BY <1>2 DEF AtWork, Removes, Plan, UserPlan, SessionPlan
<1> QED
  BY <1>1, <1>2, <1>3 DEF AtWork

\* Two views with the same memories, of which the same are active.
LEMMA SameMemories ==
  ASSUME NEW S, NEW T, S \cap MemoryRow = T \cap MemoryRow
  PROVE  \A k : OfKeyIn(S, k) = OfKeyIn(T, k)
BY DEF OfKeyIn

\* What a transaction sees of memories depends on what it inserted, deleted and
\* switched.
LEMMA SeenMemories ==
  ASSUME TypeOK, NEW r \in Request, UNCHANGED store,
         w'[r].ins \cap MemoryRow = w[r].ins \cap MemoryRow,
         w'[r].del \cap MemoryRow = w[r].del \cap MemoryRow,
         w'[r].on = w[r].on, w'[r].off = w[r].off
  PROVE  /\ Visible(r)' \cap MemoryRow = Visible(r) \cap MemoryRow
         /\ ActiveFor(r)' = ActiveFor(r)
<1>1. rows' = rows /\ active' = active /\ active \subseteq MemoryRow
  BY DEF store, TypeOK, TablesOK
<1>2. w[r].on \subseteq MemoryRow
  BY DEF TypeOK, HandlersOK, Writes
<1>3. Visible(r)' \cap MemoryRow = Visible(r) \cap MemoryRow
  BY <1>1 DEF Visible
<1> QED
  BY <1>1, <1>2, <1>3 DEF ActiveFor

LEMMA QuietTurnSerial ==
  ASSUME TypeOK, SerialInv, NEW r \in Request,
         pc[r] \in {"reconcile", "mentions", "edges"},
         UNCHANGED <<job, begun, clock, store>>,
         w'[r].ins \cap MemoryRow = w[r].ins \cap MemoryRow, Turn(r) \in w'[r].ins,
         w'[r].del = w[r].del, w'[r].on = w[r].on, w'[r].off = w[r].off,
         pc'[r] \in {"reconcile", "mentions", "edges"},
         \A q \in Request \ {r} : pc'[q] = pc[q] /\ w'[q] = w[q]
  PROVE  SerialInv'
<1>1. InTransaction(r) /\ begun[r] = clock /\ job[r].op = "turn" /\ TurnView(r)
  BY TurnRuns
<1>2. InTransaction(r)'
  BY DEF InTransaction, Over
<1>3. Visible(r)' \cap MemoryRow = Visible(r) \cap MemoryRow /\ ActiveFor(r)' = ActiveFor(r)
  BY SeenMemories
<1>4. \A k \in SingleKeys : ShowsLatest(Visible(r), ActiveFor(r), k)'
  <2> SUFFICES ASSUME NEW k \in SingleKeys PROVE ShowsLatest(Visible(r), ActiveFor(r), k)'
    OBVIOUS
  <2>1. ShowsLatest(Visible(r), ActiveFor(r), k)
    BY <1>1 DEF TurnView, Replacing
  <2>2. OfKeyIn(Visible(r), k) = OfKeyIn(Visible(r)', k)
    BY <1>3, SameMemories
  <2>3. ShowsLatest(Visible(r)', ActiveFor(r)', k)
    BY <1>3, <2>1, <2>2, SameView
  <2> QED
    BY <2>3, ViewStable
<1>5. \A k : ~Replacing(r, k)'
  BY DEF Replacing
<1>6. TurnView(r)'
  BY <1>1, <1>4, <1>5 DEF TurnView, SingleKeys
<1>7. AtWork(r)'
  BY <1>1, <1>6 DEF AtWork
<1> QED
  BY <1>1, <1>2, <1>7, LocalSerial

LEMMA BeginTurnSerial ==
  ASSUME PoolSize = 1, TypeOK, SerialInv, NEW r \in Request, BeginTurn(r)
  PROVE  SerialInv'
<1>1. Open(r) /\ job[r].op = "turn" /\ UNCHANGED <<job, store>>
  BY DEF BeginTurn
<1>2. /\ pc'[r] \in {"edges", "reconcile"}
      /\ w'[r] = [w[r] EXCEPT !.ins = {Turn(r)}]
      /\ \A q \in Request \ {r} : pc'[q] = pc[q] /\ w'[q] = w[q]
  BY DEF BeginTurn, TypeOK, HandlersOK
<1>3. InTransaction(r)'
  BY <1>2 DEF InTransaction, Over
<1>4. Committed' /\ begun'[r] = clock' /\ w[r] = NoWrites /\ (AtWork(r)' => SerialInv')
  BY <1>1, <1>2, <1>3, OpenSerial
<1>5. w'[r].ins = {Turn(r)} /\ w'[r].on = {} /\ w'[r].off = {} /\ w'[r].del = {}
  BY <1>2, <1>4 DEF NoWrites
<1>6. Turn(r) \notin MemoryRow
  BY OwnRows
<1>7. active' \subseteq rows' /\ Visible(r)' = rows' \cup {Turn(r)} /\ ActiveFor(r)' = active'
  <2>1. active' \subseteq rows'
    BY <1>1 DEF TypeOK, TablesOK, store
  <2> QED
    BY <1>5, <2>1 DEF Visible, ActiveFor
<1>8. \A k \in SingleKeys : ShowsLatest(Visible(r), ActiveFor(r), k)'
  <2> SUFFICES ASSUME NEW k \in SingleKeys PROVE ShowsLatest(Visible(r), ActiveFor(r), k)'
    OBVIOUS
  <2>1. ShowsLatest(rows, active, k)'
    BY <1>4 DEF Committed, SingleKeys
  <2>2. OfKeyIn(Visible(r), k)' = OfKeyIn(rows, k)'
    BY <1>6, <1>7 DEF OfKeyIn
  <2> QED
    BY <1>7, <2>1, <2>2 DEF ShowsLatest
<1>9. TurnView(r)'
  BY <1>2, <1>5, <1>6, <1>8 DEF TurnView, Replacing, SingleKeys
<1>10. AtWork(r)'
  BY <1>1, <1>4, <1>9 DEF AtWork
<1> QED
  BY <1>4, <1>10

\* Under a single-valued key a decision skips, or deactivates all that is active.
LEMMA SingleDecision ==
  ASSUME NEW c, NEW S, NEW d \in Decisions(c, S), c.predicate \in Single, d.insert
  PROVE  d.deactivate = S
<1>1. d # Skip
  BY DEF Skip
<1>2. PICK gone \in Replaced(c, S) : d \in {Insert(head, gone) : head \in Heads(gone)}
  BY <1>1 DEF Decisions
<1>3. d.deactivate = gone
  BY <1>2 DEF Insert
<1>4. gone = S
  BY <1>2 DEF Replaced
<1> QED
  BY <1>3, <1>4

LEMMA ReconcileSerial ==
  ASSUME TypeOK, SerialInv, NEW r \in Request, Reconcile(r)
  PROVE  SerialInv'
<1> DEFINE m == ThisMemory(r)
           k == KeyOf(m)
<1>1. pc[r] = "reconcile" /\ UNCHANGED <<job, begun, clock, w, store>>
  BY DEF Reconcile
<1>2. InTransaction(r) /\ begun[r] = clock /\ job[r].op = "turn" /\ TurnView(r)
  BY <1>1, TurnRuns
<1>3. PICK d \in Decisions(Cand(m), Rivals(r, k)) :
         /\ todo' = [todo EXCEPT ![r] = d.deactivate]
         /\ IF d.insert
            THEN pc' = [pc EXCEPT ![r] = "apply"] /\ UNCHANGED at
            ELSE NextCandidate(r)
  BY DEF Reconcile
<1>4. CASE ~d.insert
  <2>1. pc'[r] \in {"reconcile", "edges"} /\ \A q \in Request \ {r} : pc'[q] = pc[q]
    BY <1>3, <1>4, NextCandidateGoes
  <2> QED
    BY <1>1, <1>2, <2>1, QuietTurnSerial DEF TurnView
<1>5. CASE d.insert
  <2>1. /\ pc'[r] = "apply" /\ at' = at /\ todo'[r] = d.deactivate
        /\ \A q \in Request \ {r} : pc'[q] = pc[q]
    BY <1>3, <1>5 DEF TypeOK, HandlersOK
  <2>2. UNCHANGED <<Visible(r), ActiveFor(r), m, k>>
    BY <1>1, <2>1, KeyStable DEF Visible, ActiveFor, store, ThisMemory, Memory
  <2>3. \A h : Replacing(r, h)' <=> h = k
    BY <2>1, <2>2 DEF Replacing
  <2>4. \A x \in todo'[r] : KeyOf(x)' = k
    BY <1>1, <1>3, <2>1, DecisionRows, KeyStable DEF Rivals
  <2>5. ASSUME NEW h \in SingleKeys
        PROVE  IF Replacing(r, h)' THEN OfKeyIn(Visible(r), h)' \cap ActiveFor(r)' \subseteq todo'[r]
                                   ELSE ShowsLatest(Visible(r), ActiveFor(r), h)'
    <3>1. CASE h = k
      <4>1. Cand(m).predicate \in Single
        BY <3>1 DEF SingleKeys, KeyOf
      <4>2. d.deactivate = Rivals(r, k)
        BY <1>3, <1>5, <4>1, SingleDecision
      <4>3. OfKeyIn(Visible(r), h)' \cap ActiveFor(r)' \subseteq Rivals(r, k)
        BY <1>1, <2>2, <3>1, KeyStable DEF OfKeyIn, Rivals
      <4> QED
        BY <2>1, <2>3, <3>1, <4>2, <4>3
    <3>2. CASE h # k
      <4>1. ShowsLatest(Visible(r), ActiveFor(r), h)
        BY <1>1, <1>2 DEF TurnView, Replacing
      <4> QED
        BY <1>1, <2>2, <2>3, <3>2, <4>1, ViewStable
    <3> QED
      BY <3>1, <3>2
  <2>6. TurnView(r)'
    BY <1>1, <1>2, <2>1, <2>3, <2>4, <2>5 DEF TurnView, SingleKeys
  <2>7. AtWork(r)' /\ InTransaction(r)'
    BY <1>1, <1>2, <2>1, <2>6 DEF AtWork, InTransaction, Over
  <2> QED
    BY <1>1, <1>2, <2>1, <2>7, LocalSerial
<1> QED
  BY <1>4, <1>5

LEMMA DeactivateSerial ==
  ASSUME TypeOK, SerialInv, NEW r \in Request, Deactivate(r)
  PROVE  SerialInv'
<1> DEFINE k == KeyOf(ThisMemory(r))
<1>1. pc[r] = "apply" /\ UNCHANGED <<job, pc, at, begun, clock, store>>
  BY DEF Deactivate
<1>2. InTransaction(r) /\ begun[r] = clock /\ job[r].op = "turn" /\ TurnView(r)
  BY <1>1, TurnRuns
<1>3. PICK x \in todo[r] :
         /\ todo' = [todo EXCEPT ![r] = @ \ {x}]
         /\ w' = IF x \in Visible(r)
                 THEN [w EXCEPT ![r].off = @ \cup {x}, ![r].on = @ \ {x}]
                 ELSE w
  BY DEF Deactivate
<1>4. /\ todo'[r] = todo[r] \ {x}
      /\ w'[r].ins = w[r].ins /\ w'[r].del = w[r].del
      /\ \/ x \in Visible(r) /\ w'[r].off = w[r].off \cup {x} /\ w'[r].on = w[r].on \ {x}
         \/ x \notin Visible(r) /\ w'[r].off = w[r].off /\ w'[r].on = w[r].on
      /\ \A q \in Request \ {r} : pc'[q] = pc[q] /\ w'[q] = w[q]
  BY <1>1, <1>3 DEF TypeOK, HandlersOK, Writes
<1>5. /\ Visible(r)' = Visible(r) /\ ActiveFor(r)' = ActiveFor(r) \ {x}
      /\ ThisMemory(r)' = ThisMemory(r)
  BY <1>1, <1>4 DEF Visible, ActiveFor, store, ThisMemory
<1>6. \A h : (Replacing(r, h)' <=> h = k) /\ (Replacing(r, h) <=> h = k)
  BY <1>1, <1>5, KeyStable DEF Replacing
<1>7. KeyOf(x) = k /\ \A y \in todo'[r] : KeyOf(y)' = k
  BY <1>1, <1>2, <1>4, <1>6, KeyStable DEF TurnView
<1>8. ASSUME NEW h \in SingleKeys
      PROVE  IF Replacing(r, h)' THEN OfKeyIn(Visible(r), h)' \cap ActiveFor(r)' \subseteq todo'[r]
                                 ELSE ShowsLatest(Visible(r), ActiveFor(r), h)'
  <2>1. CASE h = k
    <3>1. OfKeyIn(Visible(r), h) \cap ActiveFor(r) \subseteq todo[r]
      BY <1>2, <1>6, <2>1 DEF TurnView
    <3>2. OfKeyIn(Visible(r), h)' = OfKeyIn(Visible(r), h)
      BY <1>1, <1>5, KeyStable
    <3> QED
      BY <1>4, <1>5, <1>6, <2>1, <3>1, <3>2
  <2>2. CASE h # k
    <3>1. ShowsLatest(Visible(r), ActiveFor(r), h)
      BY <1>2, <1>6, <2>2 DEF TurnView
    <3>2. x \notin OfKeyIn(Visible(r), h)
      BY <1>7, <2>2 DEF OfKeyIn
    <3>3. OfKeyIn(Visible(r), h) \cap ActiveFor(r) = OfKeyIn(Visible(r), h) \cap (ActiveFor(r) \ {x})
      BY <3>2
    <3>4. ShowsLatest(Visible(r)', ActiveFor(r)', h)
      BY <1>5, <3>1, <3>3, SameView
    <3> QED
      BY <1>1, <1>6, <2>2, <3>4, ViewStable
  <2> QED
    BY <2>1, <2>2
<1>9. TurnView(r)'
  BY <1>1, <1>2, <1>4, <1>6, <1>7, <1>8 DEF TurnView, SingleKeys
<1>10. AtWork(r)' /\ InTransaction(r)'
  BY <1>1, <1>2, <1>9 DEF AtWork, InTransaction, Over
<1> QED
  BY <1>1, <1>2, <1>4, <1>10, LocalSerial

\* A running request sees no memory younger than itself.
LEMMA NoneYounger ==
  ASSUME TypeOK, SerialInv, NEW r \in Request, job[r].op = "turn", InTransaction(r)
  PROVE  \A x \in VisibleMemories(r) : begun[x[2]] <= begun[r]
<1>1. TurnView(r) /\ begun[r] = clock
  BY DEF SerialInv, Serial, AtWork
<1> SUFFICES ASSUME NEW x \in VisibleMemories(r) PROVE begun[x[2]] <= begun[r]
  OBVIOUS
<1>2. CASE x \in rows
  BY <1>1, <1>2 DEF SerialInv, Committed, Memories, VisibleMemories
<1>3. CASE x \notin rows
  <2>1. x[2] = r
    BY <1>1, <1>3 DEF TurnView, VisibleMemories, Visible
  <2> QED
    BY <2>1 DEF TypeOK, HandlersOK
<1> QED
  BY <1>2, <1>3

LEMMA InsertMemorySerial ==
  ASSUME TypeOK, SerialInv, NEW r \in Request, InsertMemory(r)
  PROVE  SerialInv'
<1> DEFINE m == ThisMemory(r)
           k == KeyOf(m)
<1>1. pc[r] = "apply" /\ todo[r] = {} /\ UNCHANGED <<job, begun, clock, todo, store>>
  BY DEF InsertMemory
<1>2. InTransaction(r) /\ begun[r] = clock /\ job[r].op = "turn" /\ TurnView(r)
  BY <1>1, TurnRuns
<1>3. /\ w'[r].ins = w[r].ins \cup {m} /\ w'[r].on = w[r].on \cup {m}
      /\ w'[r].off = w[r].off /\ w'[r].del = w[r].del
      /\ \A q \in Request \ {r} : w'[q] = w[q]
  BY DEF InsertMemory, TypeOK, HandlersOK, Writes
<1>4. /\ pc'[r] \in {"reconcile", "edges", "mentions"}
      /\ \A q \in Request \ {r} : pc'[q] = pc[q]
  BY NextEntityGoes DEF InsertMemory
<1>5. m \in MemoryRow /\ m[2] = r
  BY <1>1, ThisMemoryStated DEF TypeOK, Placed
<1>6. w[r].del = {} /\ Turn(r) \in w[r].ins
  BY <1>2 DEF TurnView
<1>7. Visible(r)' = Visible(r) \cup {m} /\ ActiveFor(r)' = ActiveFor(r) \cup {m}
  BY <1>1, <1>3, <1>6 DEF Visible, ActiveFor, store
<1>8. ~Replacing(r, k)' /\ \A h : Replacing(r, h) <=> h = k
  BY <1>1, <1>4 DEF Replacing
<1>9. ASSUME NEW h \in SingleKeys PROVE ShowsLatest(Visible(r), ActiveFor(r), h)'
  <2> DEFINE S == OfKeyIn(Visible(r), h)
             T == OfKeyIn(Visible(r) \cup {m}, h)
  <2>1. CASE h = k
    <3>1. S \cap ActiveFor(r) = {}
      BY <1>1, <1>2, <1>8, <2>1 DEF TurnView
    <3>2. T = S \cup {m}
      BY <1>5, <2>1 DEF OfKeyIn
    <3>3. T \cap (ActiveFor(r) \cup {m}) = {m}
      BY <3>1, <3>2
    <3>4. \A y \in T : begun[y[2]] <= begun[m[2]]
      <4>1. \A y \in S : begun[y[2]] <= begun[r]
        BY <1>2, NoneYounger DEF OfKeyIn, VisibleMemories
      <4>2. begun[r] <= begun[r]
        BY DEF TypeOK, HandlersOK
      <4> QED
        BY <1>5, <3>2, <4>1, <4>2
    <3>5. m \in Latest(T)
      BY <3>2, <3>4 DEF Latest
    <3>6. ShowsLatest(Visible(r) \cup {m}, ActiveFor(r) \cup {m}, h)
      BY <3>3, <3>5 DEF ShowsLatest
    <3> QED
      BY <1>1, <1>7, <3>6, ViewStable
  <2>2. CASE h # k
    <3>1. ShowsLatest(Visible(r), ActiveFor(r), h)
      BY <1>2, <1>8, <2>2 DEF TurnView
    <3>2. T = S /\ m \notin S
      BY <2>2 DEF OfKeyIn
    <3>3. S \cap ActiveFor(r) = S \cap (ActiveFor(r) \cup {m})
      BY <3>2
    <3>4. ShowsLatest(Visible(r)', ActiveFor(r)', h)
      BY <1>7, <3>1, <3>2, <3>3, SameView
    <3> QED
      BY <1>1, <3>4, ViewStable
  <2> QED
    BY <2>1, <2>2
<1>10. \A h : ~Replacing(r, h)'
  BY <1>4 DEF Replacing
<1>11. \A x \in w'[r].ins \cap MemoryRow : x[2] = r
  BY <1>2, <1>3, <1>5 DEF TurnView
<1>12. TurnView(r)'
  BY <1>3, <1>4, <1>6, <1>9, <1>10, <1>11 DEF TurnView, SingleKeys
<1>13. AtWork(r)' /\ InTransaction(r)'
  BY <1>1, <1>2, <1>4, <1>12 DEF AtWork, InTransaction, Over
<1> QED
  BY <1>1, <1>2, <1>3, <1>4, <1>13, LocalSerial

LEMMA MentionEntitySerial ==
  ASSUME TypeOK, SerialInv, NEW r \in Request, MentionEntity(r)
  PROVE  SerialInv'
<1> DEFINE e == ThisEntity(r)
<1>1. UNCHANGED <<job, begun, clock, store>> /\ pc[r] = "mentions"
  BY DEF MentionEntity
<1>2. /\ w[r].ins \subseteq w'[r].ins /\ w'[r].ins \subseteq w[r].ins \cup {e}
      /\ w'[r].on = w[r].on /\ w'[r].off = w[r].off /\ w'[r].del = w[r].del
      /\ \A q \in Request \ {r} : w'[q] = w[q]
  BY DEF MentionEntity, TypeOK, HandlersOK, Writes
<1>3. /\ pc'[r] \in {"reconcile", "edges", "mentions"}
      /\ \A q \in Request \ {r} : pc'[q] = pc[q]
  BY NextEntityGoes DEF MentionEntity
<1>4. e \notin MemoryRow
  BY DEF ThisEntity, Entity, MemoryRow
<1>5. w'[r].ins \cap MemoryRow = w[r].ins \cap MemoryRow
  BY <1>2, <1>4
<1>6. Turn(r) \in w'[r].ins
  BY <1>1, <1>2, TurnRuns DEF TurnView
<1> QED
  BY <1>1, <1>2, <1>3, <1>5, <1>6, QuietTurnSerial

LEMMA LinkSerial ==
  ASSUME TypeOK, SerialInv, NEW r \in Request, LinkSource(r) \/ LinkPeer(r)
  PROVE  SerialInv'
<1>1. UNCHANGED <<job, pc, begun, clock, store>> /\ pc[r] = "edges"
  BY DEF LinkSource, LinkPeer
<1>2. /\ w'[r].ins = w[r].ins /\ w'[r].del = w[r].del /\ w'[r].on = w[r].on
      /\ w'[r].off = w[r].off
      /\ \A q \in Request \ {r} : w'[q] = w[q]
  <2>1. CASE LinkSource(r)
    BY <2>1 DEF LinkSource, TypeOK, HandlersOK, Writes
  <2>2. CASE LinkPeer(r)
    <3> DEFINE m == Memory(r, at[r] - 1)
    <3>1. PICK x \in todo[r] :
             w' = [w EXCEPT ![r].share = @ \cup {x},
                            ![r].edges = @ \cup {<<m, x, "same_subject">>,
                                                 <<x, m, "same_subject">>}]
      BY <2>2 DEF LinkPeer
    <3> QED
      BY <3>1 DEF TypeOK, HandlersOK, Writes
  <2> QED
    BY <2>1, <2>2
<1>3. Turn(r) \in w'[r].ins
  BY <1>1, <1>2, TurnRuns DEF TurnView
<1> QED
  BY <1>1, <1>2, <1>3, QuietTurnSerial

LEMMA CommitTurnSerial ==
  ASSUME TypeOK, SerialInv, NEW r \in Request, CommitTurn(r)
  PROVE  SerialInv'
<1>1. pc[r] = "edges" /\ Commit(r)
  BY DEF CommitTurn
<1>2. InTransaction(r) /\ TurnView(r)
  BY <1>1, TurnRuns
<1>3. w[r].del = {} /\ Visible(r) = rows \cup w[r].ins
  BY <1>2 DEF TurnView, Visible
<1>4. ASSUME NEW x \in VisibleMemories(r)
      PROVE  Turn(x[2]) \in Visible(r) /\ (x \in rows \/ x[2] = r)
  <2>1. CASE x \in rows
    BY <1>3, <1>4, <2>1 DEF VisibleMemories, SerialInv, Committed, EveryMemoryHasItsTurn, Memories
  <2>2. CASE x \notin rows
    BY <1>2, <1>3, <1>4, <2>2 DEF VisibleMemories, TurnView
  <2> QED
    BY <2>1, <2>2
<1>5. \A k \in SingleKeys : ShowsLatest(Visible(r), ActiveFor(r), k)
  BY <1>1, <1>2 DEF TurnView, Replacing
<1> QED
  BY <1>1, <1>2, <1>4, <1>5, CommitSerial

----------------------------------------------------------------------------
\* Deletes.

\* What a delete sees and selects while its writes stay.
LEMMA SelectionStable ==
  ASSUME NEW r \in Request, job' = job, rows' = rows
  PROVE  /\ SelectedMemories(r)' = SelectedMemories(r)
         /\ SelectedTurns(r)' = SelectedTurns(r)
         /\ Plan(r)' = Plan(r) /\ BeforeMemories(r)' = BeforeMemories(r)
<1>1. \A x : KeyOf(x)' = KeyOf(x)
  BY KeyStable
<1> QED
  BY <1>1 DEF SelectedMemories, SelectedTurns, Plan, BeforeMemories, Memories, OwnScope

\* A step inside a delete.
LEMMA DeleteBody ==
  ASSUME TypeOK, SerialInv, NEW r \in Request, InTransaction(r), job[r].op # "turn",
         UNCHANGED <<job, begun, clock, store>>,
         \A q \in Request \ {r} : pc'[q] = pc[q] /\ w'[q] = w[q],
         Removes(r)', Recomputes(r)'
  PROVE  SerialInv'
<1>1. AtWork(r)'
  BY DEF SerialInv, Serial, AtWork
<1>2. pc'[r] \in DOMAIN UserPlan \cup DOMAIN SessionPlan \cup {"commit"}
  BY DEF Removes, Plan
<1>3. InTransaction(r)'
  BY <1>2 DEF InTransaction, Over, UserPlan, SessionPlan
<1> QED
  BY <1>1, <1>3, LocalSerial

LEMMA BeginDeleteSerial ==
  ASSUME PoolSize = 1, TypeOK, SerialInv, NEW r \in Request,
         BeginDeleteSession(r) \/ BeginDeleteUser(r)
  PROVE  SerialInv'
<1>1. /\ Open(r) /\ UNCHANGED <<job, w, store>>
      /\ \/ job[r].op = "delete_session" /\ pc'[r] = "affected"
         \/ job[r].op = "delete_user" /\ pc'[r] = "begin"
      /\ \A q \in Request \ {r} : pc'[q] = pc[q] /\ w'[q] = w[q]
  BY DEF BeginDeleteSession, BeginDeleteUser, TypeOK, HandlersOK
<1>2. InTransaction(r)'
  BY <1>1 DEF InTransaction, Over
<1>3. Committed' /\ begun'[r] = clock' /\ w[r] = NoWrites /\ (AtWork(r)' => SerialInv')
  BY <1>1, <1>2, OpenSerial
<1>4. w'[r].ins = {} /\ w'[r].del = {} /\ w'[r].on = {} /\ w'[r].off = {}
  BY <1>1, <1>3 DEF NoWrites
<1>5. Visible(r) = rows /\ Visible(r)' = rows' /\ ActiveFor(r)' = active'
  <2>1. active' \subseteq rows'
    BY <1>1 DEF TypeOK, TablesOK, store
  <2> QED
    BY <1>1, <1>4, <2>1 DEF Visible, ActiveFor
<1>6. rows' = rows
  BY <1>1 DEF store
<1>7. Removes(r)'
  BY <1>1, <1>4 DEF Removes, Plan, BeforeMemories, UserPlan, SessionPlan
<1>8. \A k \in SingleKeys : ShowsLatest(Visible(r), ActiveFor(r), k)'
  BY <1>3, <1>5 DEF Committed, ShowsLatest, SingleKeys
<1>9. pc'[r] = "affected" => \A x \in SelectedMemories(r)' : Exempt(r, KeyOf(x))'
  <2> SUFFICES ASSUME pc'[r] = "affected", NEW x \in SelectedMemories(r)'
               PROVE  Exempt(r, KeyOf(x))'
    OBVIOUS
  <2>1. BeginDeleteSession(r) /\ job[r].op = "delete_session"
    BY <1>1 DEF BeginDeleteSession, BeginDeleteUser, TypeOK, HandlersOK
  <2>2. PICK order \in Orders(AffectedKeys(r)) : keys' = [keys EXCEPT ![r] = order]
    BY <2>1 DEF BeginDeleteSession
  <2>3. keys'[r] = order
    BY <2>2 DEF TypeOK, HandlersOK
  <2>4. x \in DoomedMemories(r)
    BY <1>1, <1>5, <1>6, <2>1, SelectionStable DEF SelectedMemories, DoomedMemories, Memories, VisibleMemories
  <2>5. KeyOf(x) \in AffectedKeys(r)
    BY <2>4 DEF AffectedKeys
  <2>6. PICK i \in DOMAIN order : order[i] = KeyOf(x)
    BY <2>5 DEF Orders
  <2>7. KeyOf(x)' = KeyOf(x) /\ job'[r].op # "delete_user"
    BY <1>1, <2>1, KeyStable
  <2> QED
    BY <2>3, <2>6, <2>7 DEF Exempt
<1>10. Recomputes(r)'
  BY <1>1, <1>8, <1>9 DEF Recomputes, SingleKeys
<1>11. AtWork(r)'
  BY <1>1, <1>3, <1>7, <1>10 DEF AtWork
<1> QED
  BY <1>3, <1>11

\* A delete runs: what the invariant says of it.
LEMMA DeleteRuns ==
  ASSUME SerialInv, NEW r \in Request, InTransaction(r), job[r].op # "turn"
  PROVE  Removes(r) /\ Recomputes(r) /\ Visible(r) = rows \ w[r].del
<1>1. Removes(r) /\ Recomputes(r)
  BY DEF SerialInv, Serial, AtWork
<1> QED
  BY <1>1 DEF Removes, Visible

\* The statements of the plan come in order, each of them with the rows it selects.
LEMMA StatementSerial ==
  ASSUME TypeOK, SerialInv, NEW r \in Request, InTransaction(r), job[r].op # "turn",
         todo[r] = {}, NEW next, Statement(r, next), next \in (DOMAIN Plan(r) \cup {"commit"}) \ {"affected"},
         next = "memories" => pc[r] \in BeforeMemories(r),
         next \in BeforeMemories(r) => pc[r] \in BeforeMemories(r),
         next \notin BeforeMemories(r) \cup {"memories"} => pc[r] \notin BeforeMemories(r),
         next = "memories" /\ job[r].op # "delete_user" => pc[r] = "affected",
         next = "activate" => pc[r] = "reset",
         next = "commit" => job[r].op = "delete_user" \/ keys[r] = <<>>
  PROVE  SerialInv'
<1>1. PICK T \in Targets(r, next) : todo' = [todo EXCEPT ![r] = T]
  BY DEF Statement
<1>2. /\ todo'[r] = T /\ pc'[r] = next /\ UNCHANGED <<job, w, begun, clock, store>>
      /\ keys'[r] = IF next = "activate" THEN Tail(keys[r]) ELSE keys[r]
      /\ \A q \in Request \ {r} : pc'[q] = pc[q] /\ w'[q] = w[q]
  BY <1>1 DEF Statement, TypeOK, HandlersOK
<1>3. Removes(r) /\ Recomputes(r) /\ Visible(r) = rows \ w[r].del
  BY DeleteRuns
<1>4. UNCHANGED <<rows, active, Visible(r), ActiveFor(r)>>
  BY <1>2 DEF store, Visible, ActiveFor
<1>5. UNCHANGED <<SelectedMemories(r), SelectedTurns(r), Plan(r), BeforeMemories(r)>>
  BY <1>2, <1>4, SelectionStable
<1>6. DoomedMemories(r) = SelectedMemories(r) \ w[r].del /\ DoomedTurns(r) \subseteq SelectedTurns(r)
  BY <1>3 DEF DoomedMemories, SelectedMemories, VisibleMemories, Memories, DoomedTurns, SelectedTurns
<1>7. Removes(r)'
  <2>1. next = "memories" => /\ T \subseteq SelectedMemories(r)
                             /\ SelectedMemories(r) \subseteq w[r].del \cup T
    BY <1>6 DEF Targets
  <2>2. next = "turns" => T \subseteq SelectedTurns(r)
    BY <1>6 DEF Targets
  <2>3. next = "entities" => T \subseteq EntityRow
    BY DEF Targets, DoomedEntities
  <2>4. next \notin BeforeMemories(r) \cup {"memories"} => SelectedMemories(r) \subseteq w[r].del
    BY <1>3 DEF Removes
  <2> QED
    BY <1>2, <1>3, <1>5, <2>1, <2>2, <2>3, <2>4 DEF Removes
<1>8. \A k : Exempt(r, k) /\ ~(next = "activate" /\ k = Head(keys[r])) => Exempt(r, k)'
  <2> SUFFICES ASSUME NEW k, Exempt(r, k), ~(next = "activate" /\ k = Head(keys[r]))
               PROVE  Exempt(r, k)'
    OBVIOUS
  <2>1. CASE job[r].op = "delete_user" \/ next # "activate"
    BY <1>2, <2>1 DEF Exempt, OwnScope
  <2>2. CASE job[r].op # "delete_user" /\ next = "activate"
    <3>1. keys[r] \in Seq(ScopeKey) /\ k # Head(keys[r])
      BY <2>2 DEF TypeOK, HandlersOK
    <3>2. PICK i \in DOMAIN keys[r] : keys[r][i] = k
      BY <2>2 DEF Exempt
    <3>3. i # 1 /\ i - 1 \in DOMAIN Tail(keys[r]) /\ Tail(keys[r])[i - 1] = k
      BY <3>1, <3>2
    <3> QED
      BY <1>2, <2>2, <3>3 DEF Exempt
  <2> QED
    BY <2>1, <2>2
<1>9. OfKey(r, Head(keys[r])) = OfKeyIn(Visible(r), Head(keys[r]))
  BY DEF OfKey, OfKeyIn, VisibleMemories
<1>10. next = "memories" => \A x \in SelectedMemories(r)' : Exempt(r, KeyOf(x))'
  <2> SUFFICES ASSUME next = "memories", NEW x \in SelectedMemories(r) PROVE Exempt(r, KeyOf(x))'
    BY <1>5
  <2>1. Exempt(r, KeyOf(x))
    BY <1>3 DEF Recomputes, SelectedMemories, Exempt
  <2> QED
    BY <1>2, <1>8, <2>1, KeyStable
<1>11. next = "reset" =>
         /\ OfKeyIn(Visible(r), Head(keys[r]))' \cap ActiveFor(r)' \subseteq todo'[r]
         /\ \A x \in todo'[r] : KeyOf(x)' = Head(keys'[r])
  BY <1>2, <1>4, <1>9, KeyStable DEF Targets, OfKeyIn
<1>12. next = "activate" =>
         /\ T \in Heads(OfKeyIn(Visible(r), Head(keys[r])))
         /\ OfKeyIn(Visible(r), Head(keys[r])) \cap ActiveFor(r) = {}
  BY <1>3, <1>9 DEF Targets, Recomputes
<1>13. next = "activate" =>
         /\ \A x, y \in todo'[r] : x = y
         /\ \A x \in todo'[r] :
              /\ x \in Latest(OfKeyIn(Visible(r), KeyOf(x)))'
              /\ OfKeyIn(Visible(r), KeyOf(x))' \cap ActiveFor(r)' = {}
  <2> SUFFICES ASSUME next = "activate"
               PROVE  /\ \A x, y \in T : x = y
                      /\ \A x \in T :
                           /\ x \in Latest(OfKeyIn(Visible(r), KeyOf(x)))'
                           /\ OfKeyIn(Visible(r), KeyOf(x))' \cap ActiveFor(r)' = {}
    BY <1>2
  <2>1. \A x, y \in T : x = y
    BY <1>12 DEF Heads
  <2>2. \A x \in T : x \in Latest(OfKeyIn(Visible(r), Head(keys[r])))
    BY <1>12 DEF Heads
  <2>3. \A x \in T : KeyOf(x) = Head(keys[r])
    BY <2>2 DEF Latest, OfKeyIn
  <2>4. \A x \in T : OfKeyIn(Visible(r), KeyOf(x))' = OfKeyIn(Visible(r), Head(keys[r]))
    BY <1>2, <1>4, <2>3, KeyStable
  <2> QED
    BY <1>2, <1>4, <1>12, <2>1, <2>2, <2>4, ViewStable
<1>14. ASSUME NEW k \in SingleKeys
       PROVE  \/ Exempt(r, k)'
              \/ ShowsLatest(Visible(r), ActiveFor(r), k)'
              \/ next = "activate" /\ \E x \in todo'[r] : KeyOf(x)' = k
  <2>1. Exempt(r, k) \/ ShowsLatest(Visible(r), ActiveFor(r), k)
    BY <1>3 DEF Recomputes
  <2>2. CASE ShowsLatest(Visible(r), ActiveFor(r), k)
    BY <1>2, <1>4, <2>2, ViewStable
  <2>3. CASE Exempt(r, k) /\ ~(next = "activate" /\ k = Head(keys[r]))
    BY <1>8, <2>3
  <2>4. CASE next = "activate" /\ k = Head(keys[r])
    <3>1. CASE T = {}
      <4>1. OfKeyIn(Visible(r), k) = {}
        BY <1>12, <2>4, <3>1 DEF Heads
      <4> QED
        BY <1>2, <1>4, <4>1, KeyStable DEF ShowsLatest
    <3>2. CASE T # {}
      <4>1. PICK x \in T : x \in Latest(OfKeyIn(Visible(r), k))
        BY <1>12, <2>4, <3>2 DEF Heads
      <4>2. KeyOf(x)' = k
        BY <1>2, <4>1, KeyStable DEF Latest, OfKeyIn
      <4> QED
        BY <1>2, <2>4, <4>2
    <3> QED
      BY <3>1, <3>2
  <2> QED
    BY <2>1, <2>2, <2>3, <2>4
<1>15. Recomputes(r)'
  BY <1>2, <1>10, <1>11, <1>13, <1>14 DEF Recomputes, SingleKeys
<1> QED
  BY <1>2, <1>7, <1>15, DeleteBody

LEMMA NextStatementSerial ==
  ASSUME TypeOK, SerialInv, NEW r \in Request, NextStatement(r)
  PROVE  SerialInv'
<1>1. job[r].op # "turn" /\ todo[r] = {} /\ pc[r] \in DOMAIN Plan(r)
  BY DEF NextStatement, Plan
<1>2. InTransaction(r)
  BY <1>1 DEF InTransaction, Over, Plan, UserPlan, SessionPlan
<1>3. CASE job[r].op = "delete_user"
  <2>1. pc[r] \in DOMAIN UserPlan /\ UserPlan[pc[r]] # "recompute"
    BY <1>3 DEF NextStatement, UserPlan
  <2>2. Statement(r, UserPlan[pc[r]])
    BY <1>3, <2>1 DEF NextStatement
  <2> DEFINE next == UserPlan[pc[r]]
  <2>3. /\ next \in (DOMAIN UserPlan \cup {"commit"}) \ {"affected"}
        /\ next # "activate"
        /\ next = "memories" => pc[r] \in {"begin", "entities"}
        /\ next \in {"begin", "entities"} => pc[r] \in {"begin", "entities"}
        /\ next \notin {"begin", "entities", "memories"} => pc[r] \notin {"begin", "entities"}
    BY <2>1 DEF UserPlan
  <2> HIDE DEF next
  <2>4. next \in (DOMAIN Plan(r) \cup {"commit"}) \ {"affected"} /\ BeforeMemories(r) = {"begin", "entities"}
    BY <1>3, <2>3 DEF Plan, BeforeMemories
  <2>5. Statement(r, next)
    BY <2>2 DEF next
  <2> QED
    BY <1>1, <1>2, <1>3, <2>3, <2>4, <2>5, StatementSerial
<1>4. CASE job[r].op # "delete_user"
  <2> DEFINE next == IF SessionPlan[pc[r]] # "recompute" THEN SessionPlan[pc[r]]
                     ELSE IF keys[r] = <<>> THEN "commit" ELSE "reset"
  <2>1. pc[r] \in DOMAIN SessionPlan /\ Statement(r, next)
    BY <1>4 DEF NextStatement
  <2>2. /\ next \in (DOMAIN SessionPlan \cup {"commit"}) \ {"affected"}
        /\ next = "memories" => pc[r] = "affected"
        /\ next \notin {"affected", "memories"} => pc[r] # "affected"
        /\ next = "activate" => pc[r] = "reset"
        /\ next = "commit" => keys[r] = <<>>
    BY <2>1 DEF SessionPlan
  <2> HIDE DEF next
  <2>3. next \in (DOMAIN Plan(r) \cup {"commit"}) \ {"affected"} /\ BeforeMemories(r) = {"affected"}
    BY <1>4, <2>2 DEF Plan, BeforeMemories
  <2> QED
    BY <1>1, <1>2, <1>4, <2>1, <2>2, <2>3, StatementSerial
<1> QED
  BY <1>3, <1>4

\* One row deleted: of a memory, its key is exempt.
LEMMA VisitDeleting ==
  ASSUME TypeOK, SerialInv, NEW r \in Request, VisitRow(r), InTransaction(r),
         job[r].op # "turn", pc[r] \in Deleting
  PROVE  Removes(r)' /\ Recomputes(r)'
<1>1. UNCHANGED <<job, pc, keys, begun, clock, store>>
  BY DEF VisitRow
<1>2. PICK x \in todo[r] :
         /\ todo' = [todo EXCEPT ![r] = @ \ {x}]
         /\ w' = IF x \notin Visible(r) THEN w ELSE [w EXCEPT ![r].del = @ \cup {x}]
  BY DEF VisitRow
<1>3. /\ todo'[r] = todo[r] \ {x}
      /\ w'[r].ins = w[r].ins /\ w'[r].on = w[r].on /\ w'[r].off = w[r].off
      /\ \/ x \in Visible(r) /\ w'[r].del = w[r].del \cup {x}
         \/ x \notin Visible(r) /\ w'[r].del = w[r].del
  BY <1>2 DEF TypeOK, HandlersOK, Writes
<1>4. Removes(r) /\ Recomputes(r) /\ Visible(r) = rows \ w[r].del
  BY DeleteRuns
<1>5. rows' = rows /\ UNCHANGED <<SelectedMemories(r), SelectedTurns(r), Plan(r), BeforeMemories(r)>>
  BY <1>1, SelectionStable DEF store
<1>6. \A k : Exempt(r, k)' <=> Exempt(r, k)
  BY <1>1 DEF Exempt, OwnScope
<1>7. pc[r] \in Deleting \ {"memories"} => x \notin MemoryRow
  BY <1>4 DEF Removes, SelectedTurns, TurnRow, EntityRow, MemoryRow, Deleting
<1>8. x \in MemoryRow => pc[r] = "memories" /\ x \in SelectedMemories(r) /\ Exempt(r, KeyOf(x))
  BY <1>4, <1>7 DEF Removes, Recomputes
<1>9. Removes(r)'
  <2>1. w'[r].del \cap MemoryRow \subseteq SelectedMemories(r)
    BY <1>3, <1>4, <1>8 DEF Removes
  <2>2. w'[r].del \cap TurnRow \subseteq SelectedTurns(r)
    <3>1. x \in TurnRow => x \in SelectedTurns(r)
      BY <1>4 DEF Removes, Deleting, SelectedMemories, Memories, TurnRow, EntityRow, MemoryRow
    <3> QED
      BY <1>3, <1>4, <3>1 DEF Removes
  <2>3. pc[r] \in BeforeMemories(r) => w'[r].del \cap MemoryRow = {}
    BY <1>3, <1>4, <1>8 DEF Removes, BeforeMemories
  <2>4. pc[r] = "memories" => /\ todo'[r] \subseteq SelectedMemories(r)
                              /\ SelectedMemories(r) \subseteq w'[r].del \cup todo'[r]
    BY <1>3, <1>4 DEF Removes, SelectedMemories, Memories
  <2> QED
    BY <1>1, <1>3, <1>4, <1>5, <2>1, <2>2, <2>3, <2>4 DEF Removes
<1>10. ASSUME NEW k \in SingleKeys PROVE Exempt(r, k)' \/ ShowsLatest(Visible(r), ActiveFor(r), k)'
  <2>1. Exempt(r, k) \/ ShowsLatest(Visible(r), ActiveFor(r), k)
    BY <1>4 DEF Recomputes, Deleting
  <2>2. CASE Exempt(r, k)
    BY <1>6, <2>2
  <2>3. CASE ShowsLatest(Visible(r), ActiveFor(r), k) /\ ~Exempt(r, k)
    <3>1. ~(x \in MemoryRow /\ KeyOf(x) = k)
      BY <1>8, <2>3
    <3>2. Visible(r) \ {x} \subseteq Visible(r)' /\ Visible(r)' \subseteq Visible(r)
      BY <1>3, <1>5 DEF Visible
    <3>3. OfKeyIn(Visible(r), k) = OfKeyIn(Visible(r)', k)
      BY <3>1, <3>2 DEF OfKeyIn
    <3>4. OfKeyIn(Visible(r), k) \cap ActiveFor(r) = OfKeyIn(Visible(r), k) \cap ActiveFor(r)'
      BY <1>1, <1>3, <3>2, <3>3 DEF OfKeyIn, ActiveFor, store
    <3>5. ShowsLatest(Visible(r)', ActiveFor(r)', k)
      BY <2>3, <3>3, <3>4, SameView
    <3> QED
      BY <1>1, <3>5, ViewStable
  <2> QED
    BY <2>1, <2>2, <2>3
<1>11. pc[r] = "memories" => \A y \in SelectedMemories(r)' : Exempt(r, KeyOf(y))'
  BY <1>1, <1>4, <1>5, <1>6, KeyStable DEF Recomputes
<1>12. Recomputes(r)'
  BY <1>1, <1>10, <1>11 DEF Recomputes, SingleKeys, Deleting
<1> QED
  BY <1>9, <1>12

\* One row updated: of the memories, only a recompute switches any.
LEMMA VisitUpdating ==
  ASSUME TypeOK, SerialInv, NEW r \in Request, VisitRow(r), InTransaction(r),
         job[r].op # "turn", pc[r] \in Updating
  PROVE  Removes(r)' /\ Recomputes(r)'
<1>1. UNCHANGED <<job, pc, keys, begun, clock, store>>
  BY DEF VisitRow
<1>2. PICK x \in todo[r] :
         /\ todo' = [todo EXCEPT ![r] = @ \ {x}]
         /\ w' = IF x \notin Visible(r) THEN w
                 ELSE IF pc[r] = "reset"
                      THEN [w EXCEPT ![r].off = @ \cup {x}, ![r].on = @ \ {x}]
                 ELSE IF pc[r] = "activate"
                      THEN [w EXCEPT ![r].on = @ \cup {x}, ![r].off = @ \ {x}]
                 ELSE [w EXCEPT ![r].touch = @ \cup {x}]
  BY DEF VisitRow, Deleting, Updating
<1>3. w \in [Request -> Writes] /\ todo'[r] = todo[r] \ {x}
  BY <1>2 DEF TypeOK, HandlersOK
<1>4. /\ w'[r].ins = w[r].ins /\ w'[r].del = w[r].del
      /\ x \notin Visible(r) \/ pc[r] \notin {"reset", "activate"} =>
            w'[r].on = w[r].on /\ w'[r].off = w[r].off
      /\ x \in Visible(r) /\ pc[r] = "reset" =>
            w'[r].off = w[r].off \cup {x} /\ w'[r].on = w[r].on \ {x}
      /\ x \in Visible(r) /\ pc[r] = "activate" =>
            w'[r].on = w[r].on \cup {x} /\ w'[r].off = w[r].off \ {x}
  BY <1>2, <1>3 DEF Writes
<1>5. Removes(r) /\ Recomputes(r)
  BY DeleteRuns
<1>6. rows' = rows /\ UNCHANGED <<SelectedMemories(r), SelectedTurns(r), Plan(r), BeforeMemories(r)>>
  BY <1>1, SelectionStable DEF store
<1>7. \A k : Exempt(r, k)' <=> Exempt(r, k)
  BY <1>1 DEF Exempt, OwnScope
<1>8. Visible(r)' = Visible(r)
  BY <1>4, <1>6 DEF Visible
<1>9. ActiveFor(r)' = CASE pc[r] = "reset" -> ActiveFor(r) \ {x}
                        [] pc[r] = "activate" -> ActiveFor(r) \cup ({x} \cap Visible(r))
                        [] OTHER -> ActiveFor(r)
  <2>1. active' = active
    BY <1>1 DEF store
  <2> QED
    BY <1>4, <1>8, <2>1 DEF ActiveFor
<1>10. Removes(r)'
  BY <1>1, <1>3, <1>4, <1>5, <1>6 DEF Removes, Updating
<1>11. ASSUME NEW k \in SingleKeys,
              OfKeyIn(Visible(r), k) \cap ActiveFor(r) = OfKeyIn(Visible(r), k) \cap ActiveFor(r)',
              ShowsLatest(Visible(r), ActiveFor(r), k)
       PROVE  ShowsLatest(Visible(r), ActiveFor(r), k)'
  <2>1. ShowsLatest(Visible(r)', ActiveFor(r)', k)
    BY <1>8, <1>11, SameView
  <2> QED
    BY <1>1, <2>1, ViewStable
<1>12. CASE pc[r] \in {"successors", "sources"}
  BY <1>1, <1>5, <1>7, <1>9, <1>10, <1>11, <1>12 DEF Recomputes, SingleKeys
<1>13. CASE pc[r] = "reset"
  <2> DEFINE h == Head(keys[r])
  <2>1. KeyOf(x) = h /\ OfKeyIn(Visible(r), h) \cap ActiveFor(r) \subseteq todo[r]
    BY <1>5, <1>13 DEF Recomputes
  <2>2. Exempt(r, h)
    <3>1. job[r].op # "delete_user"
      BY <1>5, <1>13 DEF Removes, Plan, UserPlan
    <3>2. keys[r] \in Seq(ScopeKey) /\ keys[r] # <<>>
      BY <1>13 DEF TypeOK, HandlersOK, Placed
    <3>3. 1 \in DOMAIN keys[r] /\ keys[r][1] = h
      BY <3>2
    <3> QED
      BY <3>1, <3>3 DEF Exempt
  <2>3. ASSUME NEW k \in SingleKeys PROVE Exempt(r, k)' \/ ShowsLatest(Visible(r), ActiveFor(r), k)'
    <3>1. Exempt(r, k) \/ ShowsLatest(Visible(r), ActiveFor(r), k)
      BY <1>5, <1>13 DEF Recomputes
    <3>2. CASE Exempt(r, k)
      BY <1>7, <3>2
    <3>3. CASE ShowsLatest(Visible(r), ActiveFor(r), k) /\ ~Exempt(r, k)
      <4>1. x \notin OfKeyIn(Visible(r), k)
        BY <2>1, <2>2, <3>3 DEF OfKeyIn
      <4>2. OfKeyIn(Visible(r), k) \cap ActiveFor(r) = OfKeyIn(Visible(r), k) \cap ActiveFor(r)'
        BY <1>9, <1>13, <4>1
      <4> QED
        BY <1>11, <3>3, <4>2
    <3> QED
      BY <3>1, <3>2, <3>3
  <2>4. OfKeyIn(Visible(r), Head(keys[r]))' \cap ActiveFor(r)' \subseteq todo'[r]
    <3>1. OfKeyIn(Visible(r), Head(keys[r]))' = OfKeyIn(Visible(r), h)
      BY <1>1, <1>8, KeyStable
    <3> QED
      BY <1>3, <1>9, <1>13, <2>1, <3>1
  <2>5. \A y \in todo'[r] : KeyOf(y)' = Head(keys'[r])
    BY <1>1, <1>3, <1>5, <1>13, KeyStable DEF Recomputes
  <2>6. Recomputes(r)'
    BY <1>1, <1>13, <2>3, <2>4, <2>5 DEF Recomputes, SingleKeys
  <2> QED
    BY <1>10, <2>6
<1>14. CASE pc[r] = "activate"
  <2>1. /\ todo[r] = {x} /\ todo'[r] = {}
        /\ \/ Exempt(r, KeyOf(x))
           \/ /\ x \in Latest(OfKeyIn(Visible(r), KeyOf(x)))
              /\ OfKeyIn(Visible(r), KeyOf(x)) \cap ActiveFor(r) = {}
    BY <1>3, <1>5, <1>14 DEF Recomputes
  <2>2. ASSUME NEW k \in SingleKeys PROVE Exempt(r, k)' \/ ShowsLatest(Visible(r), ActiveFor(r), k)'
    <3>1. CASE Exempt(r, k)
      BY <1>7, <3>1
    <3>2. CASE KeyOf(x) = k /\ ~Exempt(r, k)
      <4> DEFINE S == OfKeyIn(Visible(r), k)
      <4>1. x \in Latest(S) /\ S \cap ActiveFor(r) = {} /\ x \in S /\ x \in Visible(r)
        BY <2>1, <3>2 DEF Latest, OfKeyIn
      <4>2. S \cap ActiveFor(r)' = {x}
        BY <1>9, <1>14, <4>1
      <4>3. ShowsLatest(Visible(r)', ActiveFor(r)', k)
        BY <1>8, <4>1, <4>2 DEF ShowsLatest
      <4> QED
        BY <1>1, <4>3, ViewStable
    <3>3. CASE KeyOf(x) # k /\ ~Exempt(r, k)
      <4>1. ShowsLatest(Visible(r), ActiveFor(r), k)
        BY <1>5, <2>1, <3>3 DEF Recomputes
      <4>2. x \notin OfKeyIn(Visible(r), k)
        BY <3>3 DEF OfKeyIn
      <4>3. OfKeyIn(Visible(r), k) \cap ActiveFor(r) = OfKeyIn(Visible(r), k) \cap ActiveFor(r)'
        BY <1>9, <1>14, <4>2
      <4> QED
        BY <1>11, <4>1, <4>3
    <3> QED
      BY <3>1, <3>2, <3>3
  <2>3. Recomputes(r)'
    BY <1>1, <1>14, <2>1, <2>2 DEF Recomputes, SingleKeys
  <2> QED
    BY <1>10, <2>3
<1> QED
  BY <1>10, <1>12, <1>13, <1>14 DEF Updating

LEMMA VisitRowSerial ==
  ASSUME TypeOK, SerialInv, NEW r \in Request, VisitRow(r)
  PROVE  SerialInv'
<1>1. pc[r] \in Deleting \cup Updating /\ UNCHANGED <<job, pc, begun, clock, store>>
  BY DEF VisitRow
<1>2. InTransaction(r)
  BY <1>1 DEF InTransaction, Over, Deleting, Updating
<1>3. job[r].op # "turn"
  BY <1>1, <1>2 DEF SerialInv, Serial, AtWork, TurnView, Deleting, Updating
<1>4. \A q \in Request \ {r} : w'[q] = w[q]
  BY VisitRowWrites
<1>5. Removes(r)' /\ Recomputes(r)'
  BY <1>1, <1>2, <1>3, VisitDeleting, VisitUpdating
<1> QED
  BY <1>1, <1>2, <1>3, <1>4, <1>5, DeleteBody

LEMMA CommitDeleteSerial ==
  ASSUME TypeOK, SerialInv, NEW r \in Request, CommitDelete(r)
  PROVE  SerialInv'
<1>1. pc[r] = "commit" /\ Commit(r) /\ InTransaction(r)
  BY DEF CommitDelete, InTransaction, Over
<1>2. job[r].op # "turn"
  BY <1>1 DEF SerialInv, Serial, AtWork, TurnView
<1>3. Removes(r) /\ Recomputes(r) /\ Visible(r) = rows \ w[r].del
  BY <1>1, <1>2, DeleteRuns
<1>4. SelectedMemories(r) \subseteq w[r].del /\ w[r].del \cap TurnRow \subseteq SelectedTurns(r)
  BY <1>1, <1>3 DEF Removes, BeforeMemories
<1>5. job[r].op = "delete_user" => job[r].user # NoUser
  BY StoreAssumption DEF TypeOK, HandlersOK
<1>6. ASSUME NEW x \in VisibleMemories(r)
      PROVE  Turn(x[2]) \in Visible(r) /\ x \in rows
  <2>1. x \in Memories /\ x \notin SelectedMemories(r) /\ x \in rows
    BY <1>3, <1>4 DEF VisibleMemories, Memories
  <2>2. Turn(x[2]) \in rows
    BY <2>1 DEF SerialInv, Committed, EveryMemoryHasItsTurn
  <2>3. Turn(x[2])[2] = x[2] /\ Turn(x[2]) \in TurnRow
    BY <2>1 DEF Turn, TurnRow, Memories, MemoryRow
  <2>4. Turn(x[2]) \notin SelectedTurns(r)
    BY <1>5, <2>1, <2>3 DEF SelectedTurns, SelectedMemories, KeyOf, ScopeOf, OwnScope
  <2> QED
    BY <1>3, <1>4, <2>1, <2>2, <2>3, <2>4
<1>7. ASSUME NEW k \in SingleKeys PROVE ShowsLatest(Visible(r), ActiveFor(r), k)
  <2>1. CASE Exempt(r, k)
    <3>1. job[r].op = "delete_user" /\ k[1] = OwnScope(r)
      BY <1>1, <1>3, <2>1 DEF Exempt, Recomputes
    <3>2. OfKeyIn(Visible(r), k) \subseteq SelectedMemories(r)
      BY <1>3, <3>1 DEF OfKeyIn, SelectedMemories, Memories
    <3>3. OfKeyIn(Visible(r), k) = {}
      BY <1>3, <1>4, <3>2 DEF OfKeyIn
    <3> QED
      BY <3>3 DEF ShowsLatest
  <2>2. CASE ~Exempt(r, k)
    BY <1>1, <1>3, <2>2 DEF Recomputes
  <2> QED
    BY <2>1, <2>2
<1> QED
  BY <1>1, <1>6, <1>7, CommitSerial

----------------------------------------------------------------------------
LEMMA InitSerial == ASSUME StoreInit PROVE SerialInv
<1>1. \A r \in Request : ~InTransaction(r) /\ w[r] = NoWrites
  BY DEF StoreInit, InTransaction
<1>2. Memories = {} /\ \A k : OfKeyIn(rows, k) = {}
  BY DEF StoreInit, Memories, OfKeyIn
<1>3. Committed
  BY <1>2 DEF Committed, EveryMemoryHasItsTurn, ShowsLatest
<1> QED
  BY <1>1, <1>3 DEF SerialInv, OneAtATime, Serial

LEMMA NextSerial ==
  ASSUME PoolSize = 1, TypeOK, SerialInv, [Next]_vars
  PROVE  SerialInv'
<1>1. CASE UNCHANGED vars
  BY <1>1, StutterSerial
<1>2. ASSUME NEW r \in Request, TurnStep(r) PROVE SerialInv'
  <2>1. ForeignKeyError(r) => Rollback(r) /\ ~Over(r)
    BY DEF ForeignKeyError, Over
  <2> QED
    BY <1>2, <2>1, RollbackSerial, BeginTurnSerial, ReconcileSerial, DeactivateSerial,
       InsertMemorySerial, MentionEntitySerial, LinkSerial, CommitTurnSerial DEF TurnStep
<1>3. ASSUME NEW r \in Request, DeleteStep(r) PROVE SerialInv'
  BY <1>3, BeginDeleteSerial, NextStatementSerial, VisitRowSerial, CommitDeleteSerial DEF DeleteStep
<1>4. ASSUME NEW r \in Request, DeadlockVictim(r) \/ Fail(r) PROVE SerialInv'
  BY <1>4, RollbackSerial DEF DeadlockVictim, Fail, InTransaction
<1> QED
  BY <1>1, <1>2, <1>3, <1>4 DEF Next

LEMMA SerialHolds == ASSUME PoolSize = 1 PROVE Spec => []SerialInv
<1>1. Init => SerialInv
  BY InitSerial DEF Init
<1>2. TypeOK /\ SerialInv /\ [Next]_vars => SerialInv'
  BY NextSerial
<1> QED
  BY <1>1, <1>2, TypeCorrect, PTL DEF Spec

\* Requests answered one at a time leave a single-valued key that has memories with
\* exactly one active, and that one is the latest: a supersession replaces it, and the
\* recompute of a session delete brings back the one before it, whatever was
\* deleted, failed or repeated in between.  Two at a time need not (lost_hobby,
\* split_brain).
THEOREM EveryKeyShowsItsLatest ==
  ASSUME PoolSize = 1
  PROVE  Spec => [](EveryKeyHasOneValue /\ CurrentValueIsLatest)
<1>1. ASSUME TypeOK, SerialInv PROVE EveryKeyHasOneValue /\ CurrentValueIsLatest
  <2>1. ASSUME NEW x \in SingleMemories
        PROVE  \E y \in Latest(Values(x)) : Values(x) \cap active = {y}
    <3>1. x \in rows \cap MemoryRow /\ Cand(x).predicate \in Single
      BY DEF SingleMemories, Memories
    <3>2. KeyOf(x) \in ScopeKey /\ KeyOf(x)[3] \in Single
      <4>1. x[2] \in Request
        BY <3>1 DEF MemoryRow
      <4>2. HandlersOK /\ Stated(x)
        BY <1>1, <3>1, <4>1 DEF TypeOK
      <4>3. KeyOf(x) \in ScopeKey
        BY <3>1, <4>2, Attributes
      <4> QED
        BY <3>1, <4>3 DEF KeyOf
    <3>3. Values(x) = OfKeyIn(rows, KeyOf(x))
      BY <3>1 DEF Values, SingleMemories, Memories, OfKeyIn, KeyOf
    <3>4. x \in Values(x)
      BY <3>1 DEF Values, SingleMemories, Memories
    <3> QED
      BY <1>1, <3>2, <3>3, <3>4 DEF SerialInv, Committed, SingleKeys, ShowsLatest
  <2>2. ASSUME NEW x \in SingleMemories PROVE Cardinality(Values(x) \cap active) = 1
    <3>1. PICK y : Values(x) \cap active = {y}
      BY <2>1
    <3> QED
      BY <3>1, FS_Singleton
  <2>3. ASSUME NEW x \in SingleMemories \cap active PROVE x \in Latest(Values(x))
    <3>1. x \in Values(x) \cap active
      BY DEF Values
    <3> QED
      BY <2>1, <3>1
  <2> QED
    BY <2>2, <2>3 DEF EveryKeyHasOneValue, CurrentValueIsLatest
<1> QED
  BY <1>1, TypeCorrect, SerialHolds, PTL

\* No memory outlives the turn it cites: both deletes remove the two together, a
\* session delete by the session of the request, a user delete by scope on one side
\* and by user on the other.
THEOREM NoMemoryOutlivesItsTurn ==
  ASSUME PoolSize = 1
  PROVE  Spec => []EveryMemoryHasItsTurn
<1>1. SerialInv => EveryMemoryHasItsTurn
  BY DEF SerialInv, Committed
<1> QED
  BY <1>1, SerialHolds, PTL
=============================================================================
