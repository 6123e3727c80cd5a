--------------------------- MODULE Clients_proofs ---------------------------
(***************************************************************************)
(* Clients that send their last message again until they have an answer,   *)
(* any number of them: a retry leaves no second memory, and what a client  *)
(* deleted is gone.  What the scripts must keep to (StatesOnce,            *)
(* NoSharedKeys, AnonymousSessions) is a hypothesis of the theorems that   *)
(* need it; what the clients must (MaySend) is part of ClientsSpec.        *)
(***************************************************************************)
EXTENDS Clients, Turns_proofs

----------------------------------------------------------------------------
\* What a request writes, whatever runs beside it.

\* The memories a turn has decided to insert.
Chosen(r) == Inserted(r) \cup (IF pc[r] = "apply" THEN {ThisMemory(r)} ELSE {})

\* A turn deletes nothing.  What it inserts is its own, under locks it holds and, if
\* it states a key once, active; what it deactivates is under a key of which it inserts a memory.
TurnWrites(r) ==
    /\ pc[r] \notin Deleting \cup Updating \cup {"affected", "begin", "commit"}
    /\ w[r].del = {}
    /\ InOrder(r)
    /\ StatesOnce => Inserted(r) \subseteq w[r].on
    /\ \A x \in Chosen(r) : Hash(KeyOf(x)) \in locks[r]
    /\ \A x \in w[r].off : \E y \in Chosen(r) : KeyOf(y) = KeyOf(x)
    /\ pc[r] = "apply" => \A x \in todo[r] : KeyOf(x) = KeyOf(ThisMemory(r))
    /\ \A x \in w[r].ins \cap EntityRow : x[2] = ScopeOf(job[r]) /\ cands(r) # <<>>
    /\ \A x \in w[r].ins \cap TurnRow : x = Turn(r)

Sound(r) ==
    /\ ~InTransaction(r) => w[r] = NoWrites
    /\ IF job[r].op = "turn" THEN TurnWrites(r) ELSE w[r].ins = {} /\ ~Working(r)

WriteInv == Exclusive /\ \A r \in Request : Sound(r)

LEMMA LocalWrites ==
  ASSUME WriteInv, NEW r \in Request, job' = job, OthersKept(r), Exclusive', Sound(r)'
  PROVE  WriteInv'
<1> SUFFICES ASSUME NEW q \in Request \ {r} PROVE Sound(q)'
  BY DEF WriteInv
<1>1. /\ pc'[q] = pc[q] /\ at'[q] = at[q] /\ todo'[q] = todo[q] /\ w'[q] = w[q]
      /\ locks'[q] = locks[q] /\ Sound(q)
  BY DEF OthersKept, WriteInv
<1>2. /\ Inserted(q)' = Inserted(q) /\ ThisMemory(q)' = ThisMemory(q)
      /\ InTransaction(q)' <=> InTransaction(q)
  BY <1>1 DEF Inserted, ThisMemory, InTransaction, Over
<1>3. Chosen(q)' = Chosen(q) /\ (InOrder(q) => InOrder(q)')
  BY <1>1, <1>2 DEF Chosen, InOrder
<1>4. TurnWrites(q) => TurnWrites(q)'
  BY <1>1, <1>2, <1>3, RowStable DEF TurnWrites, ScopeOf, cands, Turn
<1> QED
  BY <1>1, <1>2, <1>4 DEF Sound, Working

\* Locks are taken one by one, by whoever finds them free.
LEMMA OneMoreLock ==
  ASSUME TypeOK, Exclusive, NEW r \in Request, NEW k, LockFree(r, k),
         locks' = [locks EXCEPT ![r] = @ \cup {Hash(k)}]
  PROVE  Exclusive'
<1>1. \A q \in Request : locks'[q] = IF q = r THEN locks[r] \cup {Hash(k)} ELSE locks[q]
  BY DEF TypeOK, HandlersOK
<1>2. \A q \in Request \ {r} : Hash(k) \notin locks[q]
  BY DEF LockFree
<1> QED
  BY <1>1, <1>2 DEF Exclusive

LEMMA BeginTurnWrites ==
  ASSUME TypeOK, WriteInv, NEW r \in Request, BeginTurn(r)
  PROVE  WriteInv'
<1>1. /\ UNCHANGED <<job, todo, sup, locks, store>> /\ job[r].op = "turn"
      /\ pc[r] = "waiting" /\ pc'[r] \in {"edges", "reconcile"}
      /\ w'[r] = [w[r] EXCEPT !.ins = {Turn(r)}]
  BY DEF BeginTurn, Open, TypeOK, HandlersOK
<1>2. OthersKept(r)
  BY DEF BeginTurn, OthersKept, TypeOK, HandlersOK
<1>3. w'[r] = [NoWrites EXCEPT !.ins = {Turn(r)}]
  BY <1>1 DEF WriteInv, Sound, InTransaction
<1>4. Inserted(r)' = {} /\ Chosen(r)' = {} /\ w'[r].ins \cap EntityRow = {}
  BY <1>1, <1>3 DEF Inserted, Chosen, Turn, MemoryRow, EntityRow, NoWrites
<1>5. Sound(r)'
  BY <1>1, <1>3, <1>4 DEF Sound, TurnWrites, InOrder, NoWrites, InTransaction, Over,
     Deleting, Updating, Turn
<1> QED
  BY <1>1, <1>2, <1>5, LocalWrites DEF WriteInv, Exclusive

LEMMA ReconcileWrites ==
  ASSUME TypeOK, WriteInv, NEW r \in Request, Reconcile(r)
  PROVE  WriteInv'
<1> DEFINE m == ThisMemory(r)
           k == KeyOf(m)
<1>1. /\ UNCHANGED <<job, w, store>> /\ pc[r] = "reconcile" /\ LockFree(r, k)
      /\ locks' = [locks EXCEPT ![r] = @ \cup {Hash(k)}]
  BY DEF Reconcile
<1>2. PICK d \in Decisions(Cand(m), Rivals(r, k)) :
         /\ todo' = [todo EXCEPT ![r] = d.deactivate]
         /\ sup' = [sup EXCEPT ![r] = d.supersedes]
         /\ IF d.insert
            THEN pc' = [pc EXCEPT ![r] = "apply"] /\ UNCHANGED at
            ELSE NextCandidate(r)
  BY DEF Reconcile
<1>3. /\ locks'[r] = locks[r] \cup {Hash(k)} /\ todo'[r] = d.deactivate
      /\ \A q \in Request \ {r} : locks'[q] = locks[q] /\ todo'[q] = todo[q] /\ sup'[q] = sup[q]
  BY <1>1, <1>2 DEF TypeOK, HandlersOK
<1>4. pc'[r] \in {"apply", "reconcile", "edges"} /\ \A q \in Request \ {r} : pc'[q] = pc[q] /\ at'[q] = at[q]
  BY <1>2, NextCandidateGoes DEF TypeOK, HandlersOK
<1>5. OthersKept(r)
  BY <1>1, <1>3, <1>4 DEF OthersKept
<1>6. Exclusive'
  BY <1>1, OneMoreLock DEF WriteInv
<1>7. Sound(r) /\ job[r].op = "turn" /\ TurnWrites(r)
  BY <1>1 DEF WriteInv, Sound, Working
<1>8. Inserted(r)' = Inserted(r) /\ Chosen(r) = Inserted(r)
  BY <1>1 DEF Inserted, Chosen
<1>9. /\ Chosen(r)' = Chosen(r) \cup (IF pc'[r] = "apply" THEN {m} ELSE {})
      /\ pc'[r] = "apply" => ThisMemory(r)' = m /\ at'[r] = at[r]
  <2>1. pc'[r] = "apply" => at' = at
    BY <1>2, NextCandidateGoes DEF TypeOK, HandlersOK
  <2> QED
    BY <1>1, <1>8, <2>1 DEF Chosen, ThisMemory, Memory
<1>10. InOrder(r)'
  <2>1. pc'[r] = "reconcile" => at'[r] = at[r] + 1
    BY <1>2 DEF NextCandidate, TypeOK, HandlersOK
  <2>2. \A x \in Inserted(r) : x[3] \in Nat /\ at[r] \in Nat
    BY DEF Inserted, MemoryRow, TypeOK, HandlersOK
  <2> QED
    BY <1>1, <1>4, <1>7, <1>8, <1>9, <2>1, <2>2 DEF InOrder, TurnWrites
<1>11. \A x \in Chosen(r)' : Hash(KeyOf(x)) \in locks'[r]
  BY <1>3, <1>7, <1>9 DEF TurnWrites
<1>12. pc'[r] = "apply" => \A x \in todo'[r] : KeyOf(x) = k
  <2>1. d.deactivate \subseteq Rivals(r, k)
    BY DecisionRows
  <2> QED
    BY <1>3, <2>1 DEF Rivals
<1>13. \A x \in w'[r].off : \E y \in Chosen(r)' : KeyOf(y) = KeyOf(x)
  BY <1>1, <1>7, <1>9 DEF TurnWrites
<1> HIDE DEF m, k
<1>14. TurnWrites(r)'
  BY <1>1, <1>4, <1>7, <1>8, <1>9, <1>10, <1>11, <1>12, <1>13, RowStable
  DEF TurnWrites, Deleting, Updating, cands, ScopeOf, Turn, k
<1>15. Sound(r)'
  BY <1>1, <1>4, <1>7, <1>14 DEF Sound, InTransaction, Over
<1> QED
  BY <1>1, <1>5, <1>6, <1>15, LocalWrites

\* No two candidates of a message state one key.
LEMMA KeysApart ==
  ASSUME StatesOnce, TypeOK, NEW r \in Request, NEW i \in DOMAIN cands(r), NEW k \in DOMAIN cands(r),
         KeyOf(Memory(r, i)) = KeyOf(Memory(r, k))
  PROVE  i = k
<1>1. job[r] \in Jobs
  BY DEF TypeOK, HandlersOK
<1>2. \A n : KeyOf(Memory(r, n)) = CandidateKey(job[r], job[r].cands[n])
  BY DEF KeyOf, Memory, Cand, CandidateKey
<1> QED
  BY <1>1, <1>2 DEF StatesOnce, cands

\* What is inserted already is under other keys than the memory at hand.
LEMMA ThisKeyIsNew ==
  ASSUME StatesOnce, TypeOK, WriteInv, NEW r \in Request, pc[r] \in {"reconcile", "apply"},
         NEW x \in Inserted(r), KeyOf(x) = KeyOf(ThisMemory(r))
  PROVE  FALSE
<1>1. job[r].op = "turn" /\ InOrder(r)
  BY DEF WriteInv, Sound, Working, TurnWrites
<1>2. /\ x \in MemoryRow /\ x[2] = r /\ x[3] < at[r] /\ Stated(x)
      /\ at[r] \in 1..Len(cands(r))
  BY <1>1 DEF InOrder, Inserted, TypeOK, Placed
<1>3. x = Memory(r, x[3]) /\ x[3] \in DOMAIN cands(r) /\ at[r] \in DOMAIN cands(r)
  BY <1>2, CandidateNumbers DEF MemoryRow, Memory, Stated
<1>4. x[3] = at[r]
  BY <1>3, KeysApart DEF ThisMemory
<1> QED
  BY <1>2, <1>4

LEMMA DeactivateWrites ==
  ASSUME TypeOK, WriteInv, NEW r \in Request, Deactivate(r)
  PROVE  WriteInv'
<1>1. UNCHANGED <<job, pc, at, sup, locks, store>> /\ pc[r] = "apply"
  BY DEF Deactivate
<1>2. PICK x \in todo[r] :
         /\ todo' = [todo EXCEPT ![r] = @ \ {x}]
         /\ w' = IF x \in Visible(r)
                 THEN [w EXCEPT ![r].off = @ \cup {x}, ![r].on = @ \ {x}]
                 ELSE w
  BY DEF Deactivate
<1>3. /\ todo'[r] = todo[r] \ {x}
      /\ w'[r].ins = w[r].ins /\ w'[r].del = w[r].del
      /\ w'[r].off \subseteq w[r].off \cup {x} /\ w[r].on \ {x} \subseteq w'[r].on
  BY <1>2 DEF TypeOK, HandlersOK, Writes
<1>4. OthersKept(r)
  BY <1>1, <1>2 DEF OthersKept, TypeOK, HandlersOK
<1>5. Sound(r) /\ job[r].op = "turn" /\ TurnWrites(r)
  BY <1>1 DEF WriteInv, Sound, Working
<1>6. Inserted(r)' = Inserted(r) /\ ThisMemory(r)' = ThisMemory(r) /\ Chosen(r)' = Chosen(r)
  BY <1>1, <1>3 DEF Inserted, ThisMemory, Chosen
<1>7. KeyOf(x) = KeyOf(ThisMemory(r)) /\ ThisMemory(r) \in Chosen(r)
  BY <1>1, <1>5 DEF TurnWrites, Chosen
<1>8. StatesOnce => x \notin Inserted(r)
  BY <1>1, <1>7, ThisKeyIsNew
<1>9. TurnWrites(r)'
  <2>1. \A y \in w'[r].off : \E z \in Chosen(r) : KeyOf(z) = KeyOf(y)
    BY <1>3, <1>5, <1>7 DEF TurnWrites
  <2>2. StatesOnce => Inserted(r) \subseteq w'[r].on
    BY <1>3, <1>5, <1>8 DEF TurnWrites
  <2> QED
    BY <1>1, <1>3, <1>5, <1>6, <2>1, <2>2, RowStable DEF TurnWrites, InOrder, cands, ScopeOf, Turn
<1>10. Sound(r)'
  BY <1>1, <1>5, <1>9 DEF Sound, InTransaction, Over
<1> QED
  BY <1>1, <1>4, <1>10, LocalWrites DEF WriteInv, Exclusive

LEMMA InsertMemoryWrites ==
  ASSUME TypeOK, WriteInv, NEW r \in Request, InsertMemory(r)
  PROVE  WriteInv'
<1> DEFINE m == ThisMemory(r)
<1>1. /\ UNCHANGED <<job, todo, locks, store>> /\ pc[r] = "apply"
      /\ sup' = [sup EXCEPT ![r] = {}]
  BY DEF InsertMemory
<1>2. /\ w'[r].ins = w[r].ins \cup {m} /\ w'[r].on = w[r].on \cup {m}
      /\ w'[r].off = w[r].off /\ w'[r].del = w[r].del
      /\ \A q \in Request \ {r} : w'[q] = w[q]
  BY DEF InsertMemory, TypeOK, HandlersOK, Writes
<1>3. /\ pc'[r] \in {"reconcile", "edges", "mentions"}
      /\ \A q \in Request \ {r} : pc'[q] = pc[q] /\ at'[q] = at[q]
  BY NextEntityGoes DEF InsertMemory
<1>4. OthersKept(r)
  BY <1>1, <1>2, <1>3 DEF OthersKept, TypeOK, HandlersOK
<1>5. Sound(r) /\ job[r].op = "turn" /\ TurnWrites(r)
  BY <1>1 DEF WriteInv, Sound, Working
<1>6. m \in MemoryRow /\ m[2] = r /\ m[3] = at[r] /\ at[r] \in Nat
  BY <1>1, ThisMemoryStated DEF TypeOK, HandlersOK, Placed
<1>7. Inserted(r)' = Inserted(r) \cup {m} /\ Chosen(r)' = Chosen(r)
  BY <1>1, <1>2, <1>3, <1>6 DEF Inserted, Chosen
<1>8. InOrder(r)'
  <2>1. \A x \in Inserted(r)' : x[2] = r /\ x[3] \in Nat /\ x[3] <= at[r]
    BY <1>1, <1>5, <1>6, <1>7 DEF InOrder, Inserted, MemoryRow, TurnWrites
  <2>2. /\ pc'[r] = "mentions" => at'[r] = at[r]
        /\ pc'[r] = "reconcile" => at'[r] = at[r] + 1
    BY DEF InsertMemory, NextEntity, NextCandidate, TypeOK, HandlersOK
  <2> QED
    BY <1>3, <1>6, <2>1, <2>2 DEF InOrder
<1>9. w'[r].ins \cap EntityRow = w[r].ins \cap EntityRow /\ w'[r].ins \cap TurnRow = w[r].ins \cap TurnRow
  BY <1>2, <1>6 DEF MemoryRow, EntityRow, TurnRow
<1> HIDE DEF m
<1>10. TurnWrites(r)'
  BY <1>1, <1>2, <1>3, <1>5, <1>7, <1>8, <1>9, RowStable
  DEF TurnWrites, Deleting, Updating, cands, ScopeOf, Turn
<1>11. Sound(r)'
  BY <1>1, <1>3, <1>5, <1>10 DEF Sound, InTransaction, Over
<1> QED
  BY <1>1, <1>4, <1>11, LocalWrites DEF WriteInv, Exclusive

\* A step of a turn after its INSERT that changes no memory.
LEMMA QuietWrites ==
  ASSUME TypeOK, WriteInv, NEW r \in Request, job' = job, UNCHANGED <<locks, store>>,
         pc[r] \in {"mentions", "edges"}, OthersKept(r),
         w'[r].ins \cap MemoryRow = Inserted(r), w'[r].del = w[r].del,
         w'[r].on = w[r].on, w'[r].off = w[r].off,
         w'[r].ins \cap TurnRow = w[r].ins \cap TurnRow,
         \A x \in w'[r].ins \cap EntityRow : x[2] = ScopeOf(job[r]) /\ cands(r) # <<>>,
         pc'[r] \in {"reconcile", "mentions", "edges"},
         pc'[r] # "edges" => /\ pc[r] = "mentions"
                             /\ at'[r] = IF pc'[r] = "mentions" THEN at[r] ELSE at[r] + 1
  PROVE  WriteInv'
<1>1. job[r].op = "turn" /\ TurnWrites(r)
  BY DEF WriteInv, Sound, Working
<1>2. Inserted(r)' = Inserted(r) /\ Chosen(r)' = Chosen(r)
  BY DEF Inserted, Chosen
<1>3. \A x \in Inserted(r) : x[3] \in Nat /\ at[r] \in Nat
  BY DEF Inserted, MemoryRow, TypeOK, HandlersOK
<1>4. InOrder(r)'
  BY <1>1, <1>2, <1>3 DEF InOrder, TurnWrites
<1>5. TurnWrites(r)'
  BY <1>1, <1>2, <1>4, RowStable DEF TurnWrites, Deleting, Updating, cands, ScopeOf, Turn
<1>6. Sound(r)'
  BY <1>1, <1>5 DEF Sound, InTransaction, Over
<1> QED
  BY <1>6, LocalWrites DEF WriteInv, Exclusive

LEMMA MentionEntityWrites ==
  ASSUME TypeOK, WriteInv, NEW r \in Request, MentionEntity(r)
  PROVE  WriteInv'
<1> DEFINE e == ThisEntity(r)
<1>1. UNCHANGED <<job, todo, sup, locks, store>> /\ pc[r] = "mentions"
  BY DEF MentionEntity
<1>2. /\ w[r].ins \subseteq w'[r].ins /\ w'[r].ins \subseteq w[r].ins \cup {e}
      /\ w'[r].on = w[r].on /\ w'[r].off = w[r].off /\ w'[r].del = w[r].del
      /\ \A q \in Request \ {r} : w'[q] = w[q]
  BY DEF MentionEntity, TypeOK, HandlersOK, Writes
<1>3. /\ pc'[r] \in {"reconcile", "edges", "mentions"}
      /\ \A q \in Request \ {r} : pc'[q] = pc[q] /\ at'[q] = at[q]
  BY NextEntityGoes DEF MentionEntity
<1>4. pc'[r] # "edges" => at'[r] = IF pc'[r] = "mentions" THEN at[r] ELSE at[r] + 1
  BY DEF MentionEntity, NextEntity, NextCandidate, TypeOK, HandlersOK
<1>5. e \notin MemoryRow /\ e \notin TurnRow /\ e[2] = ScopeOf(job[r])
  BY DEF ThisEntity, Entity, MemoryRow, TurnRow
<1>6. w'[r].ins \cap MemoryRow = Inserted(r) /\ w'[r].ins \cap TurnRow = w[r].ins \cap TurnRow
  BY <1>2, <1>5 DEF Inserted
<1>7. cands(r) # <<>>
  BY <1>1, CandidateNumbers DEF TypeOK, Placed
<1>8. \A x \in w'[r].ins \cap EntityRow : x[2] = ScopeOf(job[r])
  BY <1>1, <1>2, <1>5 DEF WriteInv, Sound, Working, TurnWrites
<1>9. OthersKept(r)
  BY <1>1, <1>2, <1>3 DEF OthersKept
<1> QED
  BY <1>1, <1>2, <1>3, <1>4, <1>6, <1>7, <1>8, <1>9, QuietWrites

LEMMA LinkWrites ==
  ASSUME TypeOK, WriteInv, NEW r \in Request, LinkSource(r) \/ LinkPeer(r)
  PROVE  WriteInv'
<1>1. UNCHANGED <<job, pc, sup, locks, store>> /\ pc[r] = "edges"
  BY DEF LinkSource, LinkPeer
<1>2. /\ w'[r].ins = w[r].ins /\ w'[r].del = w[r].del /\ w'[r].on = w[r].on
      /\ w'[r].off = w[r].off
      /\ \A q \in Request \ {r} : w'[q] = w[q] /\ at'[q] = at[q] /\ todo'[q] = todo[q]
  <2>1. CASE LinkSource(r)
    BY <2>1 DEF LinkSource, TypeOK, HandlersOK, Writes
  <2>2. CASE LinkPeer(r)
    <3> DEFINE m == Memory(r, at[r] - 1)
    <3>1. PICK x \in todo[r] :
             /\ todo' = [todo EXCEPT ![r] = @ \ {x}]
             /\ w' = [w EXCEPT ![r].share = @ \cup {x},
                               ![r].edges = @ \cup {<<m, x, "same_subject">>,
                                                    <<x, m, "same_subject">>}]
      BY <2>2 DEF LinkPeer
    <3>2. at' = at
      BY <2>2 DEF LinkPeer
    <3> QED
      BY <3>1, <3>2 DEF TypeOK, HandlersOK, Writes
  <2> QED
    BY <2>1, <2>2
<1>3. OthersKept(r) /\ w'[r].ins \cap MemoryRow = Inserted(r)
  BY <1>1, <1>2 DEF OthersKept, Inserted
<1>4. \A x \in w'[r].ins \cap EntityRow : x[2] = ScopeOf(job[r]) /\ cands(r) # <<>>
  BY <1>1, <1>2 DEF WriteInv, Sound, Working, TurnWrites
<1> QED
  BY <1>1, <1>2, <1>3, <1>4, QuietWrites

LEMMA CloseWrites ==
  ASSUME TypeOK, WriteInv, NEW r \in Request, NEW outcome \in {"done", "failed"},
         Close(r, outcome)
  PROVE  WriteInv'
<1>1. /\ job' = job /\ w'[r] = NoWrites /\ pc'[r] = outcome /\ locks'[r] = {}
      /\ OthersKept(r)
  BY DEF Close, OthersKept, TypeOK, HandlersOK
<1>2. Exclusive'
  BY <1>1 DEF WriteInv, Exclusive, OthersKept
<1>3. Inserted(r)' = {} /\ Chosen(r)' = {}
  BY <1>1 DEF Inserted, Chosen, NoWrites
<1>4. Sound(r)'
  BY <1>1, <1>3 DEF Sound, TurnWrites, InOrder, NoWrites, Deleting, Updating, Working
<1> QED
  BY <1>1, <1>2, <1>4, LocalWrites

LEMMA DeleteWrites ==
  ASSUME TypeOK, WriteInv, NEW r \in Request, DeleteStep(r), ~CommitDelete(r)
  PROVE  WriteInv'
<1>1. CASE BeginDeleteSession(r) \/ BeginDeleteUser(r)
  <2>1. /\ UNCHANGED <<job, w, locks>> /\ job[r].op # "turn" /\ pc'[r] \in {"affected", "begin"}
        /\ OthersKept(r)
    BY <1>1 DEF BeginDeleteSession, BeginDeleteUser, OthersKept, control, TypeOK, HandlersOK
  <2>2. Sound(r)'
    BY <2>1 DEF WriteInv, Sound, InTransaction, Over, Working
  <2> QED
    BY <2>1, <2>2, LocalWrites DEF WriteInv, Exclusive
<1>2. CASE NextStatement(r)
  <2>1. PICK next : Statement(r, next) /\ next \in Deleting \cup Updating \cup {"commit"}
    BY <1>2 DEF NextStatement, UserPlan, SessionPlan, Deleting, Updating
  <2>2. /\ UNCHANGED <<job, w, locks>> /\ job[r].op # "turn" /\ pc'[r] = next
        /\ OthersKept(r)
    BY <1>2, <2>1 DEF NextStatement, Statement, OthersKept, TypeOK, HandlersOK
  <2>3. Sound(r)'
    <3>1. pc[r] \notin {"waiting", "done", "failed"}
      BY <1>2 DEF NextStatement, UserPlan, SessionPlan
    <3> QED
      BY <2>1, <2>2, <3>1 DEF WriteInv, Sound, InTransaction, Over, Working, Deleting, Updating
  <2> QED
    BY <2>2, <2>3, LocalWrites DEF WriteInv, Exclusive
<1>3. CASE VisitRow(r)
  <2>1. /\ UNCHANGED <<job, pc, at, sup, locks>> /\ pc[r] \in Deleting \cup Updating
        /\ \A q \in Request \ {r} : todo'[q] = todo[q]
    BY <1>3 DEF VisitRow, TypeOK, HandlersOK
  <2>2. w'[r].ins = w[r].ins /\ \A q \in Request \ {r} : w'[q] = w[q]
    BY <1>3, VisitRowWrites
  <2>3. OthersKept(r)
    BY <2>1, <2>2 DEF OthersKept
  <2>4. Sound(r)'
    BY <2>1, <2>2 DEF WriteInv, Sound, TurnWrites, InTransaction, Over, Working, Deleting, Updating
  <2> QED
    BY <2>1, <2>3, <2>4, LocalWrites DEF WriteInv, Exclusive
<1> QED
  BY <1>1, <1>2, <1>3 DEF DeleteStep

LEMMA StutterWrites == ASSUME WriteInv, UNCHANGED vars PROVE WriteInv'
<1>1. UNCHANGED <<job, pc, at, todo, w, locks>>
  BY DEF vars, control
<1>2. \A r \in Request : Inserted(r)' = Inserted(r) /\ ThisMemory(r)' = ThisMemory(r)
  BY <1>1 DEF Inserted, ThisMemory
<1>3. \A r \in Request : Chosen(r)' = Chosen(r) /\ (InOrder(r) => InOrder(r)')
  BY <1>1, <1>2 DEF Chosen, InOrder
<1>4. ASSUME NEW r \in Request PROVE Sound(r)'
  <2>1. Sound(r)
    BY DEF WriteInv
  <2>2. TurnWrites(r) => TurnWrites(r)'
    BY <1>1, <1>2, <1>3, RowStable DEF TurnWrites, ScopeOf, cands, Turn
  <2> QED
    BY <1>1, <2>1, <2>2 DEF Sound, Working, InTransaction, Over
<1> QED
  BY <1>1, <1>4 DEF WriteInv, Exclusive

LEMMA NextWrites ==
  ASSUME TypeOK, WriteInv, [Next]_vars
  PROVE  WriteInv'
<1>1. CASE UNCHANGED vars
  BY <1>1, StutterWrites
<1>2. ASSUME NEW r \in Request, TurnStep(r) PROVE WriteInv'
  BY <1>2, BeginTurnWrites, ReconcileWrites, DeactivateWrites, InsertMemoryWrites,
     MentionEntityWrites, LinkWrites, CloseWrites
  DEF TurnStep, ForeignKeyError, CommitTurn, Commit, Rollback
<1>3. ASSUME NEW r \in Request, DeleteStep(r) PROVE WriteInv'
  BY <1>3, DeleteWrites, CloseWrites DEF CommitDelete, Commit
<1>4. ASSUME NEW r \in Request, DeadlockVictim(r) \/ Fail(r) PROVE WriteInv'
  BY <1>4, CloseWrites DEF DeadlockVictim, Fail, Rollback
<1> QED
  BY <1>1, <1>2, <1>3, <1>4 DEF Next

LEMMA InitWrites == ASSUME StoreInit PROVE WriteInv
<1> SUFFICES ASSUME NEW r \in Request PROVE Sound(r)
  BY DEF StoreInit, WriteInv, Exclusive
<1>1. pc[r] = "waiting" /\ w[r] = NoWrites /\ Inserted(r) = {}
  BY DEF StoreInit, Inserted, NoWrites
<1> QED
  BY <1>1 DEF Sound, TurnWrites, InOrder, Chosen, NoWrites, Deleting, Updating, Working


----------------------------------------------------------------------------
\* Clients and their attempts.

LEMMA RequestShape ==
  /\ \A r \in Request : /\ r = <<r[1], r[2], r[3]>>
                        /\ r[1] \in Client /\ r[2] \in 1..Messages /\ r[3] \in 1..Tries[r[1]]
  /\ \A c \in Client : \A i \in 1..Messages : \A n \in 1..Tries[c] : <<c, i, n>> \in Request
  /\ \A c \in Client : 1 \in 1..Tries[c]
<1>1. Request = Attempt
  BY ClientsAssumption
<1>2. ASSUME NEW c \in Client, NEW i \in 1..Messages, NEW n \in 1..Tries[c]
      PROVE  <<c, i, n>> \in Request
  <2>1. <<c, i>> \in Message
    BY DEF Message
  <2>2. PICK m \in Message : m = <<c, i>>
    BY <2>1
  <2>3. <<c, i, n>> \in {<<m[1], m[2], k>> : k \in 1..Tries[m[1]]}
    BY <2>2
  <2> QED
    BY <1>1, <2>3 DEF Attempt
<1>3. ASSUME NEW r \in Request
      PROVE  /\ r = <<r[1], r[2], r[3]>>
             /\ r[1] \in Client /\ r[2] \in 1..Messages /\ r[3] \in 1..Tries[r[1]]
  <2>1. PICK m \in Message : r \in {<<m[1], m[2], n>> : n \in 1..Tries[m[1]]}
    BY <1>1 DEF Attempt
  <2>2. PICK n \in 1..Tries[m[1]] : r = <<m[1], m[2], n>>
    BY <2>1
  <2>3. m[1] \in Client /\ m[2] \in 1..Messages
    BY DEF Message
  <2> QED
    BY <2>2, <2>3
<1>4. \A c \in Client : 1 \in 1..Tries[c]
  BY ClientsAssumption
<1> QED
  BY <1>2, <1>3, <1>4

\* A step of an attempt that was sent.
StepOf(r) == TurnStep(r) \/ DeleteStep(r) \/ DeadlockVictim(r) \/ Fail(r)
SentStep(r) == (pc[r] = "waiting" => MaySend(r[1], r[2], r[3])) /\ StepOf(r)

LEMMA AttemptsAreSteps ==
  ASSUME ClientsNext
  PROVE  Next /\ \E r \in Request : SentStep(r)
<1>1. PICK r \in Request : AttemptStep(r[1], r[2], r[3])
  BY DEF ClientsNext
<1>2. r = <<r[1], r[2], r[3]>>
  BY RequestShape
<1>3. SentStep(r)
  BY <1>1, <1>2 DEF AttemptStep, SentStep, StepOf, Unsent
<1> QED
  BY <1>3 DEF Next, SentStep, StepOf

LEMMA ClientsUseTheService == ClientsSpec => Spec
<1>1. ClientsInit => Init
  BY DEF ClientsInit
<1>2. [ClientsNext]_vars => [Next]_vars
  BY AttemptsAreSteps
<1> QED
  BY <1>1, <1>2, PTL DEF ClientsSpec, Spec

\* Who moves was not answered yet, is sent from now on, and is the only one to move.
LEMMA OneMoves ==
  ASSUME TypeOK, NEW r \in Request, StepOf(r)
  PROVE  /\ job' = job
         /\ ~Over(r) /\ pc'[r] # "waiting"
         /\ \A q \in Request \ {r} : pc'[q] = pc[q]
<1>1. job' = job
  <2>1. Next
    BY DEF StepOf, Next
  <2> QED
    BY <2>1, JobsStay
<1>2. \A o : Close(r, o) => pc'[r] = o /\ \A q \in Request \ {r} : pc'[q] = pc[q]
  BY DEF Close, TypeOK, HandlersOK
<1>3. CASE BeginTurn(r) \/ BeginDeleteSession(r) \/ BeginDeleteUser(r)
  BY <1>1, <1>3 DEF BeginTurn, BeginDeleteSession, BeginDeleteUser, Open, Over, TypeOK, HandlersOK
<1>4. CASE Reconcile(r)
  <2>1. pc[r] = "reconcile"
    BY <1>4 DEF Reconcile
  <2>2. NextCandidate(r) \/ pc' = [pc EXCEPT ![r] = "apply"]
    BY <1>4 DEF Reconcile
  <2> QED
    BY <1>1, <2>1, <2>2, NextCandidateGoes DEF Over, TypeOK, HandlersOK
<1>5. CASE InsertMemory(r) \/ MentionEntity(r)
  <2>1. pc[r] \in {"apply", "mentions"} /\ \E rest : NextEntity(r, rest)
    BY <1>5 DEF InsertMemory, MentionEntity
  <2> QED
    BY <1>1, <2>1, NextEntityGoes DEF Over
<1>6. CASE Deactivate(r) \/ LinkSource(r) \/ LinkPeer(r)
  BY <1>1, <1>6 DEF Deactivate, LinkSource, LinkPeer, Over
<1>7. CASE ForeignKeyError(r) \/ CommitTurn(r) \/ CommitDelete(r)
  BY <1>1, <1>2, <1>7 DEF ForeignKeyError, CommitTurn, CommitDelete, Commit, Rollback, Over
<1>8. CASE NextStatement(r)
  <2>1. PICK next : Statement(r, next) /\ next \in Deleting \cup Updating \cup {"commit"}
    BY <1>8 DEF NextStatement, UserPlan, SessionPlan, Deleting, Updating
  <2>2. pc[r] \notin {"done", "failed"}
    BY <1>8 DEF NextStatement, UserPlan, SessionPlan
  <2> QED
    BY <1>1, <2>1, <2>2 DEF Statement, Over, Deleting, Updating, TypeOK, HandlersOK
<1>9. CASE VisitRow(r)
  BY <1>1, <1>9 DEF VisitRow, Over, Deleting, Updating
<1>10. CASE DeadlockVictim(r) \/ Fail(r)
  BY <1>1, <1>2, <1>10 DEF DeadlockVictim, Fail, Rollback, InTransaction
<1> QED
  BY <1>3, <1>4, <1>5, <1>6, <1>7, <1>8, <1>9, <1>10 DEF StepOf, TurnStep, DeleteStep

\* The tables change at a commit only.
LEMMA TablesOrCommit ==
  ASSUME NEW r \in Request, StepOf(r)
  PROVE  UNCHANGED store \/ (Commit(r) /\ pc[r] \in {"edges", "commit"})
BY DEF StepOf, TurnStep, BeginTurn, Reconcile, Deactivate, InsertMemory, MentionEntity, LinkSource,
   LinkPeer, ForeignKeyError, CommitTurn, DeleteStep, BeginDeleteSession, BeginDeleteUser,
   NextStatement, Statement, VisitRow, CommitDelete, DeadlockVictim, Fail, Rollback

----------------------------------------------------------------------------
\* The order in which a client sends.

MessageOf(r) == <<r[1], r[2]>>

\* When a message is sent, no attempt of those before it is running any more.
SentInOrder(r) ==
    pc[r] # "waiting" =>
      /\ ~Unsent(r[1], r[2], 1)
      /\ \A i \in 1..(r[2] - 1) : AtRest(r[1], i) /\ ~Unsent(r[1], i, 1)

\* All attempts at a message say what its script says.
FromScript == \E s \in Scripts : job = [r \in Request |-> s[r[1]][r[2]]]

SentInv == FromScript /\ \A r \in Request : SentInOrder(r)

\* The message is the last one its client has sent so far.
Current(m) == m[2] < Messages => Unsent(m[1], m[2] + 1, 1)

LEMMA SentStays ==
  ASSUME TypeOK, NEW r \in Request, StepOf(r), NEW c \in Client, NEW i \in 1..Messages,
         NEW n \in 1..Tries[c], Unsent(c, i, n)'
  PROVE  Unsent(c, i, n)
BY OneMoves, RequestShape DEF Unsent

LEMMA StepSent ==
  ASSUME TypeOK, SentInv, NEW r \in Request, SentStep(r)
  PROVE  SentInv'
<1>1. /\ job' = job /\ ~Over(r) /\ pc'[r] # "waiting"
      /\ \A q \in Request \ {r} : pc'[q] = pc[q]
      /\ StepOf(r)
  BY OneMoves DEF SentStep
<1>2. /\ r = <<r[1], r[2], r[3]>>
      /\ r[1] \in Client /\ r[2] \in 1..Messages /\ r[3] \in 1..Tries[r[1]] /\ Messages \in Nat
  BY RequestShape, ClientsAssumption
<1>3. ASSUME NEW q \in Request, pc'[q] # "waiting",
             ~Unsent(q[1], q[2], 1)', NEW i \in 1..(q[2] - 1),
             AtRest(q[1], i), ~Unsent(q[1], i, 1),
             i + 1 \in 1..(q[2] - 1) => ~Unsent(q[1], i + 1, 1),
             i + 1 = q[2] /\ q # r => ~Unsent(q[1], q[2], 1)
      PROVE  AtRest(q[1], i)' /\ ~Unsent(q[1], i, 1)'
  <2>1. /\ q[1] \in Client /\ q[2] \in 1..Messages /\ i \in 1..Messages /\ i < q[2] /\ i + 1 \in 1..q[2]
        /\ 1 \in 1..Tries[q[1]]
    BY RequestShape, <1>2
  <2>2. ~Unsent(q[1], i, 1)'
    BY <1>1, <1>3, <2>1, SentStays
  <2>3. ASSUME NEW n \in 1..Tries[q[1]] PROVE ~InTransaction(<<q[1], i, n>>)'
    <3>1. <<q[1], i, n>> \in Request /\ ~InTransaction(<<q[1], i, n>>)
      BY <1>3, <2>1, RequestShape DEF AtRest
    <3>2. CASE <<q[1], i, n>> # r
      BY <1>1, <3>1, <3>2 DEF InTransaction, Over
    <3>3. CASE <<q[1], i, n>> = r
      <4>1. pc[r] = "waiting" /\ r[1] = q[1] /\ r[2] = i /\ q # r
        BY <1>1, <2>1, <3>1, <3>3 DEF InTransaction
      <4>2. Unsent(q[1], i + 1, 1)
        BY <1>2, <2>1, <4>1 DEF SentStep, MaySend
      <4>3. i + 1 = q[2] \/ i + 1 \in 1..(q[2] - 1)
        BY <2>1
      <4> QED
        BY <1>3, <4>1, <4>2, <4>3
    <3> QED
      BY <3>2, <3>3
  <2> QED
    BY <2>2, <2>3 DEF AtRest
<1>4. ASSUME NEW q \in Request, q # r PROVE SentInOrder(q)'
  <2> SUFFICES ASSUME pc'[q] # "waiting" PROVE SentInOrder(q)'
    BY DEF SentInOrder
  <2>1. SentInOrder(q) /\ pc[q] # "waiting"
    BY <1>1, <1>4 DEF SentInv
  <2>2. q[1] \in Client /\ q[2] \in 1..Messages /\ 1 \in 1..Tries[q[1]]
    BY RequestShape
  <2>3. ~Unsent(q[1], q[2], 1) /\ ~Unsent(q[1], q[2], 1)'
    BY <1>1, <2>1, <2>2, SentStays DEF SentInOrder
  <2>4. ASSUME NEW i \in 1..(q[2] - 1) PROVE AtRest(q[1], i)' /\ ~Unsent(q[1], i, 1)'
    BY <1>3, <2>1, <2>3 DEF SentInOrder
  <2> QED
    BY <2>3, <2>4 DEF SentInOrder
<1>5. SentInOrder(r)'
  <2> DEFINE c == r[1]
             m == r[2]
             n == r[3]
  <2>1. ~Unsent(c, m, 1)'
    <3>1. CASE n = 1
      BY <1>1, <1>2, <3>1 DEF Unsent
    <3>2. CASE n # 1
      <4>1. \E q \in Request : q[1] = c /\ q[2] = m /\ pc[q] # "waiting"
        <5>1. CASE pc[r] # "waiting"
          BY <5>1
        <5>2. CASE pc[r] = "waiting"
          <6>1. n - 1 \in 1..Tries[c] /\ n > 1
            BY <1>2, <3>2, ClientsAssumption
          <6>2. <<c, m, n - 1>> \in Request /\ pc[<<c, m, n - 1>>] # "waiting"
            BY <1>2, <5>2, <6>1, RequestShape DEF SentStep, MaySend, Unsent
          <6> QED
            BY <6>2
        <5> QED
          BY <5>1, <5>2
      <4>2. ~Unsent(c, m, 1)
        BY <4>1 DEF SentInv, SentInOrder
      <4> QED
        BY <1>1, <1>2, <4>2, SentStays, RequestShape
    <3> QED
      BY <3>1, <3>2
  <2>2. \A i \in 1..(m - 1) : AtRest(c, i) /\ ~Unsent(c, i, 1)
    <3>1. CASE \E q \in Request : q[1] = c /\ q[2] = m /\ pc[q] # "waiting"
      BY <3>1 DEF SentInv, SentInOrder
    <3>2. CASE ~\E q \in Request : q[1] = c /\ q[2] = m /\ pc[q] # "waiting"
      <4>1. pc[r] = "waiting"
        BY <3>2
      <4>2. n = 1
        <5> SUFFICES ASSUME n # 1 PROVE FALSE
          OBVIOUS
        <5>1. n - 1 \in 1..Tries[c] /\ n > 1
          BY <1>2, ClientsAssumption
        <5>2. <<c, m, n - 1>> \in Request /\ pc[<<c, m, n - 1>>] # "waiting"
          BY <1>2, <4>1, <5>1, RequestShape DEF SentStep, MaySend, Unsent
        <5> QED
          BY <3>2, <5>2
      <4>3. CASE m > 1
        <5>1. ~Unsent(c, m - 1, 1) /\ AtRest(c, m - 1)
          BY <4>1, <4>3 DEF SentStep, MaySend
        <5>2. m - 1 \in 1..Messages /\ <<c, m - 1, 1>> \in Request
          BY <1>2, <4>3, RequestShape
        <5>3. \A i \in 1..(m - 1 - 1) : AtRest(c, i) /\ ~Unsent(c, i, 1)
          BY <5>1, <5>2 DEF SentInv, SentInOrder, Unsent
        <5>4. \A i \in 1..(m - 1) : i = m - 1 \/ i \in 1..(m - 1 - 1)
          BY <1>2
        <5> QED
          BY <5>1, <5>3, <5>4
      <4> QED
        BY <1>2, <4>3
    <3> QED
      BY <3>1, <3>2
  <2>3. ASSUME NEW i \in 1..(m - 1) PROVE AtRest(c, i)' /\ ~Unsent(c, i, 1)'
    BY <1>1, <1>3, <2>1, <2>2
  <2> QED
    BY <2>1, <2>3 DEF SentInOrder
<1>6. FromScript'
  BY <1>1 DEF SentInv, FromScript
<1> QED
  BY <1>4, <1>5, <1>6 DEF SentInv

LEMMA SameMessage ==
  ASSUME SentInv, NEW r \in Request, NEW p \in Request, MessageOf(r) = MessageOf(p)
  PROVE  job[r] = job[p]
BY DEF SentInv, FromScript, MessageOf

LEMMA SaidOf ==
  ASSUME SentInv, NEW r \in Request, NEW p \in Request
  PROVE  \E s \in Scripts : \E m, n \in Message :
            /\ job[r] = s[m[1]][m[2]] /\ m[1] = r[1]
            /\ job[p] = s[n[1]][n[2]] /\ n[1] = p[1]
<1>1. PICK s \in Scripts : job = [q \in Request |-> s[q[1]][q[2]]]
  BY DEF SentInv, FromScript
<1>2. job[r] = s[r[1]][r[2]] /\ job[p] = s[p[1]][p[2]]
  BY <1>1
<1>3. MessageOf(r) \in Message /\ MessageOf(p) \in Message
  BY RequestShape DEF MessageOf, Message
<1>4. /\ MessageOf(r)[1] = r[1] /\ MessageOf(r)[2] = r[2]
      /\ MessageOf(p)[1] = p[1] /\ MessageOf(p)[2] = p[2]
  BY DEF MessageOf
<1> QED
  BY <1>2, <1>3, <1>4

LEMMA OthersKeys ==
  ASSUME NoSharedKeys, SentInv, NEW r \in Request, NEW p \in Request, r[1] # p[1]
  PROVE  StatedKeys(job[r]) \cap (StatedKeys(job[p]) \cup WipedKeys(job[p])) = {}
<1>1. PICK s \in Scripts : \E m, n \in Message :
         job[r] = s[m[1]][m[2]] /\ m[1] = r[1] /\ job[p] = s[n[1]][n[2]] /\ n[1] = p[1]
  BY SaidOf
<1> QED
  BY <1>1 DEF NoSharedKeys

LEMMA DeletedAreAnonymous ==
  ASSUME AnonymousSessions, SentInv, NEW r \in Request, NEW p \in Request,
         job[r].op = "turn", job[p].op = "delete_session", job[r].session = job[p].session
  PROVE  job[r].user = NoUser
<1>1. PICK s \in Scripts : \E m, n \in Message :
         job[r] = s[m[1]][m[2]] /\ m[1] = r[1] /\ job[p] = s[n[1]][n[2]] /\ n[1] = p[1]
  BY SaidOf
<1> QED
  BY <1>1 DEF AnonymousSessions

\* While an attempt runs, its message is the last one its client sent; a message that was
\* sent and has no later one is that one.
LEMMA RunsLast ==
  ASSUME SentInv, NEW p \in Request, InTransaction(p)
  PROVE  /\ Current(MessageOf(p))
         /\ \A r \in Request : r[1] = p[1] /\ pc[r] # "waiting" /\ Current(MessageOf(r)) =>
                MessageOf(r) = MessageOf(p)
<1>1. /\ p = <<p[1], p[2], p[3]>>
      /\ p[1] \in Client /\ p[2] \in 1..Messages /\ p[3] \in 1..Tries[p[1]] /\ Messages \in Nat
  BY RequestShape, ClientsAssumption
<1>2. ~AtRest(p[1], p[2])
  BY <1>1 DEF AtRest
<1>3. ASSUME NEW q \in Request, q[1] = p[1], pc[q] # "waiting" PROVE q[2] <= p[2]
  <2>1. q[2] \in 1..Messages
    BY RequestShape
  <2>2. q[2] > p[2] => p[2] \in 1..(q[2] - 1)
    BY <1>1, <2>1
  <2>3. \A i \in 1..(q[2] - 1) : AtRest(p[1], i)
    BY <1>3 DEF SentInv, SentInOrder
  <2> QED
    BY <1>1, <1>2, <2>1, <2>2, <2>3
<1>4. ASSUME p[2] < Messages, ~Unsent(p[1], p[2] + 1, 1) PROVE FALSE
  <2>1. p[2] + 1 \in 1..Messages /\ 1 \in 1..Tries[p[1]]
    BY <1>1, <1>4, RequestShape
  <2>2. PICK q \in Request : q = <<p[1], p[2] + 1, 1>>
    BY <1>1, <2>1, RequestShape
  <2>3. q[2] <= p[2]
    BY <1>3, <1>4, <2>2 DEF Unsent
  <2> QED
    BY <1>1, <2>2, <2>3
<1>5. ASSUME NEW r \in Request, r[1] = p[1], pc[r] # "waiting", Current(MessageOf(r)), r[2] # p[2]
      PROVE  FALSE
  <2>1. r[2] \in 1..Messages /\ r[2] < p[2]
    BY <1>1, <1>3, <1>5, RequestShape
  <2>2. Unsent(p[1], r[2] + 1, 1)
    BY <1>1, <1>5, <2>1 DEF Current, MessageOf
  <2>3. SentInOrder(p) /\ pc[p] # "waiting"
    BY DEF SentInv, InTransaction
  <2>4. r[2] + 1 = p[2] \/ r[2] + 1 \in 1..(p[2] - 1)
    BY <1>1, <2>1
  <2> QED
    BY <2>2, <2>3, <2>4 DEF SentInOrder
<1> QED
  BY <1>4, <1>5 DEF Current, MessageOf

LEMMA LastStays ==
  ASSUME TypeOK, NEW p \in Request, StepOf(p), NEW r \in Request, Current(MessageOf(r))'
  PROVE  Current(MessageOf(r))
<1> SUFFICES ASSUME r[2] < Messages PROVE Unsent(r[1], r[2] + 1, 1)
  BY DEF Current, MessageOf
<1>1. r[1] \in Client /\ r[2] \in 1..Messages /\ 1 \in 1..Tries[r[1]] /\ Messages \in Nat
  BY RequestShape, ClientsAssumption
<1>2. r[2] + 1 \in 1..Messages
  BY <1>1
<1>3. Unsent(r[1], r[2] + 1, 1)'
  BY DEF Current, MessageOf
<1> QED
  BY <1>1, <1>2, <1>3, SentStays

\* A delete wipes whatever it may deactivate.
LEMMA DeleteWipesItsReach ==
  ASSUME AnonymousSessions, TypeOK, SentInv, NEW p \in Request, job[p].op # "turn", NEW k \in Reach(p), k \in ScopeKey
  PROVE  k \in WipedKeys(job[p])
<1>1. job[p] \in Job /\ \A q \in Request : job[q] \in Job /\ job[q] \in Jobs
  BY StoreAssumption DEF TypeOK, HandlersOK
<1>2. CASE job[p].op = "delete_user"
  <2>1. k[1] = OwnScope(p)
    BY <1>2 DEF Reach
  <2> QED
    BY <1>2, <2>1 DEF OwnScope, WipedKeys
<1>3. CASE job[p].op = "delete_session"
  <2>1. PICK q \in Request : job[q].session = job[p].session /\ k \in StatedBy(q)
    BY <1>3 DEF Reach, StatedBy
  <2>2. PICK i \in DOMAIN cands(q) : k = KeyOf(Memory(q, i))
    BY <2>1 DEF StatedBy
  <2>3. job[q].op = "turn"
    BY <1>1, <2>2, ClientsAssumption DEF cands
  <2>4. job[q].user = NoUser
    BY <1>3, <2>1, <2>3, DeletedAreAnonymous
  <2>5. k[1] = <<"session", job[p].session>>
    BY <2>1, <2>2, <2>4 DEF KeyOf, Memory, ScopeOf
  <2> QED
    BY <1>3, <2>5 DEF WipedKeys
<1> QED
  BY <1>1, <1>2, <1>3 DEF Job

----------------------------------------------------------------------------
\* One memory per statement.

\* What an attempt inserts is on record by no other attempt at its message, and what
\* is on record of the last message is active, so that a retry finds it.
NoneTwice(r, q) ==
    MessageOf(r) = MessageOf(q) /\ r # q =>
        \A i \in DOMAIN cands(r) : ~(Memory(r, i) \in rows /\ Memory(q, i) \in rows)

Once(r, q) ==
    MessageOf(r) = MessageOf(q) /\ r # q =>
        \A i \in DOMAIN cands(r) : Memory(r, i) \in Chosen(r) => Memory(q, i) \notin rows

StillActive(r) ==
    Current(MessageOf(r)) => \A i \in DOMAIN cands(r) : Memory(r, i) \in rows => Memory(r, i) \in active

OnceInv ==
    /\ \A x \in rows : Published(x)
    /\ \A r \in Request : StillActive(r)
    /\ \A r, q \in Request : Once(r, q) /\ NoneTwice(r, q)

LEMMA ChosenByTurns ==
  ASSUME TypeOK, WriteInv, NEW r \in Request, NEW x \in Chosen(r)
  PROVE  /\ job[r].op = "turn" /\ TurnWrites(r)
         /\ x[2] = r /\ x[3] \in DOMAIN cands(r) /\ x = Memory(r, x[3])
         /\ Hash(KeyOf(x)) \in locks[r]
<1>1. job[r].op = "turn" /\ TurnWrites(r)
  BY DEF WriteInv, Sound, Chosen, Inserted, Working
<1>2. x \in MemoryRow /\ x[2] = r /\ Stated(x)
  <2>1. CASE x \in Inserted(r)
    BY <1>1, <2>1 DEF TurnWrites, InOrder, Inserted, TypeOK
  <2>2. CASE x \notin Inserted(r)
    BY <2>2, ThisMemoryStated DEF Chosen, TypeOK, Placed
  <2> QED
    BY <2>1, <2>2
<1>3. x = Memory(r, x[3]) /\ x[3] \in DOMAIN cands(r)
  BY <1>2, CandidateNumbers DEF MemoryRow, Memory, Stated
<1> QED
  BY <1>1, <1>2, <1>3 DEF TurnWrites

\* Reconcile alone makes a choice, and it is a new one of a fact nobody has on record.
LEMMA ChoiceGrows ==
  ASSUME TypeOK, WriteInv, NEW p \in Request, StepOf(p), NEW r \in Request
  PROVE  \/ Chosen(r)' \subseteq Chosen(r)
         \/ /\ r = p /\ Reconcile(p) /\ pc'[p] = "apply"
            /\ Chosen(p) = Inserted(p)
            /\ Chosen(p)' \subseteq Chosen(p) \cup {ThisMemory(p)}
<1>1. \A o : Close(p, o) => /\ pc'[p] = o /\ w'[p] = NoWrites
                            /\ \A q \in Request \ {p} : pc'[q] = pc[q] /\ at'[q] = at[q] /\ w'[q] = w[q]
  BY DEF Close, TypeOK, HandlersOK
<1>2. ASSUME r # p, pc'[r] = pc[r], at'[r] = at[r], w'[r] = w[r] PROVE Chosen(r)' \subseteq Chosen(r)
  BY <1>2 DEF Chosen, Inserted, ThisMemory, Memory
<1>3. \A o \in {"done", "failed"} : Close(p, o) => Chosen(r)' \subseteq Chosen(r)
  <2> SUFFICES ASSUME NEW o \in {"done", "failed"}, Close(p, o) PROVE Chosen(r)' \subseteq Chosen(r)
    OBVIOUS
  <2>1. CASE r = p
    BY <1>1, <2>1 DEF Chosen, Inserted, NoWrites
  <2> QED
    BY <1>1, <1>2, <2>1
<1>4. CASE BeginTurn(p)
  <2>1. w'[p] = [w[p] EXCEPT !.ins = {Turn(p)}] /\ pc'[p] # "apply"
        /\ \A q \in Request \ {p} : pc'[q] = pc[q] /\ at'[q] = at[q] /\ w'[q] = w[q]
    BY <1>4 DEF BeginTurn, TypeOK, HandlersOK
  <2>2. w'[p].ins \cap MemoryRow = {}
    BY <2>1 DEF TypeOK, HandlersOK, Writes, Turn, MemoryRow
  <2>3. r = p => Chosen(r)' = {}
    BY <2>1, <2>2 DEF Chosen, Inserted
  <2> QED
    BY <1>2, <2>1, <2>3
<1>5. CASE Reconcile(p)
  <2>1. pc[p] = "reconcile" /\ w' = w /\ (pc'[p] \in {"reconcile", "edges"} \/ (pc'[p] = "apply" /\ at' = at))
        /\ \A q \in Request \ {p} : pc'[q] = pc[q] /\ at'[q] = at[q]
    BY <1>5, NextCandidateGoes DEF Reconcile, TypeOK, HandlersOK
  <2>2. CASE r # p
    BY <1>2, <2>1, <2>2
  <2>3. CASE r = p
    <3>1. Inserted(p)' = Inserted(p) /\ Chosen(p) = Inserted(p)
      BY <2>1 DEF Inserted, Chosen
    <3>2. CASE pc'[p] # "apply"
      BY <2>3, <3>1, <3>2 DEF Chosen
    <3>3. CASE pc'[p] = "apply"
      <4>1. at' = at
        BY <2>1, <3>3
      <4>2. ThisMemory(p)' = ThisMemory(p)
        BY <4>1 DEF ThisMemory, Memory
      <4> QED
        BY <1>5, <2>3, <3>1, <3>3, <4>2 DEF Chosen
    <3> QED
      BY <3>2, <3>3
  <2> QED
    BY <2>2, <2>3
<1>6. CASE InsertMemory(p)
  <2>1. /\ pc[p] = "apply" /\ pc'[p] # "apply"
        /\ w'[p].ins = w[p].ins \cup {ThisMemory(p)}
        /\ \A q \in Request \ {p} : pc'[q] = pc[q] /\ at'[q] = at[q] /\ w'[q] = w[q]
    BY <1>6, NextEntityGoes DEF InsertMemory, TypeOK, HandlersOK, Writes
  <2>2. r = p => Chosen(r)' \subseteq Chosen(r)
    BY <2>1 DEF Chosen, Inserted
  <2> QED
    BY <1>2, <2>1, <2>2
<1>7. CASE Deactivate(p)
  <2>1. UNCHANGED <<pc, at>> /\ \A q \in Request : w'[q].ins = w[q].ins
    BY <1>7 DEF Deactivate, TypeOK, HandlersOK, Writes
  <2> QED
    BY <2>1 DEF Chosen, Inserted, ThisMemory, Memory
<1>8. CASE MentionEntity(p)
  <2>1. /\ pc'[p] # "apply" /\ w'[p].ins \subseteq w[p].ins \cup {ThisEntity(p)}
        /\ \A q \in Request \ {p} : pc'[q] = pc[q] /\ at'[q] = at[q] /\ w'[q] = w[q]
    <3>1. pc'[p] # "apply" /\ \A q \in Request \ {p} : pc'[q] = pc[q] /\ at'[q] = at[q]
      BY <1>8, NextEntityGoes DEF MentionEntity
    <3>2. w'[p].ins \subseteq w[p].ins \cup {ThisEntity(p)} /\ \A q \in Request \ {p} : w'[q] = w[q]
      BY <1>8 DEF MentionEntity, TypeOK, HandlersOK, Writes
    <3> QED
      BY <3>1, <3>2
  <2>2. ThisEntity(p) \notin MemoryRow
    BY DEF ThisEntity, Entity, MemoryRow
  <2>3. r = p => Chosen(r)' \subseteq Chosen(r)
    BY <2>1, <2>2 DEF Chosen, Inserted
  <2> QED
    BY <1>2, <2>1, <2>3
<1>9. CASE LinkSource(p)
  <2>1. UNCHANGED pc /\ pc[p] = "edges" /\ w'[p].ins = w[p].ins
        /\ \A q \in Request \ {p} : at'[q] = at[q] /\ w'[q] = w[q]
    BY <1>9 DEF LinkSource, TypeOK, HandlersOK, Writes
  <2>2. r = p => Chosen(r)' \subseteq Chosen(r)
    BY <2>1 DEF Chosen, Inserted
  <2> QED
    BY <1>2, <2>1, <2>2
<1>10. CASE LinkPeer(p)
  <2>1. UNCHANGED <<pc, at>> /\ pc[p] = "edges"
    BY <1>10 DEF LinkPeer
  <2>2. PICK x : w' = [w EXCEPT ![p].share = @ \cup {x},
                             ![p].edges = @ \cup {<<Memory(p, at[p] - 1), x, "same_subject">>,
                                                  <<x, Memory(p, at[p] - 1), "same_subject">>}]
    BY <1>10 DEF LinkPeer
  <2>3. \A q \in Request : w'[q].ins = w[q].ins
    BY <2>2 DEF TypeOK, HandlersOK, Writes
  <2> QED
    BY <2>1, <2>3 DEF Chosen, Inserted, ThisMemory, Memory
<1>11. CASE BeginDeleteSession(p) \/ BeginDeleteUser(p)
  <2>1. UNCHANGED <<at, w>> /\ pc'[p] # "apply" /\ \A q \in Request \ {p} : pc'[q] = pc[q]
    BY <1>11 DEF BeginDeleteSession, BeginDeleteUser, control, TypeOK, HandlersOK
  <2>2. r = p => Chosen(r)' \subseteq Chosen(r)
    BY <2>1 DEF Chosen, Inserted
  <2> QED
    BY <1>2, <2>1, <2>2
<1>12. CASE NextStatement(p)
  <2>1. PICK next : Statement(p, next) /\ next \in Deleting \cup Updating \cup {"commit"}
    BY <1>12 DEF NextStatement, UserPlan, SessionPlan, Deleting, Updating
  <2>2. UNCHANGED <<at, w>> /\ pc'[p] # "apply" /\ \A q \in Request \ {p} : pc'[q] = pc[q]
    BY <2>1 DEF Statement, Deleting, Updating, TypeOK, HandlersOK
  <2>3. r = p => Chosen(r)' \subseteq Chosen(r)
    BY <2>2 DEF Chosen, Inserted
  <2> QED
    BY <1>2, <2>2, <2>3
<1>13. CASE VisitRow(p)
  <2>1. UNCHANGED <<pc, at>> /\ \A q \in Request : w'[q].ins = w[q].ins
    BY <1>13, VisitRowWrites DEF VisitRow
  <2> QED
    BY <2>1 DEF Chosen, Inserted, ThisMemory, Memory
<1> QED
  BY <1>3, <1>4, <1>5, <1>6, <1>7, <1>8, <1>9, <1>10, <1>11, <1>12, <1>13
  DEF StepOf, TurnStep, DeleteStep, ForeignKeyError, CommitTurn, CommitDelete, Commit, Rollback,
      DeadlockVictim, Fail

\* A row that a commit adds to the tables is one its request inserted.
LEMMA NewRows ==
  ASSUME TypeOK, WriteInv, NEW p \in Request, Commit(p), NEW x \in rows', x \notin rows
  PROVE  /\ x \in w[p].ins /\ job[p].op = "turn" /\ InTransaction(p)
         /\ x \in MemoryRow => x[2] = p /\ x \in Chosen(p) /\ (StatesOnce => x \in active')
         /\ x \in TurnRow => x = Turn(p)
         /\ x \in EntityRow => x[2] = ScopeOf(job[p]) /\ cands(p) # <<>>
<1>1. x \in w[p].ins /\ x \notin w[p].del /\ active' = ActiveFor(p)
  BY DEF Commit, Visible
<1>2. job[p].op = "turn" /\ TurnWrites(p) /\ InTransaction(p)
  BY <1>1 DEF WriteInv, Sound, NoWrites
<1>3. ASSUME x \in MemoryRow PROVE x[2] = p /\ x \in Chosen(p) /\ (StatesOnce => x \in active')
  BY <1>1, <1>2, <1>3 DEF TurnWrites, Chosen, Inserted, InOrder, ActiveFor, Visible
<1> QED
  BY <1>1, <1>2, <1>3 DEF TurnWrites

\* A retry does not choose what an earlier attempt has on record.
LEMMA RetryFinds ==
  ASSUME StatesOnce, TypeOK, WriteInv, SentInv, OnceInv, NEW r \in Request, Reconcile(r), pc'[r] = "apply",
         NEW q \in Request, MessageOf(q) = MessageOf(r), Memory(q, at[r]) \in rows
  PROVE  FALSE
<1> DEFINE m == ThisMemory(r)
           x == Memory(q, at[r])
<1>1. pc[r] = "reconcile" /\ at[r] \in DOMAIN cands(r) /\ job[q] = job[r]
  BY SameMessage, CandidateNumbers DEF Reconcile, TypeOK, Placed
<1>2. PICK d \in Decisions(Cand(m), Rivals(r, KeyOf(m))) : d.insert \/ NextCandidate(r)
  BY DEF Reconcile
<1>3. d.insert
  BY <1>2, NextCandidateGoes
<1>4. KeyOf(x) = KeyOf(m) /\ Cand(x) = Cand(m)
  BY <1>1 DEF KeyOf, Cand, Memory, ThisMemory
<1>5. Current(MessageOf(r))
  BY <1>1, RunsLast DEF InTransaction, Over
<1>6. x \in active /\ x \in rows
  BY <1>1, <1>5 DEF OnceInv, StillActive, cands
<1>7. TurnWrites(r)
  BY <1>1 DEF WriteInv, Sound, Working
<1>8. x \notin w[r].off
  <2> SUFFICES ASSUME x \in w[r].off PROVE FALSE
    OBVIOUS
  <2>1. PICK y \in Chosen(r) : KeyOf(y) = KeyOf(m)
    BY <1>4, <1>7 DEF TurnWrites
  <2>2. y \in Inserted(r)
    BY <1>1, <2>1 DEF Chosen
  <2> QED
    BY <1>1, <2>1, <2>2, ThisKeyIsNew
<1>9. x \in Rivals(r, KeyOf(m))
  BY <1>4, <1>6, <1>7, <1>8 DEF Rivals, ActiveFor, Visible, TurnWrites
<1>10. d = Skip
  BY <1>4, <1>9 DEF Decisions
<1> QED
  BY <1>3, <1>10 DEF Skip

LEMMA StepOnce ==
  ASSUME StatesOnce, TypeOK, WriteInv, SentInv, OnceInv, NEW p \in Request, StepOf(p),
         NEW r \in Request, NEW q \in Request
  PROVE  Once(r, q)' /\ NoneTwice(r, q)'
<1>1. job' = job
  BY OneMoves
<1> SUFFICES ASSUME MessageOf(r) = MessageOf(q), r # q, NEW i \in DOMAIN cands(r)
             PROVE  /\ Memory(r, i) \in Chosen(r)' => Memory(q, i) \notin rows'
                    /\ ~(Memory(r, i) \in rows' /\ Memory(q, i) \in rows')
  BY <1>1 DEF Once, NoneTwice, MessageOf, cands, Memory
<1>2. job[r] = job[q] /\ i \in DOMAIN cands(q) /\ i \in Nat
  BY SameMessage, CandidateNumbers DEF cands
<1>3. /\ Once(r, q) /\ Once(q, r) /\ NoneTwice(r, q)
  BY DEF OnceInv
<1>4. Memory(r, i) \in MemoryRow /\ Memory(q, i) \in MemoryRow
      /\ Memory(r, i)[2] = r /\ Memory(q, i)[2] = q /\ Memory(r, i)[3] = i
  BY <1>2 DEF Memory, MemoryRow
<1>5. KeyOf(Memory(r, i)) = KeyOf(Memory(q, i))
  BY <1>2 DEF KeyOf, Cand, Memory
<1>6. CASE rows' = rows
  <2>1. ~(Memory(r, i) \in rows' /\ Memory(q, i) \in rows')
    BY <1>3, <1>6 DEF NoneTwice
  <2>2. ASSUME Memory(r, i) \in Chosen(r)', Memory(q, i) \in rows PROVE FALSE
    <3>1. Memory(r, i) \notin Chosen(r)
      BY <1>3, <2>2 DEF Once
    <3>2. r = p /\ Reconcile(r) /\ pc'[r] = "apply" /\ Memory(r, i) = ThisMemory(r)
      BY <2>2, <3>1, ChoiceGrows
    <3>3. i = at[r]
      BY <1>4, <3>2 DEF ThisMemory, Memory
    <3> QED
      BY <2>2, <3>2, <3>3, RetryFinds
  <2> QED
    BY <1>6, <2>1, <2>2
<1>7. CASE Commit(p)
  <2>1. /\ Memory(r, i) \in rows' => Memory(r, i) \in rows \/ (r = p /\ Memory(r, i) \in Chosen(r))
        /\ Memory(q, i) \in rows' => Memory(q, i) \in rows \/ (q = p /\ Memory(q, i) \in Chosen(q))
    BY <1>4, <1>7, NewRows
  <2>2. ~(Memory(r, i) \in rows' /\ Memory(q, i) \in rows')
    BY <1>2, <1>3, <2>1 DEF Once, NoneTwice
  <2>3. ASSUME Memory(r, i) \in Chosen(r)', Memory(q, i) \in rows' PROVE FALSE
    <3>1. ~Reconcile(p) \/ pc'[p] # "apply"
      BY <1>7 DEF Commit, Close, TypeOK, HandlersOK
    <3>2. Memory(r, i) \in Chosen(r)
      BY <2>3, <3>1, ChoiceGrows
    <3>3. q = p /\ Memory(q, i) \in Chosen(q)
      BY <1>3, <2>1, <2>3, <3>2 DEF Once
    <3>4. Hash(KeyOf(Memory(r, i))) \in locks[r] /\ Hash(KeyOf(Memory(r, i))) \in locks[q]
      BY <1>5, <3>2, <3>3, ChosenByTurns
    <3> QED
      BY <3>4 DEF WriteInv, Exclusive
  <2> QED
    BY <2>2, <2>3
<1> QED
  BY <1>6, <1>7, TablesOrCommit DEF store

\* What deactivates a memory of a client's last message is an attempt at that message.
LEMMA OwnClientDeactivates ==
  ASSUME StatesOnce, NoSharedKeys, AnonymousSessions, TypeOK, WriteInv, SentInv, OnceInv, NEW p \in Request, InTransaction(p), OwnKeys(p),
         pc[p] \in {"edges", "commit"},
         NEW r \in Request, Current(MessageOf(r)), NEW i \in DOMAIN cands(r),
         Memory(r, i) \in rows, Memory(r, i) \in w[p].off
  PROVE  FALSE
<1> DEFINE x == Memory(r, i)
<1>1. /\ x \in MemoryRow /\ KeyOf(x) \in ScopeKey /\ KeyOf(x) = CandidateKey(job[r], job[r].cands[i])
      /\ pc[r] = "done"
  <2>1. x \in MemoryRow /\ Stated(x) /\ x[2] = r
    BY CandidateNumbers DEF Memory, MemoryRow, TypeOK
  <2>2. KeyOf(x) = CandidateKey(job[r], job[r].cands[i])
    BY DEF KeyOf, Cand, Memory, CandidateKey
  <2> QED
    BY <2>1, <2>2, Attributes DEF OnceInv, Published, TypeOK
<1>2. KeyOf(x) \in StatedKeys(job[r])
  BY <1>1 DEF StatedKeys, cands
<1>3. p # r /\ pc[p] # "done"
  BY <1>1 DEF InTransaction, Over
<1>4. CASE job[p].op = "turn"
  <2>1. TurnWrites(p)
    BY <1>4 DEF WriteInv, Sound
  <2>2. PICK y \in Chosen(p) : KeyOf(y) = KeyOf(x)
    BY <2>1 DEF TurnWrites
  <2>3. y = Memory(p, y[3]) /\ y[3] \in DOMAIN cands(p)
    BY <2>2, ChosenByTurns
  <2>4. KeyOf(y) = CandidateKey(job[p], job[p].cands[y[3]])
    BY <2>3 DEF KeyOf, Cand, Memory, CandidateKey
  <2>5. KeyOf(x) \in StatedKeys(job[p])
    BY <2>2, <2>3, <2>4 DEF StatedKeys, cands
  <2>6. r[1] = p[1]
    BY <1>2, <2>5, OthersKeys
  <2>7. MessageOf(r) = MessageOf(p)
    BY <1>1, <2>6, RunsLast
  <2>8. job[r] = job[p]
    BY <2>7, SameMessage
  <2>9. i = y[3]
    <3>1. KeyOf(Memory(p, i)) = KeyOf(x)
      BY <2>8 DEF KeyOf, Cand, Memory
    <3>2. i \in DOMAIN cands(p)
      BY <2>8 DEF cands
    <3> QED
      BY <2>2, <2>3, <3>1, <3>2, KeysApart
  <2>10. Once(p, r)
    BY DEF OnceInv
  <2> QED
    BY <1>3, <2>2, <2>3, <2>7, <2>9, <2>10 DEF Once
<1>5. CASE job[p].op # "turn"
  <2>1. KeyOf(x) \in Reach(p)
    BY <1>1 DEF OwnKeys, InReach
  <2>2. KeyOf(x) \in WipedKeys(job[p])
    BY <1>1, <1>5, <2>1, DeleteWipesItsReach
  <2>3. r[1] = p[1]
    BY <1>2, <2>2, OthersKeys
  <2>4. job[r] = job[p]
    BY <1>1, <2>3, RunsLast, SameMessage
  <2>5. job[r] \in Jobs /\ job[r].cands # <<>>
    BY DEF TypeOK, HandlersOK, cands
  <2> QED
    BY <1>5, <2>4, <2>5, ClientsAssumption
<1> QED
  BY <1>4, <1>5

LEMMA StepStillActive ==
  ASSUME StatesOnce, NoSharedKeys, AnonymousSessions,
         TypeOK, WriteInv, SentInv, OnceInv, \A q \in Request : OwnKeys(q),
         NEW p \in Request, StepOf(p), NEW r \in Request
  PROVE  StillActive(r)'
<1>1. job' = job
  BY OneMoves
<1> SUFFICES ASSUME Current(MessageOf(r))', NEW i \in DOMAIN cands(r), Memory(r, i) \in rows'
             PROVE  Memory(r, i) \in active'
  BY <1>1 DEF StillActive, MessageOf, cands, Memory
<1>2. Current(MessageOf(r)) /\ StillActive(r)
  BY LastStays DEF OnceInv
<1>3. CASE UNCHANGED store
  BY <1>2, <1>3 DEF StillActive, store
<1>4. CASE Commit(p) /\ pc[p] \in {"edges", "commit"}
  <2>1. active' = ActiveFor(p) /\ rows' = Visible(p) /\ InTransaction(p)
    BY <1>4 DEF Commit, InTransaction, Over
  <2>2. Memory(r, i) \in MemoryRow
    BY CandidateNumbers DEF Memory, MemoryRow
  <2>3. CASE Memory(r, i) \notin rows
    BY <1>4, <2>2, <2>3, NewRows
  <2>4. CASE Memory(r, i) \in rows
    <3>1. Memory(r, i) \in active
      BY <1>2, <2>4 DEF StillActive
    <3>2. Memory(r, i) \notin w[p].off
      BY <1>2, <1>4, <2>1, <2>4, OwnClientDeactivates
    <3> QED
      BY <2>1, <3>1, <3>2 DEF ActiveFor
  <2> QED
    BY <2>3, <2>4
<1> QED
  BY <1>3, <1>4, TablesOrCommit

LEMMA StepPublished ==
  ASSUME TypeOK, WriteInv, NEW p \in Request, StepOf(p), \A x \in rows : Published(x)
  PROVE  \A x \in rows' : Published(x)'
<1>1. /\ ~Over(p) /\ \A q \in Request \ {p} : pc'[q] = pc[q]
  BY OneMoves
<1>2. \A x : Published(x) => Published(x)'
  BY <1>1, PublishedStays DEF Over
<1>3. CASE UNCHANGED store
  BY <1>2, <1>3 DEF store
<1>4. CASE Commit(p)
  <2>1. pc'[p] = "done"
    BY <1>4 DEF Commit, Close, TypeOK, HandlersOK
  <2>2. ASSUME NEW x \in rows', x \notin rows PROVE Published(x)'
    BY <1>4, <2>1, <2>2, NewRows DEF Published
  <2> QED
    BY <1>2, <2>2
<1> QED
  BY <1>3, <1>4, TablesOrCommit

\* The invariants that hold of any use of the service, and the two of the clients.
ServiceInv == TypeOK /\ WriteInv /\ \A r \in Request : OwnKeys(r)

LEMMA ServiceHolds == Spec => []ServiceInv
<1>1. Init => WriteInv
  BY InitWrites DEF Init
<1>2. TypeOK /\ WriteInv /\ [Next]_vars => WriteInv'
  BY NextWrites
<1> QED
  BY <1>1, <1>2, TypeCorrect, OwnKeysHold, PTL DEF Spec, ServiceInv

LEMMA StutterSent == SentInv /\ UNCHANGED vars => SentInv'
BY DEF vars, SentInv, SentInOrder, FromScript, Unsent, AtRest, InTransaction, Over

LEMMA InitSent == ClientsInit => SentInv
BY DEF ClientsInit, Init, StoreInit, SentInv, SentInOrder, FromScript

LEMMA SentHolds == ClientsSpec => []SentInv
<1>1. TypeOK /\ SentInv /\ [ClientsNext]_vars => SentInv'
  BY AttemptsAreSteps, StepSent, StutterSent
<1>2. ClientsSpec => []TypeOK
  BY ClientsUseTheService, TypeCorrect, PTL
<1> QED
  BY <1>1, <1>2, InitSent, PTL DEF ClientsSpec

LEMMA StutterOnce ==
  ASSUME OnceInv, UNCHANGED vars
  PROVE  OnceInv'
<1>1. UNCHANGED <<job, pc, at, w, rows, active>>
  BY DEF vars, control, store
<1>2. \A r \in Request : Chosen(r)' = Chosen(r)
  BY <1>1 DEF Chosen, Inserted, ThisMemory, Memory
<1>3. \A r \in Request : Current(MessageOf(r))' <=> Current(MessageOf(r))
  BY <1>1 DEF Current, MessageOf, Unsent
<1>4. \A r \in Request : StillActive(r)'
  BY <1>1, <1>3 DEF OnceInv, StillActive, cands, Memory
<1>5. \A r, q \in Request : Once(r, q)' /\ NoneTwice(r, q)'
  BY <1>1, <1>2 DEF OnceInv, Once, NoneTwice, cands, Memory, MessageOf
<1>6. \A x \in rows' : Published(x)'
  BY <1>1 DEF OnceInv, Published
<1> QED
  BY <1>4, <1>5, <1>6 DEF OnceInv

LEMMA OnceHolds ==
  ASSUME StatesOnce, NoSharedKeys, AnonymousSessions
  PROVE  ClientsSpec => []OnceInv
<1>1. ClientsInit => OnceInv
  <2> SUFFICES ASSUME ClientsInit PROVE OnceInv
    OBVIOUS
  <2>1. rows = {}
    BY DEF ClientsInit, Init, StoreInit
  <2> QED
    BY <2>1 DEF OnceInv, StillActive, Once, NoneTwice
<1>2. ServiceInv /\ SentInv /\ OnceInv /\ [ClientsNext]_vars => OnceInv'
  <2> SUFFICES ASSUME ServiceInv, SentInv, OnceInv, [ClientsNext]_vars PROVE OnceInv'
    OBVIOUS
  <2>1. CASE UNCHANGED vars
    BY <2>1, StutterOnce
  <2>2. CASE ClientsNext
    <3>1. PICK p \in Request : StepOf(p)
      BY <2>2, AttemptsAreSteps DEF SentStep
    <3>2. \A r, q \in Request : Once(r, q)' /\ NoneTwice(r, q)'
      BY <3>1, StepOnce DEF ServiceInv
    <3>3. \A r \in Request : StillActive(r)'
      BY <3>1, StepStillActive DEF ServiceInv
    <3>4. \A x \in rows' : Published(x)'
      BY <3>1, StepPublished DEF ServiceInv, OnceInv
    <3> QED
      BY <3>2, <3>3, <3>4 DEF OnceInv
  <2> QED
    BY <2>1, <2>2
<1> QED
  BY <1>1, <1>2, ClientsUseTheService, ServiceHolds, SentHolds, PTL DEF ClientsSpec

\* Clients go through their messages one after the other, each as often as they like and
\* with attempts at one message overlapping, but none at two: then each statement of
\* a message leaves one memory at most, active or not, if a message states a key
\* once, no two clients state or wipe the same key, and the sessions deleted are
\* anonymous.  The advisory lock makes a retry wait for the attempt that runs, and
\* what it then finds active makes reconcile skip.
THEOREM RetriesLeaveOneMemory ==
  ASSUME StatesOnce, NoSharedKeys, AnonymousSessions
  PROVE  ClientsSpec => []OneMemoryPerStatement
<1>1. SentInv /\ TypeOK /\ OnceInv => OneMemoryPerStatement
  <2> SUFFICES ASSUME SentInv, TypeOK, OnceInv, NEW m \in Message, NEW k \in DOMAIN Told[m].cands
               PROVE  Cardinality({n \in 1..Tries[m[1]] : Memory(<<m[1], m[2], n>>, k) \in rows}) <= 1
    BY DEF OneMemoryPerStatement
  <2> DEFINE S == {n \in 1..Tries[m[1]] : Memory(<<m[1], m[2], n>>, k) \in rows}
  <2>1. /\ m[1] \in Client /\ m[2] \in 1..Messages
        /\ \A n \in 1..Tries[m[1]] : <<m[1], m[2], n>> \in Request
        /\ <<m[1], m[2], 1>> \in Request
    BY RequestShape DEF Message
  <2>2. ASSUME NEW n \in S, NEW l \in S, n # l PROVE FALSE
    <3>1. PICK r \in Request : r = <<m[1], m[2], n>>
      BY <2>1
    <3>2. PICK q \in Request : q = <<m[1], m[2], l>>
      BY <2>1
    <3>3. PICK f \in Request : f = <<m[1], m[2], 1>>
      BY <2>1
    <3>4. MessageOf(r) = MessageOf(q) /\ r # q /\ MessageOf(r) = MessageOf(f)
      BY <2>2, <3>1, <3>2, <3>3 DEF MessageOf
    <3>5. k \in DOMAIN cands(r)
      BY <3>3, <3>4, SameMessage DEF Told, cands
    <3>6. NoneTwice(r, q)
      BY DEF OnceInv
    <3> QED
      BY <3>1, <3>2, <3>4, <3>5, <3>6 DEF NoneTwice
  <2>3. S = {} \/ \E n \in S : S = {n}
    BY <2>2
  <2> HIDE DEF S
  <2>4. Cardinality(S) = 0 \/ Cardinality(S) = 1
    BY <2>3, FS_EmptySet, FS_Singleton
  <2>5. Cardinality(S) <= 1
    BY <2>4
  <2> QED
    BY <2>5 DEF S
<1> QED
  <2>1. ClientsSpec => []OnceInv
    BY OnceHolds
  <2> QED
    BY <1>1, <2>1, ClientsUseTheService, TypeCorrect, SentHolds, PTL

----------------------------------------------------------------------------
\* What a client deleted is gone.

\* The statements of each plan that delete rows, and which of them are over when the
\* handler is at a statement.
RowsOf == [memories |-> MemoryRow, turns |-> TurnRow, entities |-> EntityRow]

UserCleared == [begin |-> {}, entities |-> {}, memories |-> {"entities"},
                successors |-> {"entities", "memories"}, turns |-> {"entities", "memories"},
                sources |-> Deleting, commit |-> Deleting]

SessionCleared == [affected |-> {}, memories |-> {}, successors |-> {"memories"},
                   turns |-> {"memories"}, sources |-> {"memories", "turns"},
                   entities |-> {"memories", "turns"}, reset |-> Deleting,
                   activate |-> Deleting, commit |-> Deleting]

ClearedBy(r) == IF job[r].op = "delete_user" THEN UserCleared ELSE SessionCleared

Selected(r, statement) == OfClient(r[1], OwnScope(r)) \cap RowsOf[statement]

\* A delete has deleted what the statements behind it select, and the running one has
\* deleted it or is going to.
Clears(r) ==
    job[r].op # "turn" =>
        /\ pc[r] \in DOMAIN ClearedBy(r) =>
               \A s \in ClearedBy(r)[pc[r]] : Selected(r, s) \subseteq w[r].del
        /\ pc[r] \in Deleting => Selected(r, pc[r]) \subseteq w[r].del \cup todo[r]

Cleared(r) ==
    job[r].op # "turn" /\ pc[r] = "done" /\ Current(MessageOf(r)) =>
        OfClient(r[1], OwnScope(r)) = {}

ClearInv == \A r \in Request : Clears(r) /\ Cleared(r)

LEMMA OfClientStable ==
  ASSUME job' = job, rows' = rows
  PROVE  /\ \A c, scope : OfClient(c, scope)' = OfClient(c, scope)
         /\ \A r : OwnScope(r)' = OwnScope(r)
         /\ \A r, s : Selected(r, s)' = Selected(r, s)
<1>1. \A c, scope : OfClient(c, scope)' = OfClient(c, scope)
  BY DEF OfClient, ScopeOf
<1>2. \A r : OwnScope(r)' = OwnScope(r)
  BY DEF OwnScope
<1> QED
  BY <1>1, <1>2 DEF Selected

\* What is left of a client's scope is what a delete of that scope selects.
LEMMA SelectedAreFound ==
  ASSUME TypeOK, NEW r \in Request, job[r].op # "turn", NEW s \in Deleting,
         NEW targets \in Targets(r, s)
  PROVE  Selected(r, s) \subseteq w[r].del \cup targets
<1> SUFFICES ASSUME NEW x \in Selected(r, s), x \notin w[r].del PROVE x \in targets
  OBVIOUS
<1>1. job[r] \in Job /\ job[r].op \in {"delete_session", "delete_user"}
  BY StoreAssumption DEF TypeOK, HandlersOK, Job
<1>2. x \in rows /\ x \in Visible(r) /\ x \in RowsOf[s] /\ x \in OfClient(r[1], OwnScope(r))
  BY DEF Selected, OfClient, Visible
<1>3. ASSUME x \in MemoryRow \cup TurnRow
      PROVE  IF job[r].op = "delete_user" THEN job[x[2]].user = job[r].user /\ ScopeOf(job[x[2]]) = OwnScope(r)
                                          ELSE job[x[2]].session = job[r].session
  <2>1. ScopeOf(job[x[2]]) = OwnScope(r)
    BY <1>2, <1>3 DEF OfClient, MemoryRow, TurnRow, EntityRow
  <2> QED
    BY <1>1, <2>1 DEF ScopeOf, OwnScope
<1>4. CASE s = "memories"
  <2>1. x \in MemoryRow /\ targets = DoomedMemories(r)
    BY <1>2, <1>4 DEF RowsOf, Targets
  <2> QED
    BY <1>2, <1>3, <2>1 DEF DoomedMemories, VisibleMemories, KeyOf
<1>5. CASE s = "turns"
  <2>1. x \in TurnRow /\ targets = DoomedTurns(r)
    BY <1>2, <1>5 DEF RowsOf, Targets
  <2> QED
    BY <1>2, <1>3, <2>1 DEF DoomedTurns
<1>6. CASE s = "entities"
  <2>1. x \in EntityRow /\ targets = DoomedEntities(r)
    BY <1>2, <1>6 DEF RowsOf, Targets
  <2>2. x[2] = OwnScope(r)
    BY <1>2, <2>1 DEF OfClient, EntityRow, TurnRow, MemoryRow
  <2> QED
    BY <1>2, <2>1, <2>2 DEF DoomedEntities
<1> QED
  BY <1>4, <1>5, <1>6 DEF Deleting

\* The order of the statements of the two plans.
LEMMA PlansClear ==
  ASSUME NEW r \in Request, job[r].op # "turn", NextStatement(r)
  PROVE  /\ pc[r] \in DOMAIN ClearedBy(r) /\ todo[r] = {}
         /\ \E next : /\ Statement(r, next)
                      /\ next \in DOMAIN ClearedBy(r)
                      /\ ClearedBy(r)[next] \subseteq ClearedBy(r)[pc[r]] \cup ({pc[r]} \cap Deleting)
<1>1. CASE job[r].op = "delete_user"
  <2>1. pc[r] \in DOMAIN UserPlan /\ Statement(r, UserPlan[pc[r]]) /\ todo[r] = {}
    BY <1>1 DEF NextStatement, UserPlan
  <2>2. \A s \in DOMAIN UserPlan :
           /\ s \in DOMAIN UserCleared /\ UserPlan[s] \in DOMAIN UserCleared
           /\ UserCleared[UserPlan[s]] \subseteq UserCleared[s] \cup ({s} \cap Deleting)
    <3>1. /\ DOMAIN UserPlan = {"begin", "entities", "memories", "successors", "turns", "sources"}
          /\ DOMAIN UserCleared = DOMAIN UserPlan \cup {"commit"}
      BY DEF UserPlan, UserCleared
    <3>2. /\ UserPlan["begin"] = "entities" /\ UserPlan["entities"] = "memories"
          /\ UserPlan["memories"] = "successors" /\ UserPlan["successors"] = "turns"
          /\ UserPlan["turns"] = "sources" /\ UserPlan["sources"] = "commit"
      BY DEF UserPlan
    <3>3. /\ UserCleared["entities"] = {}
          /\ UserCleared["memories"] = {"entities"}
          /\ UserCleared["successors"] = {"entities", "memories"}
          /\ UserCleared["turns"] = {"entities", "memories"}
          /\ UserCleared["sources"] = {"memories", "turns", "entities"}
          /\ UserCleared["commit"] = {"memories", "turns", "entities"}
      BY DEF UserCleared, Deleting
    <3>4. ASSUME NEW s \in DOMAIN UserPlan PROVE UserPlan[s] \in DOMAIN UserCleared
      BY <3>1, <3>2
    <3>5. ASSUME NEW s \in DOMAIN UserPlan
          PROVE  UserCleared[UserPlan[s]] \subseteq UserCleared[s] \cup ({s} \cap Deleting)
      <4>1. CASE s \in {"begin", "entities", "memories"}
        BY <3>2, <3>3, <4>1 DEF Deleting
      <4>2. CASE s \in {"successors", "turns", "sources"}
        BY <3>2, <3>3, <4>2 DEF Deleting
      <4> QED
        BY <3>1, <4>1, <4>2
    <3> QED
      BY <3>1, <3>4, <3>5
  <2> QED
    BY <1>1, <2>1, <2>2 DEF ClearedBy
<1>2. CASE job[r].op # "delete_user"
  <2> DEFINE next == IF SessionPlan[pc[r]] # "recompute" THEN SessionPlan[pc[r]]
                     ELSE IF keys[r] = <<>> THEN "commit" ELSE "reset"
  <2>1. pc[r] \in DOMAIN SessionPlan /\ Statement(r, next) /\ todo[r] = {}
    BY <1>2 DEF NextStatement
  <2>2. \A s \in DOMAIN SessionPlan :
           /\ s \in DOMAIN SessionCleared
           /\ SessionPlan[s] # "recompute" =>
                /\ SessionPlan[s] \in DOMAIN SessionCleared
                /\ SessionCleared[SessionPlan[s]] \subseteq SessionCleared[s] \cup ({s} \cap Deleting)
           /\ SessionPlan[s] = "recompute" => Deleting = SessionCleared[s] \cup ({s} \cap Deleting)
    <3>1. /\ DOMAIN SessionPlan = {"affected", "memories", "successors", "turns", "sources",
                                   "entities", "reset", "activate"}
          /\ DOMAIN SessionCleared = DOMAIN SessionPlan \cup {"commit"}
      BY DEF SessionPlan, SessionCleared
    <3>2. /\ SessionPlan["affected"] = "memories" /\ SessionPlan["memories"] = "successors"
          /\ SessionPlan["successors"] = "turns" /\ SessionPlan["turns"] = "sources"
          /\ SessionPlan["sources"] = "entities" /\ SessionPlan["entities"] = "recompute"
          /\ SessionPlan["reset"] = "activate" /\ SessionPlan["activate"] = "recompute"
      BY DEF SessionPlan
    <3>3. /\ SessionCleared["memories"] = {}
          /\ SessionCleared["successors"] = {"memories"}
          /\ SessionCleared["turns"] = {"memories"}
          /\ SessionCleared["sources"] = {"memories", "turns"}
          /\ SessionCleared["entities"] = {"memories", "turns"}
          /\ SessionCleared["reset"] = {"memories", "turns", "entities"}
          /\ SessionCleared["activate"] = {"memories", "turns", "entities"}
      BY DEF SessionCleared, Deleting
    <3>4. ASSUME NEW s \in DOMAIN SessionPlan, SessionPlan[s] # "recompute"
          PROVE  SessionPlan[s] \in DOMAIN SessionCleared
      BY <3>1, <3>2, <3>4
    <3>5. ASSUME NEW s \in DOMAIN SessionPlan, SessionPlan[s] # "recompute"
          PROVE  SessionCleared[SessionPlan[s]] \subseteq SessionCleared[s] \cup ({s} \cap Deleting)
      <4>1. CASE s \in {"affected", "memories", "successors"}
        BY <3>2, <3>3, <4>1 DEF Deleting
      <4>2. CASE s \in {"turns", "sources", "reset"}
        BY <3>2, <3>3, <4>2 DEF Deleting
      <4> QED
        BY <3>1, <3>2, <3>5, <4>1, <4>2
    <3>6. ASSUME NEW s \in DOMAIN SessionPlan, SessionPlan[s] = "recompute"
          PROVE  Deleting = SessionCleared[s] \cup ({s} \cap Deleting)
      <4>1. s = "entities" \/ s = "activate"
        BY <3>1, <3>2, <3>6
      <4> QED
        BY <3>3, <4>1 DEF Deleting
    <3> QED
      BY <3>1, <3>4, <3>5, <3>6
  <2>3. /\ {"commit", "reset"} \subseteq DOMAIN SessionCleared
        /\ SessionCleared["commit"] = Deleting /\ SessionCleared["reset"] = Deleting
    BY DEF SessionCleared
  <2>4. next \in DOMAIN SessionCleared
        /\ SessionCleared[next] \subseteq SessionCleared[pc[r]] \cup ({pc[r]} \cap Deleting)
    BY <2>1, <2>2, <2>3
  <2> QED
    BY <1>2, <2>1, <2>2, <2>4 DEF ClearedBy
<1> QED
  BY <1>1, <1>2

\* While a delete runs, and once it has answered and nothing later was sent, nobody
\* inserts a row of the scope it clears.
LEMMA NobodyInserts ==
  ASSUME NoSharedKeys, TypeOK, WriteInv, SentInv, NEW r \in Request, job[r].op # "turn", pc[r] # "waiting",
         Current(MessageOf(r)), NEW p \in Request, Commit(p)
  PROVE  /\ OfClient(r[1], OwnScope(r))' \subseteq OfClient(r[1], OwnScope(r))
         /\ \A s : Selected(r, s)' \subseteq Selected(r, s)
<1> DEFINE c == r[1]
           scope == OwnScope(r)
<1>1. job' = job
  BY DEF Commit, Close
<1>2. scope' = scope /\ \A x : ScopeOf(job[x[2]])' = ScopeOf(job[x[2]])
  BY <1>1 DEF OwnScope, ScopeOf
<1>3. ASSUME NEW x \in OfClient(c, scope)', x \notin rows PROVE FALSE
  <2>1. /\ x \in rows'
        /\ \/ x \in TurnRow \cup MemoryRow /\ x[2][1] = c /\ ScopeOf(job[x[2]]) = scope
           \/ x \in EntityRow /\ x[2] = scope
    BY <1>1, <1>2, <1>3 DEF OfClient, ScopeOf
  <2>2. job[p].op = "turn" /\ InTransaction(p)
        /\ (x \in MemoryRow => x[2] = p) /\ (x \in TurnRow => x[2] = p)
        /\ (x \in EntityRow => x[2] = ScopeOf(job[p]) /\ cands(p) # <<>>)
    BY <1>3, <2>1, NewRows DEF Turn
  <2>3. p[1] # c
    <3> SUFFICES ASSUME p[1] = c PROVE FALSE
      OBVIOUS
    <3>1. MessageOf(r) = MessageOf(p)
      BY <2>2, RunsLast
    <3> QED
      BY <2>2, <3>1, SameMessage
  <2>4. x \in EntityRow /\ scope = ScopeOf(job[p]) /\ cands(p) # <<>>
    BY <2>1, <2>2, <2>3
  <2>5. 1 \in DOMAIN cands(p)
    <3>1. cands(p) \in Seq(Candidate)
      BY StoreAssumption DEF TypeOK, HandlersOK, Job, cands
    <3> QED
      BY <2>4, <3>1
  <2>6. Memory(p, 1) \in MemoryRow /\ Stated(Memory(p, 1))
    BY <2>5, CandidateNumbers DEF Memory, MemoryRow, Stated
  <2>7. KeyOf(Memory(p, 1)) \in ScopeKey /\ KeyOf(Memory(p, 1))[1] = scope
    BY <2>4, <2>6, Attributes DEF TypeOK, KeyOf, Memory
  <2>8. KeyOf(Memory(p, 1)) \in StatedKeys(job[p])
    BY <2>5 DEF StatedKeys, KeyOf, Cand, Memory, CandidateKey, cands
  <2>9. job[r].op \in {"delete_session", "delete_user"}
    BY StoreAssumption DEF TypeOK, HandlersOK, Job
  <2>10. KeyOf(Memory(p, 1)) \in WipedKeys(job[r])
    BY <2>7, <2>9 DEF WipedKeys, OwnScope
  <2> QED
    BY <2>3, <2>8, <2>10, OthersKeys
<1>4. OfClient(c, scope)' \subseteq OfClient(c, scope)
  BY <1>1, <1>2, <1>3 DEF OfClient, ScopeOf
<1> QED
  BY <1>4 DEF Selected

\* The delete is at the same statement and has deleted at least as much.
LEMMA ClearsStay ==
  ASSUME NEW r \in Request, job' = job, rows' = rows, pc'[r] = pc[r],
         w[r].del \subseteq w'[r].del, Clears(r),
         job[r].op # "turn" /\ pc[r] \in Deleting =>
             Selected(r, pc[r]) \subseteq w'[r].del \cup todo'[r]
  PROVE  Clears(r)'
<1>1. \A s : Selected(r, s)' = Selected(r, s)
  BY OfClientStable
<1>2. ClearedBy(r)' = ClearedBy(r)
  BY DEF ClearedBy, UserCleared, SessionCleared
<1> QED
  BY <1>1, <1>2 DEF Clears

LEMMA ClosedClears ==
  ASSUME NEW r \in Request, pc'[r] \in {"done", "failed"}
  PROVE  Clears(r)'
BY DEF Clears, ClearedBy, UserCleared, SessionCleared, Deleting

\* The steps of the delete itself.
LEMMA DeleteClears ==
  ASSUME TypeOK, WriteInv, NEW r \in Request, job[r].op # "turn", StepOf(r), Clears(r)
  PROVE  Clears(r)'
<1>1. job' = job /\ job[r].op \in {"delete_session", "delete_user"}
  BY OneMoves, StoreAssumption DEF TypeOK, HandlersOK, Job
<1>2. ASSUME NEW o \in {"done", "failed"}, Close(r, o) PROVE Clears(r)'
  <2>1. pc'[r] = o
    BY <1>2 DEF Close, TypeOK, HandlersOK
  <2> QED
    BY <2>1, ClosedClears
<1>3. CASE BeginDeleteSession(r) \/ BeginDeleteUser(r)
  <2>1. pc'[r] = IF job[r].op = "delete_user" THEN "begin" ELSE "affected"
    BY <1>3 DEF BeginDeleteSession, BeginDeleteUser, TypeOK, HandlersOK
  <2>2. UserCleared["begin"] = {} /\ SessionCleared["affected"] = {}
    BY DEF UserCleared, SessionCleared
  <2>3. pc'[r] \notin Deleting /\ ClearedBy(r)'[pc'[r]] = {}
    <3>1. ClearedBy(r)' = IF job[r].op = "delete_user" THEN UserCleared ELSE SessionCleared
      BY <1>1 DEF ClearedBy, UserCleared, SessionCleared
    <3> QED
      BY <2>1, <2>2, <3>1 DEF Deleting
  <2> QED
    BY <2>3 DEF Clears
<1>4. CASE NextStatement(r)
  <2>1. PICK next : /\ Statement(r, next) /\ next \in DOMAIN ClearedBy(r)
                    /\ ClearedBy(r)[next] \subseteq ClearedBy(r)[pc[r]] \cup ({pc[r]} \cap Deleting)
    BY <1>4, PlansClear
  <2>2. pc[r] \in DOMAIN ClearedBy(r) /\ todo[r] = {}
    BY <1>4, PlansClear
  <2>3. PICK targets \in Targets(r, next) : todo' = [todo EXCEPT ![r] = targets]
    BY <2>1 DEF Statement
  <2>4. pc'[r] = next /\ todo'[r] = targets /\ w' = w /\ rows' = rows
    BY <2>1, <2>3 DEF Statement, store, TypeOK, HandlersOK
  <2>5. /\ ClearedBy(r)' = ClearedBy(r) /\ \A s : Selected(r, s)' = Selected(r, s)
    BY <1>1, <2>4, OfClientStable DEF ClearedBy, UserCleared, SessionCleared
  <2>6. \A s \in ClearedBy(r)[next] : Selected(r, s) \subseteq w[r].del
    BY <2>1, <2>2 DEF Clears
  <2>7. next \in Deleting => Selected(r, next) \subseteq w[r].del \cup targets
    BY SelectedAreFound
  <2> QED
    BY <2>4, <2>5, <2>6, <2>7 DEF Clears
<1>5. CASE VisitRow(r)
  <2>1. /\ pc' = pc /\ rows' = rows
        /\ \E x \in todo[r] :
              /\ todo' = [todo EXCEPT ![r] = @ \ {x}]
              /\ w' = IF x \notin Visible(r) THEN w
                      ELSE IF pc[r] \in Deleting THEN [w EXCEPT ![r].del = @ \cup {x}]
                      ELSE IF pc[r] = "reset"
                           THEN [w EXCEPT ![r].off = @ \cup {x}, ![r].on = @ \ {x}]
                      ELSE IF pc[r] = "activate"
                           THEN [w EXCEPT ![r].on = @ \cup {x}, ![r].off = @ \ {x}]
                      ELSE [w EXCEPT ![r].touch = @ \cup {x}]
    BY <1>5 DEF VisitRow, store
  <2>2. PICK x \in todo[r] :
              /\ todo' = [todo EXCEPT ![r] = @ \ {x}]
              /\ w' = IF x \notin Visible(r) THEN w
                      ELSE IF pc[r] \in Deleting THEN [w EXCEPT ![r].del = @ \cup {x}]
                      ELSE IF pc[r] = "reset"
                           THEN [w EXCEPT ![r].off = @ \cup {x}, ![r].on = @ \ {x}]
                      ELSE IF pc[r] = "activate"
                           THEN [w EXCEPT ![r].on = @ \cup {x}, ![r].off = @ \ {x}]
                      ELSE [w EXCEPT ![r].touch = @ \cup {x}]
    BY <2>1
  <2>3. todo'[r] = todo[r] \ {x}
    BY <2>2 DEF TypeOK, HandlersOK
  <2>4. w[r].del \subseteq w'[r].del /\ (pc[r] \in Deleting /\ x \in Visible(r) => x \in w'[r].del)
    BY <2>2 DEF TypeOK, HandlersOK, Writes, Deleting
  <2>5. ASSUME pc[r] \in Deleting PROVE Selected(r, pc[r]) \subseteq w'[r].del \cup todo'[r]
    <3> SUFFICES ASSUME NEW y \in Selected(r, pc[r]) PROVE y \in w'[r].del \cup todo'[r]
      OBVIOUS
    <3>1. y \in w[r].del \cup todo[r] /\ y \in rows
      BY <2>5 DEF Clears, Selected, OfClient
    <3> QED
      BY <2>3, <2>4, <2>5, <3>1 DEF Visible
  <2> QED
    BY <1>1, <2>1, <2>4, <2>5, ClearsStay
<1>6. ~Working(r)
  BY <1>1 DEF WriteInv, Sound
<1>7. ~TurnStep(r) \/ ForeignKeyError(r)
  BY <1>6 DEF TurnStep, BeginTurn, Reconcile, Deactivate, InsertMemory, MentionEntity, LinkSource,
     LinkPeer, CommitTurn, Working
<1> QED
  BY <1>2, <1>3, <1>4, <1>5, <1>7 DEF StepOf, DeleteStep, ForeignKeyError, CommitDelete, Commit,
     Rollback, DeadlockVictim, Fail

\* A step leaves alone what other attempts have written and have to visit.
LEMMA OthersAreKept ==
  ASSUME TypeOK, NEW p \in Request, StepOf(p), NEW r \in Request, r # p
  PROVE  pc'[r] = pc[r] /\ w'[r] = w[r] /\ todo'[r] = todo[r]
<1>1. pc'[r] = pc[r]
  BY OneMoves
<1>2. \A o : Close(p, o) => w'[r] = w[r] /\ todo'[r] = todo[r]
  BY DEF Close, TypeOK, HandlersOK
<1>3. CASE BeginTurn(p) \/ BeginDeleteSession(p) \/ BeginDeleteUser(p)
  BY <1>1, <1>3 DEF BeginTurn, BeginDeleteSession, BeginDeleteUser, control, TypeOK, HandlersOK
<1>4. CASE Reconcile(p) \/ Deactivate(p)
  BY <1>1, <1>4 DEF Reconcile, Deactivate, TypeOK, HandlersOK
<1>5. CASE InsertMemory(p) \/ MentionEntity(p)
  BY <1>1, <1>5 DEF InsertMemory, MentionEntity, TypeOK, HandlersOK
<1>6. CASE LinkSource(p)
  BY <1>1, <1>6 DEF LinkSource, TypeOK, HandlersOK
<1>7. CASE LinkPeer(p)
  BY <1>1, <1>7 DEF LinkPeer, TypeOK, HandlersOK
<1>8. CASE NextStatement(p)
  <2>1. PICK next : Statement(p, next)
    BY <1>8 DEF NextStatement
  <2> QED
    BY <1>1, <2>1 DEF Statement, TypeOK, HandlersOK
<1>9. CASE VisitRow(p)
  BY <1>1, <1>9, VisitRowWrites DEF VisitRow, TypeOK, HandlersOK
<1> QED
  BY <1>1, <1>2, <1>3, <1>4, <1>5, <1>6, <1>7, <1>8, <1>9
  DEF StepOf, TurnStep, DeleteStep, ForeignKeyError, CommitTurn, CommitDelete, Commit, Rollback,
      DeadlockVictim, Fail

\* Whoever answers 201 or 204 commits.
LEMMA AnswersAreCommits ==
  ASSUME TypeOK, NEW p \in Request, StepOf(p), pc'[p] = "done"
  PROVE  Commit(p) /\ pc[p] \in {"edges", "commit"}
<1>1. ~Rollback(p)
  BY DEF Rollback, Close, TypeOK, HandlersOK
<1>2. ~BeginTurn(p) /\ ~BeginDeleteSession(p) /\ ~BeginDeleteUser(p)
  BY DEF BeginTurn, BeginDeleteSession, BeginDeleteUser, TypeOK, HandlersOK
<1>3. ~Reconcile(p)
  BY NextCandidateGoes DEF Reconcile, TypeOK, HandlersOK
<1>4. ~InsertMemory(p) /\ ~MentionEntity(p)
  BY NextEntityGoes DEF InsertMemory, MentionEntity
<1>5. ~Deactivate(p) /\ ~LinkSource(p) /\ ~LinkPeer(p)
  BY DEF Deactivate, LinkSource, LinkPeer
<1>6. ~NextStatement(p)
  <2> SUFFICES ASSUME NextStatement(p) PROVE FALSE
    OBVIOUS
  <2>1. PICK next : Statement(p, next) /\ next \in Deleting \cup Updating \cup {"commit"}
    BY DEF NextStatement, UserPlan, SessionPlan, Deleting, Updating
  <2> QED
    BY <2>1 DEF Statement, Deleting, Updating, TypeOK, HandlersOK
<1>7. ~VisitRow(p)
  BY DEF VisitRow, Deleting, Updating
<1> QED
  BY <1>1, <1>2, <1>3, <1>4, <1>5, <1>6, <1>7
  DEF StepOf, TurnStep, DeleteStep, ForeignKeyError, CommitTurn, CommitDelete, DeadlockVictim, Fail

LEMMA StepClears ==
  ASSUME NoSharedKeys, TypeOK, WriteInv, SentInv, ClearInv, NEW p \in Request, StepOf(p), NEW r \in Request
  PROVE  Clears(r)'
<1>1. job' = job /\ Clears(r)
  BY OneMoves DEF ClearInv
<1>2. CASE job[r].op = "turn"
  BY <1>1, <1>2 DEF Clears
<1>3. CASE job[r].op # "turn" /\ r = p
  BY <1>1, <1>3, DeleteClears
<1>4. CASE job[r].op # "turn" /\ r # p
  <2>1. pc'[r] = pc[r] /\ w'[r] = w[r] /\ todo'[r] = todo[r]
    BY <1>4, OthersAreKept
  <2>2. CASE UNCHANGED store
    BY <1>1, <2>1, <2>2, ClearsStay DEF store, Clears
  <2>3. CASE Commit(p)
    <3>1. CASE ~InTransaction(r)
      <4>1. Clears(r)'
        BY <2>1, <3>1 DEF Clears, InTransaction, Over, ClearedBy, UserCleared, SessionCleared, Deleting
      <4> QED
        BY <4>1
    <3>2. CASE InTransaction(r)
      <4>1. \A s : Selected(r, s)' \subseteq Selected(r, s)
        BY <1>4, <2>3, <3>2, NobodyInserts, RunsLast DEF InTransaction
      <4>2. ClearedBy(r)' = ClearedBy(r)
        BY <1>1 DEF ClearedBy, UserCleared, SessionCleared
      <4> QED
        BY <1>1, <2>1, <4>1, <4>2 DEF Clears
    <3> QED
      BY <3>1, <3>2
  <2> QED
    BY <2>2, <2>3, TablesOrCommit
<1> QED
  BY <1>2, <1>3, <1>4

LEMMA StepCleared ==
  ASSUME NoSharedKeys, TypeOK, WriteInv, SentInv, ClearInv, NEW p \in Request, StepOf(p), NEW r \in Request
  PROVE  Cleared(r)'
<1>1. /\ job' = job /\ ~Over(p) /\ \A q \in Request \ {p} : pc'[q] = pc[q]
  BY OneMoves
<1>2. OwnScope(r)' = OwnScope(r)
  BY <1>1 DEF OwnScope
<1> SUFFICES ASSUME job[r].op # "turn", pc'[r] = "done", Current(MessageOf(r))'
             PROVE  OfClient(r[1], OwnScope(r))' = {}
  BY <1>1, <1>2 DEF Cleared
<1>3. Current(MessageOf(r))
  BY LastStays
<1>4. CASE r # p
  <2>1. pc[r] = "done" /\ OfClient(r[1], OwnScope(r)) = {}
    BY <1>1, <1>3, <1>4 DEF ClearInv, Cleared
  <2>2. CASE UNCHANGED store
    BY <1>1, <1>2, <2>1, <2>2, OfClientStable DEF store
  <2>3. CASE Commit(p)
    BY <1>3, <2>1, <2>3, NobodyInserts
  <2> QED
    BY <2>2, <2>3, TablesOrCommit
<1>5. CASE r = p
  <2>1. ~Working(p) /\ w[p].ins = {}
    BY <1>5 DEF WriteInv, Sound
  <2>2. Commit(p) /\ pc[p] = "commit"
    BY <1>5, <2>1, AnswersAreCommits DEF Working
  <2>3. \A s \in Deleting : Selected(p, s) \subseteq w[p].del
    <3>1. /\ "commit" \in DOMAIN UserCleared /\ UserCleared["commit"] = Deleting
          /\ "commit" \in DOMAIN SessionCleared /\ SessionCleared["commit"] = Deleting
      BY DEF UserCleared, SessionCleared
    <3> QED
      BY <1>5, <2>2, <3>1 DEF ClearInv, Clears, ClearedBy
  <2>4. rows' = rows \ w[p].del
    BY <2>1, <2>2 DEF Commit, Visible
  <2>5. OfClient(r[1], OwnScope(r))' \subseteq OfClient(r[1], OwnScope(r)) \ w[p].del
    BY <1>1, <1>2, <2>4 DEF OfClient, ScopeOf
  <2>6. OfClient(p[1], OwnScope(p)) \subseteq w[p].del
    <3> SUFFICES ASSUME NEW x \in OfClient(p[1], OwnScope(p)) PROVE x \in w[p].del
      OBVIOUS
    <3>1. x \in MemoryRow \/ x \in TurnRow \/ x \in EntityRow
      BY DEF OfClient
    <3>2. RowsOf["memories"] = MemoryRow /\ RowsOf["turns"] = TurnRow /\ RowsOf["entities"] = EntityRow
      BY DEF RowsOf
    <3>3. x \in Selected(p, "memories") \/ x \in Selected(p, "turns") \/ x \in Selected(p, "entities")
      BY <3>1, <3>2 DEF Selected
    <3> QED
      BY <2>3, <3>3 DEF Deleting
  <2> QED
    BY <1>5, <2>5, <2>6
<1> QED
  BY <1>4, <1>5

LEMMA StutterClear ==
  ASSUME ClearInv, UNCHANGED vars
  PROVE  ClearInv'
<1>1. UNCHANGED <<job, pc, todo, w, rows>>
  BY DEF vars, control, store
<1> SUFFICES ASSUME NEW r \in Request PROVE Clears(r)' /\ Cleared(r)'
  BY DEF ClearInv
<1>2. Clears(r)'
  BY <1>1, ClearsStay DEF ClearInv, Clears
<1>3. Current(MessageOf(r))' <=> Current(MessageOf(r))
  BY <1>1 DEF Current, MessageOf, Unsent
<1>4. Cleared(r)'
  BY <1>1, <1>3, OfClientStable DEF ClearInv, Cleared, OwnScope
<1> QED
  BY <1>2, <1>4

LEMMA ClearHolds ==
  ASSUME NoSharedKeys
  PROVE  ClientsSpec => []ClearInv
<1>1. ClientsInit => ClearInv
  <2> SUFFICES ASSUME ClientsInit, NEW r \in Request PROVE Clears(r) /\ Cleared(r)
    BY DEF ClearInv
  <2>1. pc[r] = "waiting"
    BY DEF ClientsInit, Init, StoreInit
  <2> QED
    BY <2>1 DEF Clears, Cleared, ClearedBy, UserCleared, SessionCleared, Deleting
<1>2. ServiceInv /\ SentInv /\ ClearInv /\ [ClientsNext]_vars => ClearInv'
  <2> SUFFICES ASSUME ServiceInv, SentInv, ClearInv, [ClientsNext]_vars PROVE ClearInv'
    OBVIOUS
  <2>1. CASE UNCHANGED vars
    BY <2>1, StutterClear
  <2>2. CASE ClientsNext
    <3>1. PICK p \in Request : StepOf(p)
      BY <2>2, AttemptsAreSteps DEF SentStep
    <3> QED
      BY <3>1, StepClears, StepCleared DEF ServiceInv, ClearInv
  <2> QED
    BY <2>1, <2>2
<1> QED
  BY <1>1, <1>2, ClientsUseTheService, ServiceHolds, SentHolds, PTL DEF ClientsSpec

\* A client deletes when none of its earlier messages is on its way any more.  Once one of
\* the attempts at the delete is answered, and while the client has sent nothing
\* later, no turn, no memory and no entity of the scope is left of what it said,
\* whatever becomes of the other attempts at the delete, and whatever clients do
\* that share no key with it.
THEOREM DeletedIsGone ==
  ASSUME NoSharedKeys
  PROVE  ClientsSpec => []NothingLeftAfterDelete
<1>1. SentInv /\ ClearInv => NothingLeftAfterDelete
  <2> SUFFICES ASSUME SentInv, ClearInv, NEW m \in Heard, Told[m].op # "turn",
                      m[2] < Messages => Unsent(m[1], m[2] + 1, 1)
               PROVE  OfClient(m[1], OwnScope(<<m[1], m[2], 1>>)) = {}
    BY DEF NothingLeftAfterDelete
  <2>1. m \in Message /\ m[1] \in Client /\ m[2] \in 1..Messages
    BY DEF Heard, Message
  <2>2. PICK n \in 1..Tries[m[1]] : pc[<<m[1], m[2], n>>] = "done"
    BY DEF Heard
  <2>3. PICK r \in Request : r = <<m[1], m[2], n>>
    BY <2>1, RequestShape
  <2>4. PICK f \in Request : f = <<m[1], m[2], 1>>
    BY <2>1, RequestShape
  <2>5. job[r] = job[f]
    BY <2>3, <2>4, SameMessage DEF MessageOf
  <2>6. job[r].op # "turn" /\ OwnScope(r) = OwnScope(f)
    BY <2>1, <2>4, <2>5 DEF Told, OwnScope
  <2>7. pc[r] = "done" /\ Current(MessageOf(r))
    BY <2>2, <2>3 DEF Current, MessageOf
  <2>8. OfClient(r[1], OwnScope(r)) = {}
    BY <2>6, <2>7 DEF ClearInv, Cleared
  <2> QED
    BY <2>3, <2>4, <2>6, <2>8
<1> QED
  <2>1. ClientsSpec => []ClearInv
    BY ClearHolds
  <2> QED
    BY <1>1, <2>1, SentHolds, PTL


----------------------------------------------------------------------------
\* The board, as clients that retry see it: turns only.

\* What stating a job's candidates in order makes of a board: each of them is on it in the
\* end, for they are under keys of their own, nothing else changes, and where all
\* were on it before nothing changes at all.
LEMMA AfterTelling ==
  ASSUME StatesOnce, NEW j \in Jobs, NEW B \in AllBoards, NEW b \in After(B, j)[Len(j.cands)]
  PROVE  /\ \A i \in 1..Len(j.cands) : j.cands[i].object \in b[CandidateKey(j, j.cands[i])]
         /\ \A k \in ScopeKey \ StatedKeys(j) : b[k] = B[k]
         /\ (\A i \in 1..Len(j.cands) : j.cands[i].object \in B[CandidateKey(j, j.cands[i])]) => b = B
<1> DEFINE N == Len(j.cands)
           key(i) == CandidateKey(j, j.cands[i])
           A == After(B, j)
           Good(f, n) == /\ f \in AllBoards
                         /\ \A i \in 1..n : j.cands[i].object \in f[key(i)]
                         /\ \A k \in ScopeKey \ StatedKeys(j) : f[k] = B[k]
                         /\ (\A i \in 1..N : j.cands[i].object \in B[key(i)]) => f = B
           S == {n \in Nat : n <= N => \A f \in A[n] : Good(f, n)}
<1>1. N \in Nat /\ DOMAIN j.cands = 1..N /\ \A i \in 1..N : j.cands[i] \in Candidate
  BY StoreAssumption DEF Job
<1>2. \A i \in 1..N : key(i) \in ScopeKey /\ key(i) \in StatedKeys(j)
  <2>1. ScopeOf(j) \in Scope
    BY StoreAssumption DEF Job, ScopeOf, Scope
  <2> QED
    BY <1>1, <2>1 DEF CandidateKey, ScopeKey, Candidate, StatedKeys
<1>3. \A i, l \in 1..N : key(i) = key(l) => i = l
  BY <1>1 DEF StatesOnce
<1>4. A[0] = {B} /\ \A n \in 1..N : A[n] = Stating(A[n - 1], j, j.cands[n])
  BY AfterUnfolds
<1> HIDE DEF key, A, N
<1>5. 0 \in S
  BY <1>1, <1>4
<1>6. ASSUME NEW n \in Nat, n \in S PROVE n + 1 \in S
  <2> SUFFICES ASSUME n + 1 <= N, NEW f \in A[n + 1] PROVE Good(f, n + 1)
    OBVIOUS
  <2>1. n + 1 \in 1..N /\ A[n + 1] = Stating(A[n], j, j.cands[n + 1])
    BY <1>1, <1>4
  <2>2. PICK g \in A[n] : f \in Board!Outcomes(g, j, j.cands[n + 1])
    BY <2>1 DEF Stating
  <2>3. Good(g, n)
    <3>1. n <= N
      BY <1>1, <1>6
    <3> QED
      BY <1>6, <2>2, <3>1
  <2> DEFINE c == j.cands[n + 1]
             k == key(n + 1)
  <2>4. PICK F \in Board!Told(g[k], c) : f = [g EXCEPT ![k] = F]
    BY <2>2 DEF Board!Outcomes, key
  <2>5. /\ c.object \in F /\ F \subseteq g[k] \cup {c.object}
        /\ c.object \in g[k] => F = g[k]
    BY <2>4 DEF Board!Told
  <2>6. k \in ScopeKey /\ k \in StatedKeys(j) /\ c \in Candidate /\ \A i \in 1..n : key(i) # k /\ key(i) \in ScopeKey
    <3>1. \A i \in 1..n : i \in 1..N /\ i # n + 1
      BY <1>1, <2>1
    <3> QED
      BY <1>1, <1>2, <1>3, <2>1, <3>1
  <2> HIDE DEF k, c
  <2>7. f \in AllBoards
    BY <2>3, <2>4, <2>5, <2>6 DEF AllBoards, Candidate
  <2>8. f[k] = F /\ \A l \in ScopeKey : l # k => f[l] = g[l]
    BY <2>3, <2>4, <2>6 DEF AllBoards
  <2>9. \A i \in 1..(n + 1) : j.cands[i].object \in f[key(i)]
    <3>1. \A i \in 1..n : j.cands[i].object \in f[key(i)]
      BY <2>3, <2>6, <2>8
    <3>2. j.cands[n + 1].object \in f[key(n + 1)]
      BY <2>5, <2>8 DEF k, c
    <3> QED
      BY <3>1, <3>2
  <2>10. \A l \in ScopeKey \ StatedKeys(j) : f[l] = B[l]
    BY <2>3, <2>6, <2>8
  <2>11. ASSUME \A i \in 1..N : j.cands[i].object \in B[key(i)] PROVE f = B
    <3>1. g = B
      BY <2>3, <2>11
    <3>2. c.object \in g[k]
      BY <2>1, <2>11, <3>1 DEF c, k
    <3> QED
      BY <2>3, <2>4, <2>5, <3>1, <3>2 DEF AllBoards
  <2> QED
    BY <2>7, <2>9, <2>10, <2>11
<1>7. N \in S
  <2> HIDE DEF S
  <2> QED
    BY <1>1, <1>5, <1>6, Induct
<1>8. Good(b, N)
  BY <1>1, <1>7 DEF A, N
<1> QED
  BY <1>8 DEF N, key

\* What a client's last message stated is on the board once it was heard.
StillTold(r) ==
    pc[r] = "done" /\ Current(MessageOf(r)) =>
        \A i \in 1..Len(cands(r)) : cands(r)[i].object \in ActiveFacts[CandidateKey(job[r], cands(r)[i])]

ToldInv == \A r \in Request : StillTold(r)

\* A step of an attempt is heard, at its commit, or changes nothing on the board.
LEMMA StepOnBoard ==
  ASSUME Settled, BoardInv, NEW p \in Request, StepOf(p)
  PROVE  \/ /\ InTransaction(p) /\ job' = job /\ Answered' = Answered \cup {p}
            /\ ActiveFacts' \in After(ActiveFacts, job[p])[Len(cands(p))]
         \/ UNCHANGED <<job, ActiveFacts, Answered>>
<1>1. TypeOK /\ job[p].op = "turn" /\ pc[p] # "commit"
  BY DEF Settled, Ground, OnlyTurns, HistoryInv, Orderly, Parted
<1>2. CASE Commit(p) /\ pc[p] = "edges"
  <2>1. Board!Hear(p)
    BY <1>2, CommitHears
  <2>2. Board!Wipe(ActiveFacts, job[p]) = ActiveFacts
    BY <1>1 DEF Board!Wipe, WipedKeys, ActiveFacts
  <2> QED
    BY <1>2, <2>1, <2>2, BoardsAreAfter DEF Board!Hear, InTransaction, Over, cands
<1>3. CASE ~(Commit(p) /\ pc[p] = "edges")
  <2>1. UNCHANGED store /\ pc'[p] # "done"
    BY <1>1, <1>3, TablesOrCommit, AnswersAreCommits
  <2>2. /\ job' = job /\ pc[p] # "done" /\ \A q \in Request \ {p} : pc'[q] = pc[q]
    BY <1>1, OneMoves DEF Over
  <2> QED
    BY <1>1, <2>1, <2>2, OthersStutter
<1> QED
  BY <1>2, <1>3

\* The key of a candidate is a scope key.
LEMMA StatedIsKey ==
  ASSUME TypeOK, NEW r \in Request, NEW i \in 1..Len(cands(r))
  PROVE  CandidateKey(job[r], cands(r)[i]) \in ScopeKey \cap StatedKeys(job[r])
<1>1. i \in DOMAIN cands(r) /\ i \in Nat
  BY CandidateNumbers
<1>2. Memory(r, i) \in MemoryRow /\ Stated(Memory(r, i))
  BY <1>1 DEF Memory, MemoryRow, Stated
<1>3. KeyOf(Memory(r, i)) \in ScopeKey
  BY <1>2, Attributes DEF TypeOK
<1> QED
  BY <1>1, <1>3 DEF StatedKeys, KeyOf, Cand, Memory, CandidateKey, cands

LEMMA StepTold ==
  ASSUME StatesOnce, NoSharedKeys, Settled, BoardInv, SentInv, ToldInv, NEW p \in Request, StepOf(p), NEW r \in Request
  PROVE  StillTold(r)'
<1>1. TypeOK
  BY DEF Settled, Ground
<1>2. job' = job /\ ~Over(p) /\ \A q \in Request \ {p} : pc'[q] = pc[q]
  BY <1>1, OneMoves
<1> SUFFICES ASSUME pc'[r] = "done", Current(MessageOf(r))', NEW i \in 1..Len(cands(r))
             PROVE  cands(r)[i].object \in ActiveFacts'[CandidateKey(job[r], cands(r)[i])]
  BY <1>2 DEF StillTold, MessageOf, cands
<1>3. Current(MessageOf(r))
  BY <1>1, LastStays
<1>4. CASE UNCHANGED <<job, ActiveFacts, Answered>>
  <2>1. pc[r] = "done"
    BY <1>4 DEF Answered
  <2> QED
    BY <1>3, <1>4, <2>1 DEF ToldInv, StillTold
<1>5. CASE InTransaction(p) /\ ActiveFacts' \in After(ActiveFacts, job[p])[Len(cands(p))]
  <2> DEFINE j == job[p]
  <2>1. ActiveFacts' \in After(ActiveFacts, j)[Len(j.cands)]
    BY <1>5 DEF cands
  <2>2. j \in Jobs /\ ActiveFacts \in AllBoards /\ job[r] \in Jobs
    BY <1>1, BoardFacts DEF TypeOK, HandlersOK
  <2>3. CASE job[r] = job[p]
    BY <2>1, <2>2, <2>3, AfterTelling DEF cands
  <2>4. CASE job[r] # job[p]
    <3>1. r # p /\ pc[r] = "done"
      BY <1>2, <2>4
    <3>2. r[1] # p[1]
      BY <1>3, <1>5, <2>4, <3>1, RunsLast, SameMessage
    <3> DEFINE k == CandidateKey(job[r], cands(r)[i])
    <3>3. k \in ScopeKey /\ k \in StatedKeys(job[r])
      BY <1>1, StatedIsKey
    <3>4. k \notin StatedKeys(j)
      BY <3>2, <3>3, OthersKeys
    <3>5. ActiveFacts'[k] = ActiveFacts[k]
      BY <2>1, <2>2, <3>3, <3>4, AfterTelling
    <3> QED
      BY <1>3, <3>1, <3>5 DEF ToldInv, StillTold
  <2> QED
    BY <2>3, <2>4
<1> QED
  BY <1>4, <1>5, StepOnBoard


\* An attempt is answered: the first of its message to be is the message heard, any
\* other changes nothing on the board.
LEMMA AnswerIsHeard ==
  ASSUME StatesOnce, Settled, BoardInv, SentInv, ToldInv, NEW p \in Request, StepOf(p), InTransaction(p),
         Answered' = Answered \cup {p},
         ActiveFacts' \in After(ActiveFacts, job[p])[Len(cands(p))]
  PROVE  \/ Talk!Hear(MessageOf(p))
         \/ UNCHANGED <<Told, ActiveFacts, Heard>>
<1> DEFINE m == MessageOf(p)
<1>1. TypeOK /\ job[p].op = "turn"
  BY DEF Settled, Ground, OnlyTurns
<1>2. job' = job /\ ~Over(p) /\ \A q \in Request \ {p} : pc'[q] = pc[q]
  BY <1>1, OneMoves
<1>3. Told' = Told
  BY <1>2 DEF Told
<1>4. /\ p = <<m[1], m[2], p[3]>> /\ m = <<m[1], m[2]>>
      /\ m[1] \in Client /\ m[2] \in 1..Messages /\ m \in Message /\ p[3] \in 1..Tries[m[1]]
  BY RequestShape DEF MessageOf, Message
<1>5. Told[m] = job[p]
  <2>1. <<m[1], m[2], 1>> \in Request
    BY <1>4, RequestShape
  <2>2. PICK f \in Request : f = <<m[1], m[2], 1>>
    BY <2>1
  <2>3. MessageOf(f) = MessageOf(p)
    BY <2>2 DEF MessageOf
  <2> QED
    BY <1>4, <2>2, <2>3, SameMessage DEF Told
<1>6. Heard' = Heard \cup {m}
  <2>1. pc'[p] = "done"
    <3>1. p \in Answered'
      OBVIOUS
    <3> QED
      BY <3>1 DEF Answered
  <2>2. ASSUME NEW x \in Message, NEW n \in 1..Tries[x[1]]
        PROVE  pc'[<<x[1], x[2], n>>] = "done" <=> (pc[<<x[1], x[2], n>>] = "done" \/ <<x[1], x[2], n>> = p)
    <3>1. <<x[1], x[2], n>> \in Request
      BY RequestShape DEF Message
    <3>2. pc[p] # "done"
      BY <1>2 DEF Over
    <3> QED
      BY <1>2, <2>1, <3>1, <3>2
  <2>3. ASSUME NEW x \in Message PROVE x \in Heard' <=> x \in Heard \/ x = m
    <3>1. x = <<x[1], x[2]>>
      BY DEF Message
    <3>2. x \in Heard' <=> \E n \in 1..Tries[x[1]] : pc'[<<x[1], x[2], n>>] = "done"
      BY DEF Heard
    <3>3. x \in Heard <=> \E n \in 1..Tries[x[1]] : pc[<<x[1], x[2], n>>] = "done"
      BY DEF Heard
    <3>4. x = m <=> \E n \in 1..Tries[x[1]] : <<x[1], x[2], n>> = p
      BY <1>4, <3>1
    <3> QED
      BY <2>2, <3>2, <3>3, <3>4
  <2>4. Heard \subseteq Message /\ Heard' \subseteq Message
    BY DEF Heard
  <2> QED
    BY <1>4, <2>3, <2>4
<1>7. CASE m \notin Heard
  <2>1. Talk!Wipe(ActiveFacts, Told[m]) = ActiveFacts
    BY <1>1, <1>5 DEF Talk!Wipe, WipedKeys, ActiveFacts
  <2>2. Talk!Boards(ActiveFacts, job[p]) = Board!Boards(ActiveFacts, job[p])
    BY DEF Talk!Boards, Board!Boards, Talk!Outcomes, Board!Outcomes, Talk!Told, Board!Told
  <2>3. ActiveFacts' \in Talk!Boards(Talk!Wipe(ActiveFacts, Told[m]), Told[m])
    BY <1>5, <2>1, <2>2, BoardsAreAfter DEF cands
  <2> QED
    BY <1>3, <1>6, <1>7, <2>3 DEF Talk!Hear
<1>8. CASE m \in Heard
  <2>1. PICK n \in 1..Tries[m[1]] : pc[<<m[1], m[2], n>>] = "done"
    BY <1>8 DEF Heard
  <2>2. PICK r \in Request : r = <<m[1], m[2], n>>
    BY <1>4, RequestShape
  <2>3. MessageOf(r) = m /\ pc[r] = "done"
    BY <1>4, <2>1, <2>2 DEF MessageOf
  <2>4. job[r] = job[p]
    BY <2>3, SameMessage
  <2>5. Current(MessageOf(r))
    BY <2>3, RunsLast
  <2> DEFINE j == job[p]
  <2>6. \A i \in 1..Len(j.cands) : j.cands[i].object \in ActiveFacts[CandidateKey(j, j.cands[i])]
    BY <2>3, <2>4, <2>5 DEF ToldInv, StillTold, cands
  <2>7. j \in Jobs /\ ActiveFacts \in AllBoards
    BY <1>1, BoardFacts DEF TypeOK, HandlersOK
  <2>8. ActiveFacts' \in After(ActiveFacts, j)[Len(j.cands)]
    BY DEF cands
  <2>9. ActiveFacts' = ActiveFacts
    BY <2>6, <2>7, <2>8, AfterTelling
  <2> QED
    BY <1>3, <1>6, <1>8, <2>9
<1> QED
  BY <1>7, <1>8

LEMMA StepOnTalk ==
  ASSUME StatesOnce, NoSharedKeys, Settled, BoardInv, SentInv, ToldInv, [ClientsNext]_vars
  PROVE  ToldInv' /\ BoardInv' /\ [Talk!Next]_<<Told, ActiveFacts, Heard>>
<1>1. [Next]_vars
  BY AttemptsAreSteps
<1>2. BoardInv'
  BY <1>1, NextOnBoard
<1>3. CASE UNCHANGED vars
  <2>1. UNCHANGED <<job, pc, rows, active>>
    BY <1>3 DEF vars, control, store
  <2>2. UNCHANGED <<Told, Heard>>
    BY <2>1 DEF Told, Heard
  <2>3. [Board!Next]_<<job, ActiveFacts, Answered>>
    BY <1>1, NextOnBoard
  <2>4. ActiveFacts' = ActiveFacts
    <3>1. Answered' = Answered
      BY <2>1 DEF Answered
    <3>2. ~Board!Next
      BY <3>1 DEF Board!Next, Board!Hear
    <3> QED
      BY <2>3, <3>2
  <2>5. ToldInv'
    BY <2>1, <2>4 DEF ToldInv, StillTold, Current, MessageOf, Unsent, cands
  <2> QED
    BY <1>2, <2>2, <2>4, <2>5
<1>4. CASE ClientsNext
  <2>1. PICK p \in Request : StepOf(p)
    BY <1>4, AttemptsAreSteps DEF SentStep
  <2>2. ToldInv'
    BY <2>1, StepTold DEF ToldInv
  <2>3. CASE UNCHANGED <<job, ActiveFacts, Answered>>
    <3>1. \A x \in Message : \A n \in 1..Tries[x[1]] :
             pc'[<<x[1], x[2], n>>] = "done" <=> pc[<<x[1], x[2], n>>] = "done"
      BY <2>3, RequestShape DEF Answered, Message
    <3>2. Told' = Told /\ Heard' = Heard
      BY <2>3, <3>1 DEF Told, Heard
    <3> QED
      BY <1>2, <2>2, <2>3, <3>2
  <2>4. CASE /\ InTransaction(p) /\ Answered' = Answered \cup {p}
             /\ ActiveFacts' \in After(ActiveFacts, job[p])[Len(cands(p))]
    <3>1. MessageOf(p) \in Message
      BY RequestShape DEF MessageOf, Message
    <3> QED
      BY <1>2, <2>1, <2>2, <2>4, <3>1, AnswerIsHeard DEF Talk!Next
  <2> QED
    BY <2>1, <2>3, <2>4, StepOnBoard
<1> QED
  BY <1>3, <1>4

\* Clients that only post turns, each stating a key once and no two the same key, send a
\* message again while it is their last, one attempt beside another, and the next
\* one when all of these are over.  To them ingestion is still a board on which a
\* message is heard at once, in full and only once: a retry of what was heard
\* changes nothing.
THEOREM RetriesImplementBoard ==
  ASSUME StatesOnce, NoSharedKeys, \A j \in Jobs : j.op = "turn"
  PROVE  ClientsSpec => TalkSpec
<1>1. ClientsInit => Talk!Init /\ BoardInv /\ ToldInv
  <2> SUFFICES ASSUME ClientsInit PROVE Talk!Init /\ BoardInv /\ ToldInv
    OBVIOUS
  <2>1. Init
    BY DEF ClientsInit
  <2>2. BoardInv
    BY <2>1 DEF Init, StoreInit, BoardInv, Confined, Replays, Working
  <2>3. \A r \in Request : pc[r] = "waiting" /\ job[r] \in Jobs
    BY <2>1 DEF Init, StoreInit
  <2>4. ToldInv
    BY <2>3 DEF ToldInv, StillTold
  <2>5. \A x \in Message : <<x[1], x[2], 1>> \in Request /\ \A n \in 1..Tries[x[1]] : <<x[1], x[2], n>> \in Request
    BY RequestShape DEF Message
  <2>6. Heard = {} /\ Told \in [Message -> Jobs]
    BY <2>3, <2>5 DEF Heard, Told
  <2>7. ActiveFacts = [k \in ScopeKey |-> {}]
    BY <2>1 DEF Init, StoreInit, ActiveFacts
  <2> QED
    BY <2>2, <2>4, <2>6, <2>7 DEF Talk!Init
<1>2. Settled /\ BoardInv /\ SentInv /\ ToldInv /\ [ClientsNext]_vars
        => ToldInv' /\ BoardInv' /\ [Talk!Next]_<<Told, ActiveFacts, Heard>>
  BY StepOnTalk
<1>3. Spec => []Settled
  BY SettledHolds
<1> QED
  BY <1>1, <1>2, <1>3, ClientsUseTheService, SentHolds, PTL DEF ClientsSpec, TalkSpec, Talk!Spec
=============================================================================
