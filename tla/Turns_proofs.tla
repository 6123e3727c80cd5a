---------------------------- MODULE Turns_proofs ----------------------------
(***************************************************************************)
(* Turns alone, in any number and interleaving: no fact is lost, turns     *)
(* implement the board of facts, and turns that take what they need in one *)
(* order never wait in a circle.                                           *)
(***************************************************************************)
EXTENDS History_proofs, Induction

----------------------------------------------------------------------------
\* Turns alone lose no fact.

SameFact(x, m) == KeyOf(x) = KeyOf(m) /\ Cand(x).object = Cand(m).object

\* The candidates a turn is done with.
Processed(r) ==
    {i \in DOMAIN cands(r) : \/ pc[r] = "edges"
                             \/ pc[r] = "mentions" /\ i <= at[r]
                             \/ pc[r] \in {"reconcile", "apply"} /\ i < at[r]}

\* Every candidate a turn is done with is on record in what it sees, in its own row
\* or in one that made it a skip.
Kept(r) ==
    /\ \A q \in Request : Turn(q) \in w[r].ins => q = r
    /\ \A i \in Processed(r) : \E x \in VisibleMemories(r) : SameFact(x, Memory(r, i))

FactsInv == StoredTurnHasItsFacts /\ \A r \in Request : Kept(r)

\* A turn sees more rows only.
LEMMA FactStable ==
  ASSUME job' = job
  PROVE  \A x, y : SameFact(x, y)' <=> SameFact(x, y)
BY RowStable DEF SameFact

LEMMA CandidateNumbers ==
  ASSUME TypeOK, NEW r \in Request
  PROVE  DOMAIN cands(r) = 1..Len(cands(r)) /\ Len(cands(r)) \in Nat /\ at[r] \in Nat
BY StoreAssumption DEF TypeOK, HandlersOK, Job, cands

LEMMA LocalFacts ==
  ASSUME FactsInv, NEW r \in Request, job' = job, UNCHANGED store, OthersKept(r), Kept(r)'
  PROVE  FactsInv'
<1>1. StoredTurnHasItsFacts'
  BY RowStable DEF FactsInv, StoredTurnHasItsFacts, OnRecord, Memories, store, cands, Memory, Turn
<1>2. ASSUME NEW q \in Request \ {r} PROVE Kept(q)'
  <2>1. Kept(q) /\ pc'[q] = pc[q] /\ at'[q] = at[q] /\ w'[q] = w[q]
    BY DEF FactsInv, OthersKept
  <2>2. VisibleMemories(q)' = VisibleMemories(q) /\ Processed(q)' = Processed(q)
    BY <2>1 DEF VisibleMemories, Visible, Processed, store, cands
  <2> QED
    BY <2>1, <2>2, FactStable DEF Kept, Turn, Memory
<1> QED
  BY <1>1, <1>2 DEF FactsInv

\* A step that is done with no further candidate.
LEMMA QuietFacts ==
  ASSUME FactsInv, NEW r \in Request, job' = job, UNCHANGED store, OthersKept(r),
         w[r].ins \subseteq w'[r].ins, w'[r].del = w[r].del,
         \A q \in Request : Turn(q) \in w'[r].ins => q = r,
         Processed(r)' \subseteq Processed(r)
  PROVE  FactsInv'
<1>1. Kept(r)
  BY DEF FactsInv
<1>2. VisibleMemories(r) \subseteq VisibleMemories(r)'
  BY DEF VisibleMemories, Visible, store
<1>3. Kept(r)'
  BY <1>1, <1>2, FactStable DEF Kept, Turn, Memory
<1> QED
  BY <1>3, LocalFacts

\* A step that is done with the candidate at hand, which is on record then.
LEMMA DoneFacts ==
  ASSUME FactsInv, NEW r \in Request, job' = job, UNCHANGED store, OthersKept(r),
         w[r].ins \subseteq w'[r].ins, w'[r].del = w[r].del,
         \A q \in Request : Turn(q) \in w'[r].ins => q = r,
         Processed(r)' \subseteq Processed(r) \cup {at[r]},
         \E x \in VisibleMemories(r)' : SameFact(x, ThisMemory(r))
  PROVE  FactsInv'
<1>1. Kept(r)
  BY DEF FactsInv
<1>2. VisibleMemories(r) \subseteq VisibleMemories(r)'
  BY DEF VisibleMemories, Visible, store
<1>3. Kept(r)'
  BY <1>1, <1>2, FactStable DEF Kept, Turn, Memory, ThisMemory
<1> QED
  BY <1>3, LocalFacts

\* Where the loop over the candidates goes, it is done with those before.
LEMMA LoopProcessed ==
  ASSUME TypeOK, NEW r \in Request, NextCandidate(r), job' = job, at[r] \in 1..Len(cands(r))
  PROVE  Processed(r)' \subseteq {i \in DOMAIN cands(r) : i <= at[r]}
<1>1. DOMAIN cands(r) = 1..Len(cands(r)) /\ Len(cands(r)) \in Nat /\ at[r] \in Nat
  BY CandidateNumbers
<1>2. CASE at[r] < Len(cands(r))
  BY <1>1, <1>2 DEF NextCandidate, Processed, cands, TypeOK, HandlersOK
<1>3. CASE ~(at[r] < Len(cands(r)))
  BY <1>1, <1>3 DEF NextCandidate, Processed, cands, TypeOK, HandlersOK
<1> QED
  BY <1>2, <1>3

LEMMA BeginTurnFacts ==
  ASSUME TypeOK, FactsInv, NEW r \in Request, w[r] = NoWrites, BeginTurn(r)
  PROVE  FactsInv'
<1>1. /\ UNCHANGED <<job, store>> /\ at'[r] = 1
      /\ pc'[r] = IF cands(r) = <<>> THEN "edges" ELSE "reconcile"
      /\ w'[r] = [w[r] EXCEPT !.ins = {Turn(r)}]
  BY DEF BeginTurn, Open, TypeOK, HandlersOK
<1>2. OthersKept(r)
  BY DEF BeginTurn, OthersKept, TypeOK, HandlersOK
<1>3. w'[r].ins = {Turn(r)} /\ w'[r].del = w[r].del /\ w[r].ins = {}
  BY <1>1 DEF NoWrites
<1>4. \A q \in Request : Turn(q) \in w'[r].ins => q = r
  BY <1>3 DEF Turn
<1>5. Processed(r)' = {}
  <2>1. DOMAIN cands(r) = 1..Len(cands(r)) /\ Len(cands(r)) \in Nat
    BY CandidateNumbers
  <2>2. cands(r) = <<>> => DOMAIN cands(r) = {}
    BY <2>1
  <2> QED
    BY <1>1, <2>1, <2>2 DEF Processed, cands
<1> QED
  BY <1>1, <1>2, <1>3, <1>4, <1>5, QuietFacts

\* Nothing is inserted only where the fact is there already.
LEMMA SkipHasFact ==
  ASSUME NEW c, NEW S, NEW d \in Decisions(c, S), ~d.insert
  PROVE  \E x \in S : Cand(x).object = c.object
<1> SUFFICES ASSUME ~\E x \in S : Cand(x).object = c.object PROVE FALSE
  OBVIOUS
<1>1. PICK gone \in Replaced(c, S) : \E head \in Heads(gone) : d = Insert(head, gone)
  BY DEF Decisions
<1> QED
  BY <1>1 DEF Insert

LEMMA ReconcileFacts ==
  ASSUME TypeOK, FactsInv, NEW r \in Request, Reconcile(r)
  PROVE  FactsInv'
<1> DEFINE m == ThisMemory(r)
           S == Rivals(r, KeyOf(m))
<1>1. /\ UNCHANGED <<job, w, store>> /\ pc[r] = "reconcile"
      /\ locks' = [locks EXCEPT ![r] = @ \cup {Hash(KeyOf(m))}]
  BY DEF Reconcile
<1>2. PICK d \in Decisions(Cand(m), S) :
         /\ todo' = [todo EXCEPT ![r] = d.deactivate]
         /\ sup' = [sup EXCEPT ![r] = d.supersedes]
         /\ IF d.insert
            THEN pc' = [pc EXCEPT ![r] = "apply"] /\ UNCHANGED at
            ELSE NextCandidate(r)
  BY DEF Reconcile
<1>3. \A q \in Request \ {r} : pc'[q] = pc[q] /\ at'[q] = at[q]
  BY <1>2, NextCandidateGoes DEF TypeOK, HandlersOK
<1>4. OthersKept(r)
  BY <1>1, <1>2, <1>3 DEF OthersKept, TypeOK, HandlersOK
<1>5. \A q \in Request : Turn(q) \in w'[r].ins => q = r
  BY <1>1 DEF FactsInv, Kept
<1>6. CASE d.insert
  <2>1. pc'[r] = "apply" /\ at' = at
    BY <1>2, <1>6 DEF TypeOK, HandlersOK
  <2>2. Processed(r)' \subseteq Processed(r)
    BY <1>1, <2>1 DEF Processed, cands
  <2> QED
    BY <1>1, <1>4, <1>5, <2>2, QuietFacts
<1>7. CASE ~d.insert
  <2>1. at[r] \in 1..Len(cands(r))
    BY <1>1 DEF TypeOK, Placed
  <2>2. Processed(r)' \subseteq {i \in DOMAIN cands(r) : i <= at[r]}
    BY <1>1, <1>2, <1>7, <2>1, LoopProcessed
  <2>3. Processed(r)' \subseteq Processed(r) \cup {at[r]}
    BY <1>1, <2>1, <2>2, CandidateNumbers DEF Processed
  <2>4. PICK x \in S : Cand(x).object = Cand(m).object
    BY <1>2, <1>7, SkipHasFact
  <2>5. x \in VisibleMemories(r) /\ SameFact(x, m)
    BY <2>4, SeenRows DEF Rivals, VisibleMemories, SameFact
  <2>6. \E y \in VisibleMemories(r)' : SameFact(y, m)
    BY <1>1, <2>5 DEF VisibleMemories, Visible, store
  <2> QED
    BY <1>1, <1>4, <1>5, <2>3, <2>6, DoneFacts
<1> QED
  BY <1>6, <1>7

LEMMA InsertMemoryFacts ==
  ASSUME TypeOK, FactsInv, NEW r \in Request, w[r].del = {}, InsertMemory(r)
  PROVE  FactsInv'
<1> DEFINE m == ThisMemory(r)
<1>1. UNCHANGED <<job, todo, locks, store>> /\ pc[r] = "apply" /\ sup' = [sup EXCEPT ![r] = {}]
  BY DEF InsertMemory
<1>2. /\ w'[r].ins = w[r].ins \cup {m} /\ w'[r].del = w[r].del
      /\ \A q \in Request \ {r} : w'[q] = w[q]
  BY DEF InsertMemory, TypeOK, HandlersOK, Writes
<1>3. \A q \in Request \ {r} : pc'[q] = pc[q] /\ at'[q] = at[q]
  BY NextEntityGoes DEF InsertMemory
<1>4. OthersKept(r)
  BY <1>1, <1>2, <1>3 DEF OthersKept, TypeOK, HandlersOK
<1>5. at[r] \in 1..Len(cands(r))
  BY <1>1 DEF TypeOK, Placed
<1>6. m \in MemoryRow
  BY <1>5, ThisMemoryStated
<1>7. \A q \in Request : Turn(q) \in w'[r].ins => q = r
  BY <1>2, <1>6, OwnRows DEF FactsInv, Kept
<1>8. Processed(r)' \subseteq {i \in DOMAIN cands(r) : i <= at[r]}
  <2>1. CASE Cand(m).entities = <<>>
    BY <1>1, <1>5, <2>1, LoopProcessed DEF InsertMemory, NextEntity
  <2>2. CASE Cand(m).entities # <<>>
    BY <1>1, <2>2 DEF InsertMemory, NextEntity, Processed, cands, TypeOK, HandlersOK
  <2> QED
    BY <2>1, <2>2
<1>9. Processed(r)' \subseteq Processed(r) \cup {at[r]}
  BY <1>1, <1>5, <1>8, CandidateNumbers DEF Processed
<1>10. m \in VisibleMemories(r)' /\ SameFact(m, m)
  BY <1>2, <1>6 DEF VisibleMemories, Visible, SameFact
<1> QED
  BY <1>1, <1>2, <1>4, <1>7, <1>9, <1>10, DoneFacts

LEMMA MentionEntityFacts ==
  ASSUME TypeOK, FactsInv, NEW r \in Request, MentionEntity(r)
  PROVE  FactsInv'
<1> DEFINE e == ThisEntity(r)
<1>1. UNCHANGED <<job, todo, sup, locks, store>> /\ pc[r] = "mentions"
  BY DEF MentionEntity
<1>2. /\ w[r].ins \subseteq w'[r].ins /\ w'[r].ins \subseteq w[r].ins \cup {e}
      /\ w'[r].del = w[r].del
      /\ \A q \in Request \ {r} : w'[q] = w[q]
  BY DEF MentionEntity, TypeOK, HandlersOK, Writes
<1>3. \A q \in Request \ {r} : pc'[q] = pc[q] /\ at'[q] = at[q]
  BY NextEntityGoes DEF MentionEntity
<1>4. OthersKept(r)
  BY <1>1, <1>2, <1>3 DEF OthersKept
<1>5. \A q \in Request : Turn(q) # e
  BY DEF ThisEntity, Entity, Turn
<1>6. \A q \in Request : Turn(q) \in w'[r].ins => q = r
  BY <1>2, <1>5 DEF FactsInv, Kept
<1>7. at[r] \in 1..Len(cands(r))
  BY <1>1 DEF TypeOK, Placed
<1>8. Processed(r)' \subseteq {i \in DOMAIN cands(r) : i <= at[r]}
  <2>1. CASE Tail(names[r]) = <<>>
    BY <1>1, <1>7, <2>1, LoopProcessed DEF MentionEntity, NextEntity
  <2>2. CASE Tail(names[r]) # <<>>
    BY <1>1, <2>2 DEF MentionEntity, NextEntity, Processed, cands, TypeOK, HandlersOK
  <2> QED
    BY <2>1, <2>2
<1>9. Processed(r)' \subseteq Processed(r)
  BY <1>1, <1>8 DEF Processed
<1> QED
  BY <1>1, <1>2, <1>4, <1>6, <1>9, QuietFacts

\* A step that leaves all candidates behind, or none.
LEMMA LaterFacts ==
  ASSUME TypeOK, FactsInv, NEW r \in Request, Deactivate(r) \/ LinkSource(r) \/ LinkPeer(r)
  PROVE  FactsInv'
<1>1. UNCHANGED <<job, pc, sup, locks, store>> /\ (pc[r] = "edges" \/ at' = at)
  BY DEF Deactivate, LinkSource, LinkPeer
<1>2. /\ w'[r].ins = w[r].ins /\ w'[r].del = w[r].del
      /\ \A q \in Request \ {r} : w'[q] = w[q] /\ at'[q] = at[q] /\ todo'[q] = todo[q]
  <2>1. CASE Deactivate(r)
    <3>1. PICK x \in todo[r] :
             /\ todo' = [todo EXCEPT ![r] = @ \ {x}]
             /\ w' = IF x \in Visible(r)
                     THEN [w EXCEPT ![r].off = @ \cup {x}, ![r].on = @ \ {x}]
                     ELSE w
      BY <2>1 DEF Deactivate
    <3>2. at' = at
      BY <2>1 DEF Deactivate
    <3>3. CASE x \in Visible(r)
      <4>1. w' = [w EXCEPT ![r].off = @ \cup {x}, ![r].on = @ \ {x}]
        BY <3>1, <3>3
      <4> QED
        BY <3>1, <3>2, <4>1 DEF TypeOK, HandlersOK, Writes
    <3>4. CASE x \notin Visible(r)
      BY <3>1, <3>2, <3>4 DEF TypeOK, HandlersOK, Writes
    <3> QED
      BY <3>3, <3>4
  <2>2. CASE LinkSource(r)
    BY <2>2 DEF LinkSource, TypeOK, HandlersOK, Writes
  <2>3. CASE LinkPeer(r)
    <3> DEFINE m == Memory(r, at[r] - 1)
    <3>1. PICK x \in todo[r] :
             /\ todo' = [todo EXCEPT ![r] = @ \ {x}]
             /\ w' = [w EXCEPT ![r].share = @ \cup {x},
                               ![r].edges = @ \cup {<<m, x, "same_subject">>,
                                                    <<x, m, "same_subject">>}]
      BY <2>3 DEF LinkPeer
    <3>2. at' = at
      BY <2>3 DEF LinkPeer
    <3> QED
      BY <3>1, <3>2 DEF TypeOK, HandlersOK, Writes
  <2> QED
    BY <2>1, <2>2, <2>3
<1>3. OthersKept(r)
  BY <1>1, <1>2 DEF OthersKept
<1>4. Processed(r)' \subseteq Processed(r)
  BY <1>1 DEF Processed, cands
<1>5. \A q \in Request : Turn(q) \in w'[r].ins => q = r
  BY <1>2 DEF FactsInv, Kept
<1> QED
  BY <1>1, <1>2, <1>3, <1>4, <1>5, QuietFacts

LEMMA CloseFacts ==
  ASSUME TypeOK, NEW r \in Request, NEW outcome \in {"done", "failed"}, Close(r, outcome)
  PROVE  Kept(r)'
<1>1. pc'[r] = outcome /\ w'[r] = NoWrites
  BY CloseKeepsOthers
<1> QED
  BY <1>1 DEF Kept, Processed, NoWrites

LEMMA RollbackFacts ==
  ASSUME TypeOK, FactsInv, NEW r \in Request, Rollback(r)
  PROVE  FactsInv'
BY CloseFacts, CloseKeepsOthers, LocalFacts DEF Rollback

\* A commit deletes nothing, so what others rely on is still there.
LEMMA CommitFacts ==
  ASSUME TypeOK, FactsInv, NEW r \in Request, w[r].del = {}, pc[r] = "edges", Commit(r)
  PROVE  FactsInv'
<1>1. job' = job /\ OthersKept(r) /\ Kept(r)'
  BY CloseFacts, CloseKeepsOthers DEF Commit
<1>2. rows' = rows \cup w[r].ins
  BY DEF Commit, Visible
<1>3. Kept(r)
  BY DEF FactsInv
<1>4. \A q \in Request : cands(q)' = cands(q)
  BY <1>1 DEF cands
<1>5. ASSUME NEW q \in Request, Turn(q) \in rows', NEW i \in DOMAIN cands(q)
      PROVE  \E x \in rows' \cap MemoryRow : SameFact(x, Memory(q, i))
  <2>1. CASE Turn(q) \in rows
    BY <1>2, <1>5, <2>1 DEF FactsInv, StoredTurnHasItsFacts, OnRecord, Memories, SameFact
  <2>2. CASE Turn(q) \in w[r].ins
    <3>1. q = r /\ i \in Processed(r)
      BY <1>3, <1>5, <2>2 DEF Kept, Processed
    <3>2. \E x \in VisibleMemories(r) : SameFact(x, Memory(r, i))
      BY <1>3, <3>1 DEF Kept
    <3> QED
      BY <1>2, <3>1, <3>2 DEF VisibleMemories, Visible
  <2> QED
    BY <1>2, <1>5, <2>1, <2>2
<1>6. StoredTurnHasItsFacts'
  <2>1. \A q \in Request : Turn(q)' = Turn(q) /\ \A i : Memory(q, i)' = Memory(q, i)
    BY DEF Turn, Memory
  <2> QED
    BY <1>1, <1>4, <1>5, <2>1, RowStable DEF StoredTurnHasItsFacts, OnRecord, Memories, SameFact
<1>7. ASSUME NEW q \in Request \ {r} PROVE Kept(q)'
  <2>1. Kept(q) /\ pc'[q] = pc[q] /\ at'[q] = at[q] /\ w'[q] = w[q]
    BY <1>1 DEF FactsInv, OthersKept
  <2>2. VisibleMemories(q) \subseteq VisibleMemories(q)' /\ Processed(q)' = Processed(q)
    BY <1>2, <1>4, <2>1 DEF VisibleMemories, Visible, Processed
  <2> QED
    BY <1>1, <2>1, <2>2, FactStable DEF Kept, Turn, Memory
<1> QED
  BY <1>1, <1>6, <1>7 DEF FactsInv

LEMMA StutterFacts == ASSUME FactsInv, UNCHANGED vars PROVE FactsInv'
<1>1. UNCHANGED <<job, pc, at, w, store>>
  BY DEF vars, control
<1>2. StoredTurnHasItsFacts'
  BY <1>1, RowStable DEF FactsInv, StoredTurnHasItsFacts, OnRecord, Memories, store, cands,
     Memory, Turn
<1>3. ASSUME NEW q \in Request PROVE Kept(q)'
  <2>1. VisibleMemories(q)' = VisibleMemories(q) /\ Processed(q)' = Processed(q)
    BY <1>1 DEF VisibleMemories, Visible, Processed, store, cands
  <2> QED
    BY <1>1, <2>1, FactStable DEF FactsInv, Kept, Turn, Memory
<1> QED
  BY <1>2, <1>3 DEF FactsInv

\* While there is no delete, the facts of every stored turn are on record, in rows
\* of its own or in rows it found: no interleaving, rollback or skip loses one.
THEOREM NoFactIsLost ==
  ASSUME \A j \in Jobs : j.op = "turn"
  PROVE  Spec => []StoredTurnHasItsFacts
<1>1. Init => FactsInv
  BY DEF Init, StoreInit, FactsInv, StoredTurnHasItsFacts, Kept, Processed, NoWrites
<1>2. TypeOK /\ HistoryInv /\ FactsInv /\ [Next]_vars => FactsInv'
  <2> SUFFICES ASSUME TypeOK, HistoryInv, FactsInv, [Next]_vars PROVE FactsInv'
    OBVIOUS
  <2>1. CASE UNCHANGED vars
    BY <2>1, StutterFacts
  <2>2. CASE Next
    <3>1. PICK r \in Request : TurnStep(r) \/ DeleteStep(r) \/ DeadlockVictim(r) \/ Fail(r)
      BY <2>2 DEF Next
    <3>2. job[r].op = "turn"
      BY DEF TypeOK, HandlersOK
    <3>3. /\ pc[r] = "waiting" => w[r] = NoWrites
          /\ w[r].del = {} /\ pc[r] \notin Deleting \cup Updating \cup {"commit"}
      BY <3>2 DEF HistoryInv, Orderly, Parted
    <3>4. CASE TurnStep(r)
      BY <3>3, <3>4, BeginTurnFacts, ReconcileFacts, InsertMemoryFacts, MentionEntityFacts,
         LaterFacts, RollbackFacts, CommitFacts
      DEF TurnStep, ForeignKeyError, CommitTurn, BeginTurn, Open
    <3>5. CASE DeleteStep(r)
      BY <3>2, <3>3, <3>5 DEF DeleteStep, BeginDeleteSession, BeginDeleteUser, NextStatement,
         VisitRow, CommitDelete
    <3>6. CASE DeadlockVictim(r) \/ Fail(r)
      BY <3>6, RollbackFacts DEF DeadlockVictim, Fail
    <3> QED
      BY <3>1, <3>4, <3>5, <3>6
  <2> QED
    BY <2>1, <2>2
<1>3. TypeOK => NoRecompute
  BY DEF TypeOK, HandlersOK, NoRecompute
<1>4. FactsInv => StoredTurnHasItsFacts
  BY DEF FactsInv
<1> QED
  BY <1>1, <1>2, <1>3, <1>4, TypeCorrect, HistoryKept, PTL DEF Spec

----------------------------------------------------------------------------
\* The boards after each candidate.

AllBoards == [ScopeKey -> SUBSET Object]

Stating(S, j, c) == UNION {Board!Outcomes(b, j, c) : b \in S}

After(B, j) ==
    CHOOSE f : f = [n \in 0..Len(j.cands) |->
                      IF n = 0 THEN {B} ELSE Stating(f[n - 1], j, j.cands[n])]

LEMMA BoardsAreAfter ==
  ASSUME NEW B, NEW j
  PROVE  Board!Boards(B, j) = After(B, j)[Len(j.cands)]
BY DEF Board!Boards, After, Stating

LEMMA StatingBoards ==
  ASSUME NEW S \in SUBSET AllBoards, NEW j, NEW c \in Candidate
  PROVE  Stating(S, j, c) \in SUBSET AllBoards
<1> SUFFICES ASSUME NEW b \in S, NEW x \in Board!Outcomes(b, j, c) PROVE x \in AllBoards
  BY DEF Stating
<1> DEFINE k == CandidateKey(j, c)
<1>1. b \in AllBoards
  OBVIOUS
<1>2. PICK F \in Board!Told(b[k], c) : x = [b EXCEPT ![k] = F]
  BY DEF Board!Outcomes
<1>3. CASE k \in ScopeKey
  <2>1. b[k] \subseteq Object /\ c.object \in Object
    BY <1>1, <1>3 DEF AllBoards, Candidate
  <2>2. F \subseteq b[k] \cup {c.object}
    BY <1>2 DEF Board!Told
  <2> QED
    BY <1>1, <1>2, <2>1, <2>2 DEF AllBoards
<1>4. CASE k \notin ScopeKey
  BY <1>1, <1>2, <1>4 DEF AllBoards
<1> QED
  BY <1>3, <1>4

\* The recursion of Boards, unfolded: it is defined for every job.
LEMMA AfterUnfolds ==
  ASSUME NEW j \in Jobs, NEW B \in AllBoards
  PROVE  /\ After(B, j)[0] = {B}
         /\ \A n \in 1..Len(j.cands) :
               After(B, j)[n] = Stating(After(B, j)[n - 1], j, j.cands[n])
<1> DEFINE N == Len(j.cands)
           Goes(f, n) == /\ f[0] = {B}
                         /\ \A m \in 1..n : f[m] = Stating(f[m - 1], j, j.cands[m])
           S == {n \in Nat : n <= N => \E f \in [0..n -> SUBSET AllBoards] : Goes(f, n)}
<1>1. N \in Nat /\ \A m \in 1..N : j.cands[m] \in Candidate
  BY StoreAssumption DEF Job
<1>2. 0 \in S
  <2>1. [n \in 0..0 |-> {B}] \in [0..0 -> SUBSET AllBoards] /\ Goes([n \in 0..0 |-> {B}], 0)
    OBVIOUS
  <2> QED
    BY <2>1
<1>3. ASSUME NEW n \in Nat, n \in S PROVE n + 1 \in S
  <2> SUFFICES ASSUME n + 1 <= N
               PROVE  \E g \in [0..(n + 1) -> SUBSET AllBoards] : Goes(g, n + 1)
    OBVIOUS
  <2>1. PICK f \in [0..n -> SUBSET AllBoards] : Goes(f, n)
    BY <1>1, <1>3
  <2> DEFINE last == Stating(f[n], j, j.cands[n + 1])
             g == [m \in 0..(n + 1) |-> IF m = n + 1 THEN last ELSE f[m]]
  <2>2. last \in SUBSET AllBoards
    BY <1>1, <2>1, StatingBoards
  <2> HIDE DEF last
  <2>3. g \in [0..(n + 1) -> SUBSET AllBoards]
    BY <2>1, <2>2
  <2>4. g[0] = {B} /\ \A m \in 0..n : g[m] = f[m]
    BY <2>1
  <2>5. g[n + 1] = last
    OBVIOUS
  <2> HIDE DEF g
  <2>6. \A m \in 1..(n + 1) : g[m] = Stating(g[m - 1], j, j.cands[m])
    <3>1. ASSUME NEW m \in 1..n PROVE g[m] = Stating(g[m - 1], j, j.cands[m])
      BY <2>1, <2>4
    <3>2. g[n + 1] = Stating(g[n], j, j.cands[n + 1])
      BY <2>4, <2>5 DEF last
    <3> QED
      BY <3>1, <3>2
  <2> QED
    BY <2>3, <2>4, <2>6
<1>4. N \in S
  <2> HIDE DEF S
  <2> QED
    BY <1>1, <1>2, <1>3, Induct
<1>5. PICK f \in [0..N -> SUBSET AllBoards] : Goes(f, N)
  BY <1>1, <1>4
<1>6. f = [n \in 0..N |-> IF n = 0 THEN {B} ELSE Stating(f[n - 1], j, j.cands[n])]
  BY <1>1, <1>5
<1>7. After(B, j) = [n \in 0..N |-> IF n = 0 THEN {B}
                                    ELSE Stating(After(B, j)[n - 1], j, j.cands[n])]
  <2> HIDE DEF Goes, S
  <2> QED
    BY <1>6 DEF After
<1>8. PICK A : A = After(B, j)
  OBVIOUS
<1>9. A = [n \in 0..N |-> IF n = 0 THEN {B} ELSE Stating(A[n - 1], j, j.cands[n])]
  BY <1>7, <1>8
<1>10. ASSUME NEW n \in 0..N
       PROVE  A[n] = IF n = 0 THEN {B} ELSE Stating(A[n - 1], j, j.cands[n])
  <2> DEFINE h == [m \in 0..N |-> IF m = 0 THEN {B} ELSE Stating(A[m - 1], j, j.cands[m])]
  <2>1. h[n] = IF n = 0 THEN {B} ELSE Stating(A[n - 1], j, j.cands[n])
    OBVIOUS
  <2>2. A = h
    BY <1>9
  <2> QED
    BY <2>1, <2>2
<1> QED
  BY <1>1, <1>8, <1>10

----------------------------------------------------------------------------
\* What a turn makes of the board while it runs.

Facts(S, k) == {Cand(x).object : x \in {y \in S : KeyOf(y) = k}}

Working(r) == pc[r] \in {"reconcile", "apply", "mentions", "edges"}

\* The candidates a turn has decided on, and their keys.
CountTold(r) ==
    CASE pc[r] = "reconcile" -> at[r] - 1
      [] pc[r] \in {"apply", "mentions"} -> at[r]
      [] OTHER -> Len(cands(r))

KeysTold(r) == {KeyOf(Memory(r, i)) : i \in 1..CountTold(r)}

\* What will be active for it when it has applied its decision.
Planned(r) ==
    IF pc[r] = "apply" THEN (ActiveFor(r) \ todo[r]) \cup {ThisMemory(r)} ELSE ActiveFor(r)

\* Board B with the turn's view of the keys it told.
ViewOn(r, B) == [k \in ScopeKey |-> IF k \in KeysTold(r) THEN Facts(Planned(r), k) ELSE B[k]]

\* The turn changes only keys it told, all of them locked.
Confined(r) ==
    Working(r) =>
      /\ \A k \in KeysTold(r) : Hash(k) \in locks[r]
      /\ \A x \in w[r].on \cup w[r].off : KeyOf(x) \in KeysTold(r)

\* Whatever the board shows elsewhere by the time of the commit, on the keys it told
\* the turn has done what the board would do at that time.
Replays(r) ==
    Working(r) =>
      \A B \in AllBoards :
        (\A k \in KeysTold(r) : B[k] = Facts(active, k)) =>
            ViewOn(r, B) \in After(B, job[r])[CountTold(r)]

BoardInv == \A r \in Request : Confined(r) /\ Replays(r)

OnlyTurns == \A r \in Request : job[r].op = "turn"

Settled == Ground /\ HistoryInv /\ OnlyTurns

LEMMA FactsStable ==
  ASSUME job' = job
  PROVE  \A S, k : Facts(S, k)' = Facts(S, k)
BY RowStable DEF Facts

LEMMA AfterStable ==
  ASSUME job' = job
  PROVE  \A r \in Request : \A B, n : After(B, job[r])[n]' = After(B, job[r])[n]
BY DEF After, Stating, Board!Outcomes, Board!Told, CandidateKey

\* Nothing is deleted: the view of a turn is what is active and what it changes.
LEMMA PlainView ==
  ASSUME Settled, NEW r \in Request
  PROVE  /\ ActiveFor(r) = (active \ w[r].off) \cup w[r].on
         /\ w[r].del = {}
<1>1. w[r].del = {}
  BY DEF Settled, OnlyTurns, HistoryInv, Orderly, Parted
<1>2. w[r].on \subseteq w[r].ins /\ active \subseteq rows
  BY DEF Settled, Ground, TurnsConsistent, Careful, TypeOK, TablesOK
<1> QED
  BY <1>1, <1>2 DEF ActiveFor, Visible

\* A step inside the transaction of r.
LEMMA LocalBoard ==
  ASSUME BoardInv, NEW r \in Request, job' = job, UNCHANGED store, OthersKept(r),
         Confined(r)', Replays(r)'
  PROVE  BoardInv'
<1> SUFFICES ASSUME NEW q \in Request \ {r} PROVE Confined(q)' /\ Replays(q)'
  BY DEF BoardInv
<1>1. /\ pc'[q] = pc[q] /\ at'[q] = at[q] /\ todo'[q] = todo[q] /\ w'[q] = w[q]
      /\ locks'[q] = locks[q]
  BY DEF OthersKept
<1>2. CountTold(q)' = CountTold(q) /\ (Working(q)' <=> Working(q)) /\ ThisMemory(q)' = ThisMemory(q)
  BY <1>1 DEF CountTold, Working, cands, ThisMemory, Memory
<1>3. KeysTold(q)' = KeysTold(q)
  BY <1>2, RowStable DEF KeysTold, Memory
<1>4. ActiveFor(q)' = ActiveFor(q) /\ active' = active
  BY <1>1 DEF ActiveFor, Visible, store
<1>5. Planned(q)' = Planned(q)
  BY <1>1, <1>2, <1>4 DEF Planned
<1>6. \A B : ViewOn(q, B)' = ViewOn(q, B)
  BY <1>3, <1>5, FactsStable DEF ViewOn
<1>7. Confined(q)'
  BY <1>1, <1>2, <1>3, RowStable DEF BoardInv, Confined
<1>8. Replays(q)'
  BY <1>2, <1>3, <1>4, <1>6, FactsStable, AfterStable DEF BoardInv, Replays
<1> QED
  BY <1>7, <1>8

\* A step of r that tells nothing further.
LEMMA QuietBoard ==
  ASSUME BoardInv, NEW r \in Request, job' = job, UNCHANGED <<store, locks>>, OthersKept(r),
         Working(r), CountTold(r)' = CountTold(r), Planned(r)' = Planned(r),
         \A x \in w'[r].on \cup w'[r].off :
            x \in w[r].on \cup w[r].off \/ KeyOf(x) \in KeysTold(r)
  PROVE  BoardInv'
<1>1. KeysTold(r)' = KeysTold(r)
  BY RowStable DEF KeysTold, Memory
<1>2. \A B : ViewOn(r, B)' = ViewOn(r, B)
  BY <1>1, FactsStable DEF ViewOn
<1>3. Confined(r)'
  BY <1>1, RowStable DEF BoardInv, Confined
<1>4. Replays(r)'
  BY <1>1, <1>2, FactsStable, AfterStable DEF BoardInv, Replays, store
<1> QED
  BY <1>3, <1>4, LocalBoard

\* The loop goes on to the next candidate with those before told.
LEMMA LoopTold ==
  ASSUME TypeOK, NEW r \in Request, NextCandidate(r), job' = job, at[r] \in 1..Len(cands(r))
  PROVE  /\ CountTold(r)' = at[r] /\ Working(r)' /\ pc'[r] # "apply"
<1>1. Len(cands(r)) \in Nat /\ at[r] \in Nat
  BY CandidateNumbers
<1>2. CASE at[r] < Len(cands(r))
  BY <1>1, <1>2 DEF NextCandidate, CountTold, Working, TypeOK, HandlersOK
<1>3. CASE ~(at[r] < Len(cands(r)))
  BY <1>1, <1>3 DEF NextCandidate, CountTold, Working, cands, TypeOK, HandlersOK
<1> QED
  BY <1>2, <1>3

LEMMA BeginTurnBoard ==
  ASSUME Settled, BoardInv, NEW r \in Request, BeginTurn(r)
  PROVE  BoardInv'
<1>1. /\ UNCHANGED <<job, store>> /\ at'[r] = 1 /\ pc[r] = "waiting"
      /\ pc'[r] = IF cands(r) = <<>> THEN "edges" ELSE "reconcile"
      /\ w'[r] = [w[r] EXCEPT !.ins = {Turn(r)}]
  BY DEF BeginTurn, Open, Settled, Ground, TypeOK, HandlersOK
<1>2. OthersKept(r)
  BY DEF BeginTurn, OthersKept, Settled, Ground, TypeOK, HandlersOK
<1>3. w[r] = NoWrites
  BY <1>1 DEF Settled, HistoryInv, Orderly, Parted
<1>4. CountTold(r)' = 0
  BY <1>1 DEF CountTold, cands
<1>5. KeysTold(r)' = {}
  BY <1>4 DEF KeysTold
<1>6. Confined(r)'
  BY <1>1, <1>3, <1>5 DEF Confined, NoWrites
<1>7. ASSUME NEW B \in AllBoards PROVE ViewOn(r, B)' = B
  BY <1>5 DEF ViewOn, AllBoards
<1>8. job[r] \in Jobs
  BY DEF Settled, Ground, TypeOK, HandlersOK
<1>9. Replays(r)'
  BY <1>1, <1>4, <1>7, <1>8, AfterUnfolds, AfterStable DEF Replays
<1> QED
  BY <1>1, <1>2, <1>6, <1>9, LocalBoard

\* A decision of the reconciler does to the facts of its key what the board allows.
LEMMA DecisionIsTold ==
  ASSUME NEW c, NEW S, NEW d \in Decisions(c, S),
         \A x, y \in S : Cand(x).object = Cand(y).object => x = y
  PROVE  LET objects(T) == {Cand(x).object : x \in T}
         IN  /\ d.insert => /\ d.deactivate \subseteq S
                            /\ objects(S \ d.deactivate) \cup {c.object} \in Board!Told(objects(S), c)
             /\ ~d.insert => objects(S) \in Board!Told(objects(S), c)
<1> DEFINE F == {Cand(x).object : x \in S}
<1>1. CASE \E x \in S : Cand(x).object = c.object
  <2>1. c.object \in F /\ d = Skip
    BY <1>1 DEF Decisions
  <2>2. F \in Board!Told(F, c)
    BY <2>1 DEF Board!Told
  <2> QED
    BY <2>1, <2>2 DEF Skip
<1>2. CASE ~\E x \in S : Cand(x).object = c.object
  <2>1. c.object \notin F
    BY <1>2
  <2>2. PICK gone \in Replaced(c, S) : \E head \in Heads(gone) : d = Insert(head, gone)
    BY <1>2 DEF Decisions
  <2>3. d.insert /\ d.deactivate = gone
    BY <2>2 DEF Insert
  <2> DEFINE G == {Cand(x).object : x \in S \ gone}
  <2>4. gone \subseteq S /\ G \cup {c.object} \in Board!Told(F, c)
    <3>1. CASE S = {}
      BY <2>1, <2>2, <3>1 DEF Replaced, Board!Told
    <3>2. CASE S # {} /\ c.predicate \in Single
      BY <2>1, <2>2, <3>2 DEF Replaced, Board!Told
    <3>3. CASE S # {} /\ c.predicate \notin Single /\ ~c.correction
      BY <2>1, <2>2, <3>3 DEF Replaced, Board!Told
    <3>4. CASE S # {} /\ c.predicate \notin Single /\ c.correction /\ Quoted(c, S) # {}
      <4>1. gone = Quoted(c, S)
        BY <2>2, <3>4 DEF Replaced
      <4>2. G = F \ c.quoted /\ F \cap c.quoted # {}
        BY <3>4, <4>1 DEF Quoted
      <4> HIDE DEF F, G
      <4>3. G \cup {c.object} \in Board!Told(F, c)
        BY <2>1, <3>4, <4>2 DEF Board!Told
      <4> QED
        BY <4>1, <4>3 DEF Quoted
    <3>5. CASE S # {} /\ c.predicate \notin Single /\ c.correction /\ Quoted(c, S) = {}
      <4>1. PICK x \in Latest(S) : gone = {x}
        BY <2>2, <3>5 DEF Replaced
      <4>2. x \in S
        BY <4>1 DEF Latest
      <4>3. G = F \ {Cand(x).object} /\ Cand(x).object \in F /\ F \cap c.quoted = {}
        BY <3>5, <4>1, <4>2 DEF Quoted
      <4> HIDE DEF F, G
      <4>4. G \cup {c.object} \in Board!Told(F, c)
        BY <2>1, <3>5, <4>3 DEF Board!Told
      <4> QED
        BY <4>1, <4>2, <4>4
    <3> QED
      BY <3>1, <3>2, <3>3, <3>4, <3>5
  <2> QED
    BY <2>3, <2>4
<1> QED
  BY <1>1, <1>2

\* The candidate at hand is told: after the turn's decision the board shows, under
\* every key, what one more outcome of the board would show.
LEMMA ReconcileBoard ==
  ASSUME Settled, BoardInv, NEW r \in Request, Reconcile(r)
  PROVE  BoardInv'
<1> DEFINE m == ThisMemory(r)
           k == KeyOf(m)
           A == ActiveFor(r)
           S == Rivals(r, k)
           P == Planned(r)'
<1>1. /\ UNCHANGED <<job, w, store>> /\ pc[r] = "reconcile"
      /\ locks' = [locks EXCEPT ![r] = @ \cup {Hash(k)}]
  BY DEF Reconcile
<1>2. PICK d \in Decisions(Cand(m), S) :
         /\ todo' = [todo EXCEPT ![r] = d.deactivate]
         /\ sup' = [sup EXCEPT ![r] = d.supersedes]
         /\ IF d.insert
            THEN pc' = [pc EXCEPT ![r] = "apply"] /\ UNCHANGED at
            ELSE NextCandidate(r)
  BY DEF Reconcile
<1>3. TypeOK /\ at[r] \in 1..Len(cands(r)) /\ Len(cands(r)) \in Nat /\ at[r] \in Nat
  BY <1>1, CandidateNumbers DEF Settled, Ground, TypeOK, Placed
<1>4. \A q \in Request \ {r} : pc'[q] = pc[q] /\ at'[q] = at[q]
  BY <1>2, <1>3, NextCandidateGoes DEF TypeOK, HandlersOK
<1>5. OthersKept(r)
  BY <1>1, <1>2, <1>3, <1>4 DEF OthersKept, TypeOK, HandlersOK
<1>6. /\ CountTold(r)' = at[r] /\ CountTold(r) = at[r] - 1 /\ Working(r)
      /\ d.insert => pc'[r] = "apply" /\ m' = m
      /\ ~d.insert => pc'[r] # "apply"
  <2>1. CASE d.insert
    BY <1>1, <1>2, <1>3, <2>1 DEF CountTold, Working, ThisMemory, Memory, TypeOK, HandlersOK
  <2>2. CASE ~d.insert
    BY <1>1, <1>2, <1>3, <2>2, LoopTold DEF CountTold, Working
  <2> QED
    BY <2>1, <2>2
<1>7. KeysTold(r)' = KeysTold(r) \cup {k}
  <2>1. 1..at[r] = (1..(at[r] - 1)) \cup {at[r]}
    BY <1>3
  <2> QED
    BY <1>1, <1>6, <2>1, RowStable DEF KeysTold, Memory, ThisMemory
<1>8. A' = A /\ active' = active
  BY <1>1 DEF ActiveFor, Visible, store
<1>9. P = IF d.insert THEN (A \ d.deactivate) \cup {m} ELSE A
  BY <1>2, <1>3, <1>6, <1>8 DEF Planned, TypeOK, HandlersOK
<1>10. Confined(r)'
  <2>1. locks'[r] = locks[r] \cup {Hash(k)}
    BY <1>1, <1>3 DEF TypeOK, HandlersOK
  <2> QED
    BY <1>1, <1>6, <1>7, <2>1, RowStable DEF BoardInv, Confined
<1>11. /\ Facts(A, k) = {Cand(x).object : x \in S}
       /\ Facts(P, k) \in Board!Told(Facts(A, k), Cand(m))
       /\ \A k2 : k2 # k => Facts(P, k2) = Facts(A, k2)
  <2>1. \A x, y \in S : Cand(x).object = Cand(y).object => x = y
    BY DEF Settled, Ground, TurnsConsistent, Careful, NoClash, Clash, Rivals
  <2>2. Facts(A, k) = {Cand(x).object : x \in S}
    BY DEF Facts, Rivals
  <2>3. CASE d.insert
    <3>1. d.deactivate \subseteq S
      BY <1>2, <2>1, <2>3, DecisionIsTold
    <3>2. {Cand(x).object : x \in S \ d.deactivate} \cup {Cand(m).object}
             \in Board!Told({Cand(x).object : x \in S}, Cand(m))
      BY <1>2, <2>1, <2>3, DecisionIsTold
    <3>3. P = (A \ d.deactivate) \cup {m}
      BY <1>9, <2>3
    <3>4. {x \in P : KeyOf(x) = k} = (S \ d.deactivate) \cup {m}
      BY <3>3 DEF Rivals
    <3>5. Facts(P, k) = {Cand(x).object : x \in S \ d.deactivate} \cup {Cand(m).object}
      BY <3>4 DEF Facts
    <3>6. \A k2 : k2 # k => {x \in P : KeyOf(x) = k2} = {x \in A : KeyOf(x) = k2}
      BY <3>1, <3>3 DEF Rivals
    <3> QED
      BY <2>2, <3>2, <3>5, <3>6 DEF Facts
  <2>4. CASE ~d.insert
    <3>1. P = A
      BY <1>9, <2>4
    <3>2. {Cand(x).object : x \in S} \in Board!Told({Cand(x).object : x \in S}, Cand(m))
      BY <1>2, <2>1, <2>4, DecisionIsTold
    <3> HIDE DEF P
    <3> QED
      BY <2>2, <3>1, <3>2
  <2> QED
    BY <2>3, <2>4
<1>12. Replays(r)'
  <2> SUFFICES ASSUME NEW B \in AllBoards,
                      \A k2 \in KeysTold(r) \cup {k} : B[k2] = Facts(active, k2)
               PROVE  ViewOn(r, B)' \in After(B, job[r])[at[r]]
    BY <1>1, <1>6, <1>7, <1>8, FactsStable, AfterStable DEF Replays
  <2> DEFINE b == ViewOn(r, B)
             c == cands(r)[at[r]]
  <2>1. b \in After(B, job[r])[at[r] - 1]
    BY <1>6 DEF BoardInv, Replays
  <2>2. k \in ScopeKey /\ c = Cand(m) /\ CandidateKey(job[r], c) = k
    BY <1>3, ThisMemoryStated DEF CandidateKey, KeyOf, Cand, ThisMemory, Memory, cands
  <2>3. b[k] = Facts(A, k)
    <3>1. CASE k \in KeysTold(r)
      BY <1>1, <2>2, <3>1 DEF ViewOn, Planned
    <3>2. CASE k \notin KeysTold(r)
      <4>1. A = (active \ w[r].off) \cup w[r].on
        BY PlainView
      <4>2. \A x \in w[r].on \cup w[r].off : KeyOf(x) # k
        BY <1>6, <3>2 DEF BoardInv, Confined
      <4>3. {x \in A : KeyOf(x) = k} = {x \in active : KeyOf(x) = k}
        BY <4>1, <4>2
      <4> QED
        BY <2>2, <3>2, <4>3 DEF ViewOn, Facts
    <3> QED
      BY <3>1, <3>2
  <2>4. ViewOn(r, B)' = [b EXCEPT ![k] = Facts(P, k)]
    <3>1. ViewOn(r, B)' = [k2 \in ScopeKey |-> IF k2 \in KeysTold(r) \cup {k}
                                              THEN Facts(P, k2) ELSE B[k2]]
      BY <1>1, <1>7, FactsStable DEF ViewOn
    <3>2. Planned(r) = A
      BY <1>1 DEF Planned
    <3>3. b = [k2 \in ScopeKey |-> IF k2 \in KeysTold(r) THEN Facts(A, k2) ELSE B[k2]]
      BY <3>2 DEF ViewOn
    <3> HIDE DEF P, A, k, b
    <3> QED
      BY <1>11, <2>2, <3>1, <3>3
  <2>5. ViewOn(r, B)' \in Board!Outcomes(b, job[r], c)
    BY <1>11, <2>2, <2>3, <2>4 DEF Board!Outcomes
  <2>6. ViewOn(r, B)' \in Stating(After(B, job[r])[at[r] - 1], job[r], c)
    BY <2>1, <2>5 DEF Stating
  <2>7. After(B, job[r])[at[r]] = Stating(After(B, job[r])[at[r] - 1], job[r], c)
    BY <1>3, AfterUnfolds DEF TypeOK, HandlersOK, cands
  <2> QED
    BY <2>6, <2>7
<1> QED
  BY <1>1, <1>5, <1>10, <1>12, LocalBoard

LEMMA DeactivateBoard ==
  ASSUME Settled, BoardInv, NEW r \in Request, Deactivate(r)
  PROVE  BoardInv'
<1>1. UNCHANGED <<job, pc, at, sup, locks, store>> /\ pc[r] = "apply"
  BY DEF Deactivate
<1>2. PICK x \in todo[r] :
         /\ todo' = [todo EXCEPT ![r] = @ \ {x}]
         /\ w' = IF x \in Visible(r)
                 THEN [w EXCEPT ![r].off = @ \cup {x}, ![r].on = @ \ {x}]
                 ELSE w
  BY DEF Deactivate
<1>3. /\ todo'[r] = todo[r] \ {x} /\ w'[r].ins = w[r].ins /\ w'[r].del = w[r].del
      /\ x \in Visible(r) => w'[r].off = w[r].off \cup {x} /\ w'[r].on = w[r].on \ {x}
      /\ x \notin Visible(r) => w'[r].off = w[r].off /\ w'[r].on = w[r].on
      /\ \A q \in Request \ {r} : w'[q] = w[q] /\ todo'[q] = todo[q]
  <2>1. CASE x \in Visible(r)
    <3>1. w' = [w EXCEPT ![r].off = @ \cup {x}, ![r].on = @ \ {x}]
      BY <1>2, <2>1
    <3> QED
      BY <1>2, <2>1, <3>1 DEF Settled, Ground, TypeOK, HandlersOK, Writes
  <2>2. CASE x \notin Visible(r)
    BY <1>2, <2>2 DEF Settled, Ground, TypeOK, HandlersOK, Writes
  <2> QED
    BY <2>1, <2>2
<1>4. OthersKept(r)
  BY <1>1, <1>2, <1>3 DEF OthersKept
<1>5. at[r] \in 1..Len(cands(r)) /\ TypeOK
  BY <1>1 DEF Settled, Ground, TypeOK, Placed
<1>6. CountTold(r)' = CountTold(r) /\ CountTold(r) = at[r] /\ ThisMemory(r)' = ThisMemory(r)
  BY <1>1 DEF CountTold, ThisMemory, Memory
<1>7. KeyOf(x) \in KeysTold(r)
  <2>1. KeyOf(x) = KeyOf(ThisMemory(r))
    BY <1>1, <1>2 DEF Settled, HistoryInv, Orderly, Pending, InKey
  <2> QED
    BY <1>5, <1>6, <2>1 DEF KeysTold, ThisMemory
<1>8. Planned(r)' = Planned(r)
  <2>1. ActiveFor(r)' = ActiveFor(r) \ {x}
    BY <1>1, <1>3 DEF ActiveFor, Visible, store
  <2> QED
    BY <1>1, <1>2, <1>3, <1>6, <2>1 DEF Planned
<1> QED
  BY <1>1, <1>3, <1>4, <1>6, <1>7, <1>8, QuietBoard DEF Working

LEMMA InsertMemoryBoard ==
  ASSUME Settled, BoardInv, NEW r \in Request, InsertMemory(r)
  PROVE  BoardInv'
<1> DEFINE m == ThisMemory(r)
<1>1. UNCHANGED <<job, todo, locks, store>> /\ pc[r] = "apply" /\ todo[r] = {}
      /\ sup' = [sup EXCEPT ![r] = {}]
  BY DEF InsertMemory
<1>2. TypeOK /\ at[r] \in 1..Len(cands(r))
  BY <1>1 DEF Settled, Ground, TypeOK, Placed
<1>3. /\ w'[r].ins = w[r].ins \cup {m} /\ w'[r].on = w[r].on \cup {m}
      /\ w'[r].off = w[r].off /\ w'[r].del = w[r].del
      /\ \A q \in Request \ {r} : w'[q] = w[q]
  BY <1>2 DEF InsertMemory, TypeOK, HandlersOK, Writes
<1>4. \A q \in Request \ {r} : pc'[q] = pc[q] /\ at'[q] = at[q]
  BY <1>2, NextEntityGoes DEF InsertMemory
<1>5. OthersKept(r)
  BY <1>1, <1>2, <1>3, <1>4 DEF OthersKept, TypeOK, HandlersOK
<1>6. CountTold(r)' = at[r] /\ CountTold(r) = at[r] /\ pc'[r] # "apply"
  <2>1. CASE Cand(m).entities = <<>>
    BY <1>1, <1>2, <2>1, LoopTold DEF InsertMemory, NextEntity, CountTold
  <2>2. CASE Cand(m).entities # <<>>
    BY <1>1, <1>2, <2>2 DEF InsertMemory, NextEntity, CountTold, TypeOK, HandlersOK
  <2> QED
    BY <2>1, <2>2
<1>7. KeyOf(m) \in KeysTold(r)
  BY <1>2, <1>6 DEF KeysTold, ThisMemory
<1>8. Planned(r)' = Planned(r)
  <2>1. w[r].del = {} /\ w[r].on \subseteq w[r].ins /\ active \subseteq rows
    BY <1>2, PlainView DEF Settled, Ground, TurnsConsistent, Careful, TypeOK, TablesOK
  <2>2. ActiveFor(r)' = ActiveFor(r) \cup {m}
    BY <1>1, <1>3, <2>1 DEF ActiveFor, Visible, store
  <2> QED
    BY <1>1, <1>6, <2>2 DEF Planned
<1> QED
  BY <1>1, <1>3, <1>5, <1>6, <1>7, <1>8, QuietBoard DEF Working

LEMMA MentionEntityBoard ==
  ASSUME Settled, BoardInv, NEW r \in Request, MentionEntity(r)
  PROVE  BoardInv'
<1> DEFINE e == ThisEntity(r)
<1>1. UNCHANGED <<job, todo, sup, locks, store>> /\ pc[r] = "mentions"
  BY DEF MentionEntity
<1>2. TypeOK /\ at[r] \in 1..Len(cands(r))
  BY <1>1 DEF Settled, Ground, TypeOK, Placed
<1>3. /\ w'[r].ins = w[r].ins \cup ({e} \ Visible(r)) /\ w'[r].on = w[r].on
      /\ w'[r].off = w[r].off /\ w'[r].del = w[r].del
      /\ \A q \in Request \ {r} : w'[q] = w[q]
  BY <1>2 DEF MentionEntity, TypeOK, HandlersOK, Writes
<1>4. \A q \in Request \ {r} : pc'[q] = pc[q] /\ at'[q] = at[q]
  BY <1>2, NextEntityGoes DEF MentionEntity
<1>5. OthersKept(r)
  BY <1>1, <1>3, <1>4 DEF OthersKept
<1>6. CountTold(r)' = at[r] /\ CountTold(r) = at[r] /\ pc'[r] # "apply"
  <2>1. CASE Tail(names[r]) = <<>>
    BY <1>1, <1>2, <2>1, LoopTold DEF MentionEntity, NextEntity, CountTold
  <2>2. CASE Tail(names[r]) # <<>>
    BY <1>1, <1>2, <2>2 DEF MentionEntity, NextEntity, CountTold, TypeOK, HandlersOK
  <2> QED
    BY <2>1, <2>2
<1>7. Planned(r)' = Planned(r)
  <2>1. w[r].del = {} /\ w[r].on \subseteq w[r].ins /\ active \subseteq rows
    BY <1>2, PlainView DEF Settled, Ground, TurnsConsistent, Careful, TypeOK, TablesOK
  <2>2. ActiveFor(r)' = ActiveFor(r)
    BY <1>1, <1>3, <2>1 DEF ActiveFor, Visible, store
  <2> QED
    BY <1>1, <1>6, <2>2 DEF Planned
<1> QED
  BY <1>1, <1>3, <1>5, <1>6, <1>7, QuietBoard DEF Working

LEMMA LinkBoard ==
  ASSUME Settled, BoardInv, NEW r \in Request, LinkSource(r) \/ LinkPeer(r)
  PROVE  BoardInv'
<1>1. UNCHANGED <<job, pc, sup, locks, store>> /\ pc[r] = "edges"
  BY DEF LinkSource, LinkPeer
<1>2. /\ w'[r].ins = w[r].ins /\ w'[r].del = w[r].del /\ w'[r].on = w[r].on
      /\ w'[r].off = w[r].off
      /\ \A q \in Request \ {r} : w'[q] = w[q] /\ at'[q] = at[q] /\ todo'[q] = todo[q]
  <2>1. CASE LinkSource(r)
    BY <2>1 DEF LinkSource, Settled, Ground, TypeOK, HandlersOK, Writes
  <2>2. CASE LinkPeer(r)
    <3> DEFINE m == Memory(r, at[r] - 1)
    <3>1. PICK x \in todo[r] :
             /\ todo' = [todo EXCEPT ![r] = @ \ {x}]
             /\ w' = [w EXCEPT ![r].share = @ \cup {x},
                               ![r].edges = @ \cup {<<m, x, "same_subject">>,
                                                    <<x, m, "same_subject">>}]
      BY <2>2 DEF LinkPeer
    <3>2. at' = at
      BY <2>2 DEF LinkPeer
    <3> QED
      BY <3>1, <3>2 DEF Settled, Ground, TypeOK, HandlersOK, Writes
  <2> QED
    BY <2>1, <2>2
<1>3. OthersKept(r)
  BY <1>1, <1>2 DEF OthersKept
<1>4. CountTold(r)' = CountTold(r)
  BY <1>1 DEF CountTold, cands
<1>5. Planned(r)' = Planned(r)
  BY <1>1, <1>2 DEF Planned, ActiveFor, Visible, store
<1> QED
  BY <1>1, <1>2, <1>3, <1>4, <1>5, QuietBoard DEF Working

LEMMA CloseBoard ==
  ASSUME TypeOK, NEW r \in Request, NEW outcome \in {"done", "failed"}, Close(r, outcome)
  PROVE  Confined(r)' /\ Replays(r)'
<1>1. pc'[r] = outcome
  BY CloseKeepsOthers
<1> QED
  BY <1>1 DEF Confined, Replays, Working

LEMMA RollbackBoard ==
  ASSUME Settled, BoardInv, NEW r \in Request, Rollback(r)
  PROVE  BoardInv'
BY CloseBoard, CloseKeepsOthers, LocalBoard DEF Rollback, Settled, Ground

\* What a commit changes is locked by it, so no turn under way has told its key.
LEMMA CommitBoard ==
  ASSUME Settled, BoardInv, NEW r \in Request, pc[r] = "edges", Commit(r)
  PROVE  BoardInv'
<1>1. job' = job /\ OthersKept(r) /\ Confined(r)' /\ Replays(r)'
  BY CloseBoard, CloseKeepsOthers DEF Commit, Settled, Ground
<1>2. rows' = rows \cup w[r].ins /\ active' = (active \ w[r].off) \cup w[r].on
  BY PlainView DEF Commit, Visible
<1>3. \A x \in w[r].on \cup w[r].off : Hash(KeyOf(x)) \in locks[r]
  BY DEF BoardInv, Confined, Working
<1>4. \A k : Hash(k) \notin locks[r] => Facts(active', k) = Facts(active, k)
  <2> SUFFICES ASSUME NEW k, Hash(k) \notin locks[r]
               PROVE  {x \in active' : KeyOf(x) = k} = {x \in active : KeyOf(x) = k}
    BY DEF Facts
  <2> QED
    BY <1>2, <1>3
<1>5. ASSUME NEW q \in Request \ {r} PROVE Confined(q)' /\ Replays(q)'
  <2>1. /\ pc'[q] = pc[q] /\ at'[q] = at[q] /\ todo'[q] = todo[q] /\ w'[q] = w[q]
        /\ locks'[q] = locks[q]
    BY <1>1, <1>5 DEF OthersKept
  <2>2. CountTold(q)' = CountTold(q) /\ (Working(q)' <=> Working(q)) /\ ThisMemory(q)' = ThisMemory(q)
    BY <1>1, <2>1 DEF CountTold, Working, cands, ThisMemory, Memory
  <2>3. KeysTold(q)' = KeysTold(q)
    BY <1>1, <2>2, RowStable DEF KeysTold, Memory
  <2>4. Confined(q)'
    BY <1>1, <2>1, <2>2, <2>3, RowStable DEF BoardInv, Confined
  <2>5. ActiveFor(q)' = (active' \ w[q].off) \cup w[q].on
    <3>1. w[q].del = {} /\ w[q].on \subseteq w[q].ins /\ active \subseteq rows
      BY PlainView DEF Settled, Ground, TurnsConsistent, Careful, TypeOK, TablesOK
    <3>2. w[r].on \subseteq w[r].ins
      BY DEF Settled, Ground, TurnsConsistent, Careful
    <3>3. active' \subseteq rows'
      BY <1>2, <3>1, <3>2
    <3> QED
      BY <2>1, <3>1, <3>3 DEF ActiveFor, Visible
  <2>6. ASSUME NEW k \in KeysTold(q), Working(q)
        PROVE  /\ Facts(active', k) = Facts(active, k)
               /\ Facts(Planned(q)', k) = Facts(Planned(q), k)
    <3>1. Hash(k) \in locks[q] /\ locks[q] \cap locks[r] = {}
      BY <1>5, <2>6 DEF BoardInv, Confined, Settled, Ground, TurnsConsistent, Exclusive
    <3>2. Hash(k) \notin locks[r]
      BY <3>1
    <3>3. {x \in ActiveFor(q)' : KeyOf(x) = k} = {x \in ActiveFor(q) : KeyOf(x) = k}
      <4>1. ActiveFor(q) = (active \ w[q].off) \cup w[q].on
        BY PlainView
      <4> QED
        BY <1>2, <1>3, <2>5, <3>2, <4>1
    <3>4. {x \in Planned(q)' : KeyOf(x) = k} = {x \in Planned(q) : KeyOf(x) = k}
      BY <2>1, <2>2, <3>3 DEF Planned
    <3> QED
      BY <1>4, <3>2, <3>4 DEF Facts
  <2>7. Replays(q)'
    <3> SUFFICES ASSUME Working(q), NEW B \in AllBoards,
                        \A k \in KeysTold(q) : B[k] = Facts(active', k)
                 PROVE  ViewOn(q, B)' \in After(B, job[q])[CountTold(q)]
      BY <1>1, <2>2, <2>3, FactsStable, AfterStable DEF Replays
    <3>1. \A k \in KeysTold(q) : B[k] = Facts(active, k)
      BY <2>6
    <3>2. ViewOn(q, B)' = ViewOn(q, B)
      BY <1>1, <2>3, <2>6, FactsStable DEF ViewOn
    <3> QED
      BY <3>1, <3>2 DEF BoardInv, Replays
  <2> QED
    BY <2>4, <2>7
<1> QED
  BY <1>1, <1>5 DEF BoardInv

LEMMA StutterBoard == ASSUME BoardInv, UNCHANGED vars PROVE BoardInv'
<1>1. UNCHANGED <<job, pc, at, todo, w, locks, store>>
  BY DEF vars, control
<1> SUFFICES ASSUME NEW q \in Request PROVE Confined(q)' /\ Replays(q)'
  BY DEF BoardInv
<1>2. /\ CountTold(q)' = CountTold(q) /\ (Working(q)' <=> Working(q)) /\ KeysTold(q)' = KeysTold(q)
      /\ active' = active
  BY <1>1, RowStable DEF CountTold, Working, KeysTold, cands, Memory, store
<1>3. Planned(q)' = Planned(q)
  BY <1>1 DEF Planned, ActiveFor, Visible, store, ThisMemory, Memory
<1>4. \A B : ViewOn(q, B)' = ViewOn(q, B)
  BY <1>1, <1>2, <1>3, FactsStable DEF ViewOn
<1>5. Confined(q)'
  BY <1>1, <1>2, RowStable DEF BoardInv, Confined
<1>6. Replays(q)'
  BY <1>1, <1>2, <1>4, FactsStable, AfterStable DEF BoardInv, Replays
<1> QED
  BY <1>5, <1>6

----------------------------------------------------------------------------
\* The steps of a turn, on the board.

LEMMA BoardFacts ==
  ASSUME TypeOK
  PROVE  ActiveFacts \in AllBoards /\ \A k \in ScopeKey : ActiveFacts[k] = Facts(active, k)
<1>1. ASSUME NEW x \in active PROVE Cand(x).object \in Object
  <2>1. x \in rows /\ x \in MemoryRow
    BY DEF TypeOK, TablesOK
  <2>2. x[2] \in Request
    BY <2>1 DEF MemoryRow
  <2>3. Stated(x)
    BY <2>1, <2>2 DEF TypeOK
  <2> QED
    BY <2>1, <2>3, Attributes DEF TypeOK, Candidate
<1> QED
  BY <1>1 DEF ActiveFacts, AllBoards, Facts

\* The commit of a turn is heard.
LEMMA CommitHears ==
  ASSUME Settled, BoardInv, NEW r \in Request, pc[r] = "edges", Commit(r)
  PROVE  Board!Hear(r)
<1>1. /\ job' = job /\ OthersKept(r) /\ pc'[r] = "done"
      /\ active' = ActiveFor(r)
  BY CloseKeepsOthers DEF Commit, Settled, Ground
<1>2. r \notin Answered /\ Answered' = Answered \cup {r}
  BY <1>1 DEF Answered, OthersKept
<1>3. TypeOK /\ job[r].op = "turn" /\ job[r] \in Jobs
  BY DEF Settled, OnlyTurns, Ground, TypeOK, HandlersOK
<1>4. Board!Wipe(ActiveFacts, job[r]) = ActiveFacts
  BY <1>3 DEF Board!Wipe, WipedKeys, ActiveFacts
<1>5. ViewOn(r, ActiveFacts) \in After(ActiveFacts, job[r])[Len(cands(r))]
  <2>1. CountTold(r) = Len(cands(r)) /\ Working(r)
    BY DEF CountTold, Working
  <2>2. KeysTold(r) \subseteq ScopeKey
    <3>1. ASSUME NEW i \in 1..Len(cands(r)) PROVE KeyOf(Memory(r, i)) \in ScopeKey
      <4>1. Len(cands(r)) \in Nat
        BY <1>3, CandidateNumbers
      <4>2. Memory(r, i) \in MemoryRow /\ Stated(Memory(r, i))
        BY <4>1 DEF Memory, MemoryRow, Stated
      <4> QED
        BY <1>3, <4>2, Attributes DEF TypeOK
    <3> QED
      BY <2>1, <3>1 DEF KeysTold
  <2> QED
    BY <1>3, <2>1, <2>2, BoardFacts DEF BoardInv, Replays
<1>6. ActiveFacts' = ViewOn(r, ActiveFacts)
  <2>1. ActiveFacts' = [k \in ScopeKey |-> Facts(ActiveFor(r), k)]
    BY <1>1, RowStable DEF ActiveFacts, Facts
  <2>2. ASSUME NEW k \in ScopeKey, k \notin KeysTold(r)
        PROVE  Facts(ActiveFor(r), k) = Facts(active, k)
    <3>1. \A x \in w[r].on \cup w[r].off : KeyOf(x) # k
      BY <2>2 DEF BoardInv, Confined, Working
    <3>2. ActiveFor(r) = (active \ w[r].off) \cup w[r].on
      BY PlainView
    <3>3. {x \in ActiveFor(r) : KeyOf(x) = k} = {x \in active : KeyOf(x) = k}
      BY <3>1, <3>2
    <3> QED
      BY <3>3 DEF Facts
  <2>3. Planned(r) = ActiveFor(r)
    BY DEF Planned
  <2> QED
    BY <1>3, <2>1, <2>2, <2>3, BoardFacts DEF ViewOn
<1>7. ActiveFacts' \in Board!Boards(Board!Wipe(ActiveFacts, job[r]), job[r])
  BY <1>4, <1>5, <1>6, BoardsAreAfter DEF cands
<1> QED
  BY <1>1, <1>2, <1>7 DEF Board!Hear

\* Every other step of a turn leaves the board as it is.
LEMMA OthersStutter ==
  ASSUME TypeOK, UNCHANGED <<job, store>>,
         \A q \in Request : pc'[q] = "done" <=> pc[q] = "done"
  PROVE  UNCHANGED <<job, ActiveFacts, Answered>>
<1>1. ActiveFacts' = ActiveFacts
  BY RowStable DEF ActiveFacts, store
<1>2. Answered' = Answered
  BY DEF Answered
<1> QED
  BY <1>1, <1>2

LEMMA RollbackStutters ==
  ASSUME TypeOK, NEW r \in Request, pc[r] # "done", Rollback(r)
  PROVE  UNCHANGED <<job, ActiveFacts, Answered>>
<1>1. UNCHANGED <<job, store>> /\ pc'[r] = "failed" /\ \A q \in Request \ {r} : pc'[q] = pc[q]
  BY CloseKeepsOthers DEF Rollback, OthersKept
<1> QED
  BY <1>1, OthersStutter

\* A turn's step keeps the invariant, and is a hearing or a stutter.
LEMMA TurnOnBoard ==
  ASSUME Settled, BoardInv, NEW r \in Request, TurnStep(r)
  PROVE  BoardInv' /\ (Board!Hear(r) \/ UNCHANGED <<job, ActiveFacts, Answered>>)
<1>1. TypeOK
  BY DEF Settled, Ground
<1>2. CASE BeginTurn(r)
  <2>1. UNCHANGED <<job, store>> /\ pc[r] = "waiting" /\ pc'[r] \in {"edges", "reconcile"}
        /\ \A q \in Request \ {r} : pc'[q] = pc[q]
    BY <1>1, <1>2 DEF BeginTurn, Open, TypeOK, HandlersOK
  <2> QED
    BY <1>1, <1>2, <2>1, BeginTurnBoard, OthersStutter
<1>3. CASE Reconcile(r)
  <2>1. UNCHANGED <<job, store>> /\ pc[r] = "reconcile" /\ pc'[r] # "done"
        /\ \A q \in Request \ {r} : pc'[q] = pc[q]
    BY <1>1, <1>3, NextCandidateGoes DEF Reconcile, TypeOK, HandlersOK
  <2> QED
    BY <1>1, <1>3, <2>1, ReconcileBoard, OthersStutter
<1>4. CASE Deactivate(r)
  <2>1. UNCHANGED <<job, pc, store>>
    BY <1>4 DEF Deactivate
  <2> QED
    BY <1>1, <1>4, <2>1, DeactivateBoard, OthersStutter
<1>5. CASE InsertMemory(r)
  <2>1. UNCHANGED <<job, store>> /\ pc[r] = "apply" /\ pc'[r] # "done"
        /\ \A q \in Request \ {r} : pc'[q] = pc[q]
    BY <1>1, <1>5, NextEntityGoes DEF InsertMemory
  <2> QED
    BY <1>1, <1>5, <2>1, InsertMemoryBoard, OthersStutter
<1>6. CASE MentionEntity(r)
  <2>1. UNCHANGED <<job, store>> /\ pc[r] = "mentions" /\ pc'[r] # "done"
        /\ \A q \in Request \ {r} : pc'[q] = pc[q]
    BY <1>1, <1>6, NextEntityGoes DEF MentionEntity
  <2> QED
    BY <1>1, <1>6, <2>1, MentionEntityBoard, OthersStutter
<1>7. CASE LinkSource(r) \/ LinkPeer(r)
  <2>1. UNCHANGED <<job, pc, store>>
    BY <1>7 DEF LinkSource, LinkPeer
  <2> QED
    BY <1>1, <1>7, <2>1, LinkBoard, OthersStutter
<1>8. CASE ForeignKeyError(r)
  BY <1>1, <1>8, RollbackBoard, RollbackStutters DEF ForeignKeyError
<1>9. CASE CommitTurn(r)
  BY <1>9, CommitBoard, CommitHears DEF CommitTurn
<1> QED
  BY <1>2, <1>3, <1>4, <1>5, <1>6, <1>7, <1>8, <1>9 DEF TurnStep

LEMMA NextOnBoard ==
  ASSUME Settled, BoardInv, [Next]_vars
  PROVE  BoardInv' /\ [Board!Next]_<<job, ActiveFacts, Answered>>
<1>1. TypeOK
  BY DEF Settled, Ground
<1>2. CASE UNCHANGED vars
  <2>1. UNCHANGED <<job, store, pc>>
    BY <1>2 DEF vars
  <2> QED
    BY <1>1, <1>2, <2>1, StutterBoard, OthersStutter
<1>3. CASE Next
  <2>1. PICK r \in Request : TurnStep(r) \/ DeleteStep(r) \/ DeadlockVictim(r) \/ Fail(r)
    BY <1>3 DEF Next
  <2>2. job[r].op = "turn" /\ pc[r] \notin Deleting \cup Updating \cup {"commit"}
    BY DEF Settled, OnlyTurns, HistoryInv, Orderly, Parted
  <2>3. CASE TurnStep(r)
    BY <2>3, TurnOnBoard DEF Board!Next
  <2>4. CASE DeleteStep(r)
    BY <2>2, <2>4 DEF DeleteStep, BeginDeleteSession, BeginDeleteUser, NextStatement, VisitRow,
       CommitDelete
  <2>5. CASE DeadlockVictim(r) \/ Fail(r)
    BY <1>1, <2>5, RollbackBoard, RollbackStutters
    DEF DeadlockVictim, Fail, InTransaction, Over
  <2> QED
    BY <2>1, <2>3, <2>4, <2>5
<1> QED
  BY <1>2, <1>3

\* The invariants of the other proofs, where there are turns only.
LEMMA SettledHolds ==
  ASSUME \A j \in Jobs : j.op = "turn"
  PROVE  Spec => []Settled
<1>1. TypeOK => OnlyTurns /\ NoRecompute
  BY DEF TypeOK, HandlersOK, OnlyTurns, NoRecompute
<1> QED
  BY <1>1, TypeCorrect, AdvisoryLocksHold, LinksHold, HistoryKept, PTL DEF Settled, Ground

\* Concurrent ingests are atomic: whatever their statements interleave to, each turn
\* does to the facts what stating its candidates one by one at the moment of its
\* commit would do, and a turn that fails does nothing.  This is what the advisory
\* lock before each reconcile, held to the end, is for.
THEOREM TurnsImplementBoard ==
  ASSUME \A j \in Jobs : j.op = "turn"
  PROVE  Spec => BoardSpec
<1>1. Init => Board!Init /\ BoardInv
  <2> SUFFICES ASSUME Init PROVE Board!Init /\ BoardInv
    OBVIOUS
  <2>1. Board!Init
    BY DEF Init, StoreInit, Board!Init, ActiveFacts, Answered
  <2>2. BoardInv
    BY DEF Init, StoreInit, BoardInv, Confined, Replays, Working
  <2> QED
    BY <2>1, <2>2
<1>2. Settled /\ BoardInv /\ [Next]_vars => BoardInv' /\ [Board!Next]_<<job, ActiveFacts, Answered>>
  BY NextOnBoard
<1>3. Spec => []Settled
  BY SettledHolds
<1> QED
  BY <1>1, <1>2, <1>3, PTL DEF Spec, BoardSpec, Board!Spec

----------------------------------------------------------------------------
\* Turns that take what they need in one order never wait in a circle.

LockOf(k) == <<"lock", Hash(k)>>

\* What a turn waits for on behalf of a candidate: the lock of its key, then the
\* rows of its entities.
LockNeed(j, i) == LockOf(CandidateKey(j, j.cands[i]))
EntityNeed(j, i, n) == Entity(ScopeOf(j), j.cands[i].entities[n])
Names(j, i) == DOMAIN j.cands[i].entities
Needs(j, i) == {LockNeed(j, i)} \cup {EntityNeed(j, i, n) : n \in Names(j, i)}

Resource == {LockOf(k) : k \in ScopeKey} \cup EntityRow

\* An order of locks and entities that every job follows.
OneOrder(rank) ==
    /\ rank \in [Resource -> Nat]
    /\ \A a, b \in Resource : rank[a] = rank[b] => a = b
    /\ \A j \in Jobs : \A i \in DOMAIN j.cands :
          /\ \A n \in Names(j, i) : rank[LockNeed(j, i)] <= rank[EntityNeed(j, i, n)]
          /\ \A m, n \in Names(j, i) :
                m <= n => rank[EntityNeed(j, i, m)] <= rank[EntityNeed(j, i, n)]
          /\ \A l \in DOMAIN j.cands :
                i < l => \A a \in Needs(j, i), b \in Needs(j, l) : rank[a] <= rank[b]

\* What a turn holds to the end of its transaction, of what others may wait for.
Holds(r) == {<<"lock", h>> : h \in locks[r]} \cup ((w[r].ins \cup w[r].touch) \cap EntityRow)

NextEntities(r) == {Entity(ScopeOf(job[r]), names[r][m]) : m \in DOMAIN names[r]}

\* A turn holds nothing before its transaction and after it, visits rows only where
\* it deactivates or links, and updates no row but entities.
Tidy(r) ==
    /\ InTransaction(r) => Working(r)
    /\ ~InTransaction(r) => locks[r] = {} /\ w[r] = NoWrites /\ todo[r] = {}
    /\ pc[r] \in {"reconcile", "mentions"} => todo[r] = {}
    /\ w[r].touch \subseteq EntityRow

\* A turn holds only what candidates it has told needed, and of the one at hand only
\* what comes before what it needs next.
Climbs(r, rank) ==
    Working(r) =>
      /\ \A a \in Holds(r) : \E i \in 1..CountTold(r) : a \in Needs(job[r], i)
      /\ pc[r] = "apply" => \A a \in Holds(r) : \/ a = LockNeed(job[r], at[r])
                                               \/ \E i \in 1..(at[r] - 1) : a \in Needs(job[r], i)
      /\ pc[r] = "mentions" =>
            /\ NextEntities(r) \subseteq Needs(job[r], at[r])
            /\ \A a \in Holds(r), e \in NextEntities(r) : rank[a] <= rank[e]
            /\ \A l, m \in DOMAIN names[r] : l <= m =>
                  rank[Entity(ScopeOf(job[r]), names[r][l])] <=
                  rank[Entity(ScopeOf(job[r]), names[r][m])]

HoldsApart == \A r, q \in Request : r # q => Holds(r) \cap Holds(q) = {}

OrderInv(rank) == HoldsApart /\ \A r \in Request : Tidy(r) /\ Climbs(r, rank)

\* A step of r: what is left to show is about r.
LEMMA LocalOrder ==
  ASSUME NEW rank, OrderInv(rank), NEW r \in Request, job' = job, OthersKept(r),
         \A q \in Request \ {r} : names'[q] = names[q],
         Tidy(r)', Climbs(r, rank)', \A q \in Request \ {r} : Holds(r)' \cap Holds(q) = {}
  PROVE  OrderInv(rank)'
<1>1. ASSUME NEW q \in Request \ {r}
      PROVE  Holds(q)' = Holds(q) /\ Tidy(q)' /\ Climbs(q, rank)'
  <2>1. /\ pc'[q] = pc[q] /\ at'[q] = at[q] /\ todo'[q] = todo[q] /\ w'[q] = w[q]
        /\ locks'[q] = locks[q] /\ names'[q] = names[q]
    BY <1>1 DEF OthersKept
  <2>2. Holds(q)' = Holds(q) /\ CountTold(q)' = CountTold(q) /\ NextEntities(q)' = NextEntities(q)
    BY <2>1 DEF Holds, CountTold, NextEntities, cands
  <2>3. Tidy(q)'
    BY <1>1, <2>1 DEF OrderInv, Tidy, InTransaction, Over, Working
  <2>4. Climbs(q, rank)'
    BY <1>1, <2>1, <2>2 DEF OrderInv, Climbs, Working
  <2> QED
    BY <2>2, <2>3, <2>4
<1>2. HoldsApart'
  BY <1>1 DEF OrderInv, HoldsApart
<1> QED
  BY <1>1, <1>2 DEF OrderInv

\* A step of r that takes nothing and needs what it needed.
LEMMA QuietOrder ==
  ASSUME NEW rank, OrderInv(rank), NEW r \in Request, job' = job, OthersKept(r), names' = names,
         Holds(r)' = Holds(r), pc'[r] = pc[r], pc[r] \in {"apply", "edges"},
         CountTold(r)' = CountTold(r), pc[r] = "apply" => at'[r] = at[r], w'[r].touch = w[r].touch
  PROVE  OrderInv(rank)'
<1>1. Tidy(r)'
  BY DEF OrderInv, Tidy, InTransaction, Over, Working
<1>2. Climbs(r, rank)'
  BY DEF OrderInv, Climbs, Working
<1>3. \A q \in Request \ {r} : Holds(r)' \cap Holds(q) = {}
  BY DEF OrderInv, HoldsApart
<1> QED
  BY <1>1, <1>2, <1>3, LocalOrder

LEMMA CloseOrder ==
  ASSUME TypeOK, NEW rank, OrderInv(rank), NEW r \in Request, NEW outcome \in {"done", "failed"},
         Close(r, outcome)
  PROVE  OrderInv(rank)'
<1>1. /\ job' = job /\ pc'[r] = outcome /\ w'[r] = NoWrites /\ locks'[r] = {} /\ todo'[r] = {}
      /\ \A q \in Request \ {r} : names'[q] = names[q]
  BY DEF Close, TypeOK, HandlersOK
<1>2. OthersKept(r)
  BY CloseKeepsOthers
<1>3. Holds(r)' = {} /\ Tidy(r)' /\ Climbs(r, rank)'
  BY <1>1 DEF Holds, Tidy, Climbs, NoWrites, Working, InTransaction, Over
<1> QED
  BY <1>1, <1>2, <1>3, LocalOrder

LEMMA BeginTurnOrder ==
  ASSUME TypeOK, NEW rank, OrderInv(rank), NEW r \in Request, BeginTurn(r)
  PROVE  OrderInv(rank)'
<1>1. /\ UNCHANGED <<job, names, todo, locks>> /\ at'[r] = 1 /\ pc[r] = "waiting"
      /\ pc'[r] = IF cands(r) = <<>> THEN "edges" ELSE "reconcile"
      /\ w'[r] = [w[r] EXCEPT !.ins = {Turn(r)}]
  BY DEF BeginTurn, Open, TypeOK, HandlersOK
<1>2. OthersKept(r)
  BY DEF BeginTurn, OthersKept, TypeOK, HandlersOK
<1>3. locks[r] = {} /\ w[r] = NoWrites /\ todo[r] = {}
  BY <1>1 DEF OrderInv, Tidy, InTransaction
<1>4. w'[r].ins = {Turn(r)} /\ w'[r].touch = {}
  BY <1>1, <1>3 DEF NoWrites
<1>5. Turn(r) \notin EntityRow
  BY DEF Turn, EntityRow
<1>6. Holds(r)' = {}
  BY <1>1, <1>3, <1>4, <1>5 DEF Holds
<1>7. Tidy(r)'
  BY <1>1, <1>3, <1>4 DEF Tidy, InTransaction, Over, Working
<1>8. Climbs(r, rank)'
  BY <1>1, <1>6 DEF Climbs
<1> QED
  BY <1>1, <1>2, <1>6, <1>7, <1>8, LocalOrder

\* The candidate at hand is one of the job's.
LEMMA ThisCandidate ==
  ASSUME TypeOK, NEW r \in Request, at[r] \in 1..Len(cands(r))
  PROVE  /\ job[r] \in Jobs /\ cands(r) = job[r].cands
         /\ DOMAIN job[r].cands = 1..Len(cands(r)) /\ Len(cands(r)) \in Nat
         /\ \A i \in DOMAIN job[r].cands :
               /\ job[r].cands[i].entities \in Seq(Name)
               /\ Names(job[r], i) = 1..Len(job[r].cands[i].entities)
               /\ Needs(job[r], i) \subseteq Resource
         /\ Cand(ThisMemory(r)) = job[r].cands[at[r]]
         /\ LockOf(KeyOf(ThisMemory(r))) = LockNeed(job[r], at[r])
<1>1. job[r] \in Jobs /\ cands(r) = job[r].cands /\ job[r] \in Job
  BY StoreAssumption DEF TypeOK, HandlersOK, cands
<1>2. DOMAIN job[r].cands = 1..Len(cands(r)) /\ Len(cands(r)) \in Nat
  BY <1>1, CandidateNumbers
<1>3. ASSUME NEW i \in DOMAIN job[r].cands
      PROVE  /\ job[r].cands[i].entities \in Seq(Name)
             /\ Names(job[r], i) = 1..Len(job[r].cands[i].entities)
             /\ Needs(job[r], i) \subseteq Resource
  <2> DEFINE c == job[r].cands[i]
  <2>1. c \in Candidate
    BY <1>1 DEF Job
  <2>2. c.entities \in Seq(Name) /\ Names(job[r], i) = 1..Len(c.entities)
    BY <2>1 DEF Candidate, Names
  <2>3. ScopeOf(job[r]) \in Scope
    BY <1>1 DEF Job, ScopeOf, Scope
  <2>4. CandidateKey(job[r], c) \in ScopeKey
    BY <2>1, <2>3 DEF CandidateKey, ScopeKey, Candidate
  <2>5. \A n \in Names(job[r], i) : EntityNeed(job[r], i, n) \in EntityRow
    BY <2>2, <2>3 DEF EntityNeed, Entity, EntityRow
  <2> QED
    BY <2>2, <2>4, <2>5 DEF Needs, LockNeed, Resource
<1>4. Cand(ThisMemory(r)) = job[r].cands[at[r]]
  BY DEF Cand, ThisMemory, Memory
<1>5. KeyOf(ThisMemory(r)) = CandidateKey(job[r], job[r].cands[at[r]])
  BY <1>4 DEF KeyOf, CandidateKey, ThisMemory, Memory
<1> QED
  BY <1>1, <1>2, <1>3, <1>4, <1>5 DEF LockNeed

\* The lock of the candidate's key is taken; nobody else holds it.
LEMMA ReconcileOrder ==
  ASSUME TypeOK, NEW rank, OrderInv(rank), NEW r \in Request, Reconcile(r)
  PROVE  OrderInv(rank)'
<1> DEFINE k == KeyOf(ThisMemory(r))
<1>1. /\ UNCHANGED <<job, names, w>> /\ pc[r] = "reconcile" /\ LockFree(r, k)
      /\ locks' = [locks EXCEPT ![r] = @ \cup {Hash(k)}]
  BY DEF Reconcile
<1>2. PICK d \in Decisions(Cand(ThisMemory(r)), Rivals(r, k)) :
         /\ todo' = [todo EXCEPT ![r] = d.deactivate]
         /\ sup' = [sup EXCEPT ![r] = d.supersedes]
         /\ IF d.insert
            THEN pc' = [pc EXCEPT ![r] = "apply"] /\ UNCHANGED at
            ELSE NextCandidate(r)
  BY DEF Reconcile
<1>3. at[r] \in 1..Len(cands(r)) /\ Len(cands(r)) \in Nat /\ at[r] \in Nat
  BY <1>1, CandidateNumbers DEF TypeOK, Placed
<1>4. OthersKept(r)
  BY <1>1, <1>2, <1>3, NextCandidateGoes DEF OthersKept, TypeOK, HandlersOK
<1>5. /\ CountTold(r)' = at[r] /\ CountTold(r) = at[r] - 1 /\ Working(r)
      /\ d.insert => pc'[r] = "apply" /\ at'[r] = at[r]
      /\ ~d.insert => pc'[r] \in {"reconcile", "edges"}
  <2>1. CASE d.insert
    BY <1>1, <1>2, <1>3, <2>1 DEF CountTold, Working, TypeOK, HandlersOK
  <2>2. CASE ~d.insert
    BY <1>1, <1>2, <1>3, <2>2, LoopTold, NextCandidateGoes DEF CountTold, Working
  <2> QED
    BY <2>1, <2>2
<1>6. locks'[r] = locks[r] \cup {Hash(k)}
  BY <1>1 DEF TypeOK, HandlersOK
<1>7. Holds(r)' = Holds(r) \cup {LockOf(k)}
  BY <1>1, <1>6 DEF Holds, LockOf
<1>8. LockOf(k) = LockNeed(job[r], at[r])
  BY <1>3, ThisCandidate
<1>9. ASSUME NEW q \in Request \ {r} PROVE Holds(r)' \cap Holds(q) = {}
  <2>1. LockOf(k) \notin EntityRow
    BY DEF LockOf, EntityRow
  <2>2. LockOf(k) \notin Holds(q)
    BY <1>1, <2>1 DEF LockFree, Holds, LockOf
  <2> QED
    BY <1>7, <2>2 DEF OrderInv, HoldsApart
<1>10. Tidy(r)'
  <2>1. ~d.insert => d.deactivate = {}
    BY DEF Decisions, Insert, Skip
  <2>2. pc'[r] # "mentions" /\ todo'[r] = d.deactivate /\ w'[r].touch = w[r].touch
    BY <1>1, <1>2, <1>5 DEF TypeOK, HandlersOK
  <2> QED
    BY <1>5, <2>1, <2>2 DEF OrderInv, Tidy, InTransaction, Over, Working
<1>11. Climbs(r, rank)'
  <2>1. ASSUME NEW a \in Holds(r)'
        PROVE  a = LockNeed(job[r], at[r]) \/ \E i \in 1..(at[r] - 1) : a \in Needs(job[r], i)
    BY <1>5, <1>7, <1>8 DEF OrderInv, Climbs
  <2>2. LockNeed(job[r], at[r]) \in Needs(job[r], at[r])
    BY DEF Needs
  <2>3. 1..(at[r] - 1) \subseteq 1..at[r] /\ at[r] \in 1..at[r]
    BY <1>3
  <2> QED
    BY <1>1, <1>5, <2>1, <2>2, <2>3 DEF Climbs
<1> QED
  BY <1>1, <1>4, <1>9, <1>10, <1>11, LocalOrder

LEMMA InsertMemoryOrder ==
  ASSUME TypeOK, NEW rank, OneOrder(rank), OrderInv(rank), NEW r \in Request, InsertMemory(r)
  PROVE  OrderInv(rank)'
<1> DEFINE m == ThisMemory(r)
           rest == Cand(m).entities
<1>1. /\ UNCHANGED <<job, todo, locks>> /\ pc[r] = "apply" /\ todo[r] = {}
      /\ sup' = [sup EXCEPT ![r] = {}] /\ NextEntity(r, rest)
  BY DEF InsertMemory
<1>2. at[r] \in 1..Len(cands(r)) /\ Len(cands(r)) \in Nat /\ at[r] \in Nat
  BY <1>1, CandidateNumbers DEF TypeOK, Placed
<1>3. /\ w'[r].ins = w[r].ins \cup {m} /\ w'[r].touch = w[r].touch
      /\ \A q \in Request \ {r} : w'[q] = w[q]
  BY DEF InsertMemory, TypeOK, HandlersOK, Writes
<1>4. /\ \A q \in Request \ {r} : pc'[q] = pc[q] /\ at'[q] = at[q] /\ names'[q] = names[q]
      /\ names'[r] = rest
  BY <1>1, NextEntityGoes DEF NextEntity, TypeOK, HandlersOK
<1>5. OthersKept(r)
  BY <1>1, <1>3, <1>4 DEF OthersKept, TypeOK, HandlersOK
<1>6. m \notin EntityRow
  BY DEF ThisMemory, Memory, EntityRow
<1>7. Holds(r)' = Holds(r)
  BY <1>1, <1>3, <1>6 DEF Holds
<1>8. /\ CountTold(r)' = at[r] /\ CountTold(r) = at[r] /\ Working(r) /\ pc'[r] # "apply"
      /\ pc'[r] \in {"reconcile", "mentions", "edges"}
      /\ pc'[r] = "mentions" => at'[r] = at[r]
  <2>1. CASE rest = <<>>
    BY <1>1, <1>2, <2>1, LoopTold, NextCandidateGoes DEF NextEntity, CountTold, Working
  <2>2. CASE rest # <<>>
    BY <1>1, <1>2, <2>2 DEF NextEntity, CountTold, Working, TypeOK, HandlersOK
  <2> QED
    BY <2>1, <2>2
<1>9. Tidy(r)'
  BY <1>1, <1>3, <1>8 DEF OrderInv, Tidy, InTransaction, Over, Working
<1>10. Climbs(r, rank)'
  <2> DEFINE j == job[r]
             E(n) == Entity(ScopeOf(j), rest[n])
  <2>1. /\ at[r] \in DOMAIN j.cands /\ rest = j.cands[at[r]].entities /\ j \in Jobs
        /\ DOMAIN rest = Names(j, at[r])
    BY <1>2, ThisCandidate DEF Names
  <2>2. \A n \in DOMAIN rest : E(n) = EntityNeed(j, at[r], n) /\ E(n) \in Needs(j, at[r])
    BY <2>1 DEF EntityNeed, Needs
  <2>3. ASSUME NEW a \in Holds(r), NEW n \in DOMAIN rest PROVE rank[a] <= rank[E(n)]
    <3>1. CASE a = LockNeed(j, at[r])
      BY <2>1, <2>2, <3>1 DEF OneOrder
    <3>2. CASE \E i \in 1..(at[r] - 1) : a \in Needs(j, i)
      <4>1. PICK i \in 1..(at[r] - 1) : a \in Needs(j, i)
        BY <3>2
      <4>2. i \in DOMAIN j.cands /\ i < at[r]
        BY <1>2, <4>1, ThisCandidate
      <4> QED
        BY <2>1, <2>2, <4>1, <4>2 DEF OneOrder
    <3> QED
      BY <1>1, <3>1, <3>2 DEF OrderInv, Climbs, Working
  <2>4. \A l, n \in DOMAIN rest : l <= n => rank[E(l)] <= rank[E(n)]
    BY <2>1, <2>2 DEF OneOrder
  <2>5. NextEntities(r)' = {E(n) : n \in DOMAIN rest}
    BY <1>1, <1>4 DEF NextEntities
  <2>6. pc'[r] = "mentions" =>
            /\ NextEntities(r)' \subseteq Needs(j, at'[r])
            /\ \A a \in Holds(r)', e \in NextEntities(r)' : rank[a] <= rank[e]
            /\ \A l, n \in DOMAIN names'[r] : l <= n =>
                  rank[Entity(ScopeOf(j), names'[r][l])] <= rank[Entity(ScopeOf(j), names'[r][n])]
    BY <1>4, <1>7, <1>8, <2>2, <2>3, <2>4, <2>5
  <2>7. \A a \in Holds(r)' : \E i \in 1..CountTold(r)' : a \in Needs(j, i)
    BY <1>7, <1>8 DEF OrderInv, Climbs
  <2> QED
    BY <1>1, <1>8, <2>6, <2>7 DEF Climbs
<1>11. \A q \in Request \ {r} : Holds(r)' \cap Holds(q) = {}
  BY <1>7 DEF OrderInv, HoldsApart
<1> QED
  BY <1>1, <1>4, <1>5, <1>9, <1>10, <1>11, LocalOrder

\* The entity is free for the turn, and comes before those still to be mentioned.
LEMMA MentionEntityOrder ==
  ASSUME TypeOK, NEW rank, OrderInv(rank), NEW r \in Request, w[r].del = {}, MentionEntity(r)
  PROVE  OrderInv(rank)'
<1> DEFINE e == ThisEntity(r)
           E(n) == Entity(ScopeOf(job[r]), names[r][n])
<1>1. /\ UNCHANGED <<job, todo, sup, locks>> /\ pc[r] = "mentions" /\ Free(r, e, "update")
      /\ NextEntity(r, Tail(names[r]))
  BY DEF MentionEntity
<1>2. /\ at[r] \in 1..Len(cands(r)) /\ Len(cands(r)) \in Nat /\ at[r] \in Nat
      /\ names[r] \in Seq(Name) /\ names[r] # <<>>
  BY <1>1, CandidateNumbers DEF TypeOK, Placed, HandlersOK
<1>3. /\ w'[r].ins = w[r].ins \cup ({e} \ Visible(r))
      /\ w'[r].touch = w[r].touch \cup ({e} \cap Visible(r))
      /\ \A q \in Request \ {r} : w'[q] = w[q]
  BY DEF MentionEntity, TypeOK, HandlersOK, Writes
<1>4. /\ \A q \in Request \ {r} : pc'[q] = pc[q] /\ at'[q] = at[q] /\ names'[q] = names[q]
      /\ names'[r] = Tail(names[r])
  BY <1>1, NextEntityGoes DEF NextEntity, TypeOK, HandlersOK
<1>5. OthersKept(r)
  BY <1>1, <1>3, <1>4 DEF OthersKept
<1>6. 1 \in DOMAIN names[r] /\ e = E(1)
  BY <1>2 DEF ThisEntity
<1>7. e \in NextEntities(r)
  BY <1>6 DEF NextEntities
<1>8. e \in EntityRow
  <2>1. job[r] \in Job /\ names[r][1] \in Name
    BY <1>2, StoreAssumption DEF TypeOK, HandlersOK
  <2>2. ScopeOf(job[r]) \in Scope
    BY <2>1 DEF Job, ScopeOf, Scope
  <2> QED
    BY <1>6, <2>1, <2>2 DEF Entity, EntityRow
<1>9. Holds(r)' = Holds(r) \cup {e}
  BY <1>1, <1>3, <1>8 DEF Holds
<1>10. /\ CountTold(r)' = at[r] /\ CountTold(r) = at[r] /\ Working(r) /\ pc'[r] # "apply"
       /\ pc'[r] \in {"reconcile", "mentions", "edges"}
       /\ pc'[r] = "mentions" => at'[r] = at[r]
  <2>1. CASE Tail(names[r]) = <<>>
    BY <1>1, <1>2, <2>1, LoopTold, NextCandidateGoes DEF NextEntity, CountTold, Working
  <2>2. CASE Tail(names[r]) # <<>>
    BY <1>1, <1>2, <2>2 DEF NextEntity, CountTold, Working, TypeOK, HandlersOK
  <2> QED
    BY <2>1, <2>2
<1>11. ASSUME NEW q \in Request \ {r} PROVE Holds(r)' \cap Holds(q) = {}
  <2>1. e \notin w[q].ins \cup w[q].touch
    BY <1>1 DEF Free, Barred
  <2>2. \A h : e # <<"lock", h>>
    BY <1>8 DEF EntityRow
  <2> QED
    BY <1>9, <2>1, <2>2 DEF OrderInv, HoldsApart, Holds
<1>12. Tidy(r)'
  <2>1. todo'[r] = {} /\ w'[r].touch \subseteq EntityRow
    BY <1>1, <1>3, <1>8 DEF OrderInv, Tidy
  <2> QED
    BY <1>10, <2>1 DEF Tidy, InTransaction, Over, Working
<1>13. Climbs(r, rank)'
  <2>1. /\ NextEntities(r) \subseteq Needs(job[r], at[r])
        /\ \A a \in Holds(r), x \in NextEntities(r) : rank[a] <= rank[x]
        /\ \A l, m \in DOMAIN names[r] : l <= m => rank[E(l)] <= rank[E(m)]
        /\ \A a \in Holds(r) : \E i \in 1..CountTold(r) : a \in Needs(job[r], i)
    BY <1>1, <1>10 DEF OrderInv, Climbs
  <2>2. at[r] \in 1..at[r]
    BY <1>2
  <2>3. \A a \in Holds(r)' : \E i \in 1..CountTold(r)' : a \in Needs(job[r], i)
    BY <1>7, <1>9, <1>10, <2>1, <2>2
  <2>4. \A m \in DOMAIN Tail(names[r]) : /\ m + 1 \in DOMAIN names[r] /\ m \in Nat
                                        /\ Tail(names[r])[m] = names[r][m + 1]
    BY <1>2
  <2>5. \A m \in DOMAIN Tail(names[r]) :
           /\ Entity(ScopeOf(job[r]), Tail(names[r])[m]) = E(m + 1)
           /\ E(m + 1) \in NextEntities(r) /\ rank[E(1)] <= rank[E(m + 1)]
    BY <1>6, <2>1, <2>4 DEF NextEntities
  <2>6. NextEntities(r)' = {E(m + 1) : m \in DOMAIN Tail(names[r])}
    BY <1>1, <1>4, <2>5 DEF NextEntities
  <2>7. \A a \in Holds(r)', x \in NextEntities(r)' : rank[a] <= rank[x]
    BY <1>6, <1>9, <2>1, <2>5, <2>6
  <2>8. \A l, m \in DOMAIN Tail(names[r]) : l <= m => rank[E(l + 1)] <= rank[E(m + 1)]
    BY <2>1, <2>4
  <2>9. pc'[r] = "mentions" =>
            /\ NextEntities(r)' \subseteq Needs(job[r], at'[r])
            /\ \A l, m \in DOMAIN names'[r] : l <= m =>
                  rank[Entity(ScopeOf(job[r]), names'[r][l])] <=
                  rank[Entity(ScopeOf(job[r]), names'[r][m])]
    BY <1>4, <1>10, <2>1, <2>5, <2>6, <2>8
  <2> QED
    BY <1>1, <1>10, <2>3, <2>7, <2>9 DEF Climbs
<1> QED
  BY <1>1, <1>4, <1>5, <1>11, <1>12, <1>13, LocalOrder

LEMMA RestOrder ==
  ASSUME TypeOK, NEW rank, OrderInv(rank), NEW r \in Request,
         Deactivate(r) \/ LinkSource(r) \/ LinkPeer(r)
  PROVE  OrderInv(rank)'
<1>1. UNCHANGED <<job, pc, sup, names, locks>> /\ pc[r] \in {"apply", "edges"}
      /\ (pc[r] = "edges" \/ at' = at)
  BY DEF Deactivate, LinkSource, LinkPeer
<1>2. /\ w'[r].ins = w[r].ins /\ w'[r].touch = w[r].touch
      /\ \A q \in Request \ {r} : w'[q] = w[q] /\ at'[q] = at[q] /\ todo'[q] = todo[q]
  <2>1. CASE Deactivate(r)
    <3>1. PICK x \in todo[r] :
             /\ todo' = [todo EXCEPT ![r] = @ \ {x}]
             /\ w' = IF x \in Visible(r)
                     THEN [w EXCEPT ![r].off = @ \cup {x}, ![r].on = @ \ {x}]
                     ELSE w
      BY <2>1 DEF Deactivate
    <3>2. at' = at
      BY <2>1 DEF Deactivate
    <3>3. CASE x \in Visible(r)
      <4>1. w' = [w EXCEPT ![r].off = @ \cup {x}, ![r].on = @ \ {x}]
        BY <3>1, <3>3
      <4> QED
        BY <3>1, <3>2, <4>1 DEF TypeOK, HandlersOK, Writes
    <3>4. CASE x \notin Visible(r)
      BY <3>1, <3>2, <3>4 DEF TypeOK, HandlersOK, Writes
    <3> QED
      BY <3>3, <3>4
  <2>2. CASE LinkSource(r)
    BY <2>2 DEF LinkSource, TypeOK, HandlersOK, Writes
  <2>3. CASE LinkPeer(r)
    <3> DEFINE m == Memory(r, at[r] - 1)
    <3>1. PICK x \in todo[r] :
             /\ todo' = [todo EXCEPT ![r] = @ \ {x}]
             /\ w' = [w EXCEPT ![r].share = @ \cup {x},
                               ![r].edges = @ \cup {<<m, x, "same_subject">>,
                                                    <<x, m, "same_subject">>}]
      BY <2>3 DEF LinkPeer
    <3>2. at' = at
      BY <2>3 DEF LinkPeer
    <3> QED
      BY <3>1, <3>2 DEF TypeOK, HandlersOK, Writes
  <2> QED
    BY <2>1, <2>2, <2>3
<1>3. OthersKept(r)
  BY <1>1, <1>2 DEF OthersKept
<1>4. Holds(r)' = Holds(r)
  BY <1>1, <1>2 DEF Holds
<1>5. CountTold(r)' = CountTold(r)
  BY <1>1 DEF CountTold, cands
<1> QED
  BY <1>1, <1>2, <1>3, <1>4, <1>5, QuietOrder

LEMMA StutterOrder == ASSUME NEW rank, OrderInv(rank), UNCHANGED vars PROVE OrderInv(rank)'
<1>1. UNCHANGED <<job, pc, at, todo, names, w, locks>>
  BY DEF vars, control
<1>2. \A q \in Request : /\ Holds(q)' = Holds(q) /\ CountTold(q)' = CountTold(q)
                         /\ NextEntities(q)' = NextEntities(q)
  BY <1>1 DEF Holds, CountTold, NextEntities, cands
<1>3. HoldsApart'
  BY <1>2 DEF OrderInv, HoldsApart
<1>4. ASSUME NEW q \in Request PROVE Tidy(q)' /\ Climbs(q, rank)'
  <2>1. Tidy(q)'
    BY <1>1 DEF OrderInv, Tidy, InTransaction, Over, Working
  <2>2. Climbs(q, rank)'
    BY <1>1, <1>2 DEF OrderInv, Climbs, Working
  <2> QED
    BY <2>1, <2>2
<1> QED
  BY <1>3, <1>4 DEF OrderInv

LEMMA NextOrder ==
  ASSUME Settled, NEW rank, OneOrder(rank), OrderInv(rank), [Next]_vars
  PROVE  OrderInv(rank)'
<1>1. TypeOK
  BY DEF Settled, Ground
<1>2. CASE UNCHANGED vars
  BY <1>2, StutterOrder
<1>3. CASE Next
  <2>1. PICK r \in Request : TurnStep(r) \/ DeleteStep(r) \/ DeadlockVictim(r) \/ Fail(r)
    BY <1>3 DEF Next
  <2>2. /\ job[r].op = "turn" /\ pc[r] \notin Deleting \cup Updating \cup {"commit"}
        /\ w[r].del = {}
    BY DEF Settled, OnlyTurns, HistoryInv, Orderly, Parted
  <2>3. Rollback(r) \/ Commit(r) => OrderInv(rank)'
    BY <1>1, CloseOrder DEF Rollback, Commit
  <2>4. CASE TurnStep(r)
    BY <1>1, <2>2, <2>3, <2>4, BeginTurnOrder, ReconcileOrder, InsertMemoryOrder,
       MentionEntityOrder, RestOrder
    DEF TurnStep, ForeignKeyError, CommitTurn
  <2>5. CASE DeleteStep(r)
    BY <2>2, <2>5 DEF DeleteStep, BeginDeleteSession, BeginDeleteUser, NextStatement, VisitRow,
       CommitDelete
  <2>6. CASE DeadlockVictim(r) \/ Fail(r)
    BY <2>3, <2>6 DEF DeadlockVictim, Fail
  <2> QED
    BY <2>1, <2>4, <2>5, <2>6
<1> QED
  BY <1>2, <1>3

\* What a waiting turn needs: the lock of its candidate or its next entity.  The rows
\* it deactivates are under locks it holds, and the foreign keys of its edges wait
\* for nothing but a delete.
Wanted(r) ==
    IF pc[r] = "reconcile" THEN LockNeed(job[r], at[r]) ELSE ThisEntity(r)

LEMMA WaitsForWanted ==
  ASSUME Settled, NEW rank, OrderInv(rank), NEW p \in Request, InTransaction(p),
         NEW q \in Request, WaitsFor(p, q)
  PROVE  pc[p] \in {"reconcile", "mentions"} /\ Wanted(p) \in Holds(q)
<1>1. TypeOK /\ w[q].del = {} /\ p # q
  BY DEF Settled, Ground, OnlyTurns, HistoryInv, Orderly, Parted, WaitsFor
<1>2. Tidy(p) /\ Tidy(q) /\ Working(p)
  BY DEF OrderInv, Tidy
<1>3. CASE pc[p] = "reconcile"
  <2>1. NextRows(p) = {}
    BY <1>2, <1>3 DEF Tidy, NextRows
  <2>2. Hash(KeyOf(ThisMemory(p))) \in locks[q]
    BY <2>1 DEF WaitsFor
  <2>3. LockOf(KeyOf(ThisMemory(p))) = LockNeed(job[p], at[p])
    BY <1>1, <1>3, ThisCandidate DEF TypeOK, Placed
  <2> QED
    BY <1>3, <2>2, <2>3 DEF Wanted, Holds, LockOf
<1>4. CASE pc[p] = "mentions"
  <2> DEFINE e == ThisEntity(p)
  <2>1. e \in Barred(q, "update")
    BY <1>4 DEF WaitsFor, NextRows, LockMode, Mode, Deleting
  <2>2. e \in EntityRow
    <3>1. names[p] \in Seq(Name) /\ names[p] # <<>> /\ job[p] \in Job
      BY <1>1, <1>4, StoreAssumption DEF TypeOK, HandlersOK, Placed
    <3>2. Head(names[p]) \in Name /\ ScopeOf(job[p]) \in Scope
      BY <3>1 DEF Job, ScopeOf, Scope
    <3> QED
      BY <3>2 DEF ThisEntity, Entity, EntityRow
  <2>3. e \notin w[q].on \cup w[q].off
    <3>1. w[q] \in Writes
      BY <1>1 DEF TypeOK, HandlersOK
    <3> QED
      BY <2>2, <3>1 DEF Writes, MemoryRow, EntityRow
  <2>4. e \in w[q].ins \cup w[q].touch
    BY <1>1, <2>1, <2>3 DEF Barred
  <2> QED
    BY <1>4, <2>2, <2>4 DEF Wanted, Holds
<1>5. pc[p] # "apply"
  <2> SUFFICES ASSUME pc[p] = "apply" PROVE FALSE
    OBVIOUS
  <2>1. PICK x \in todo[p] : x \in Barred(q, "update")
    BY DEF WaitsFor, NextRows, LockMode, Mode, Deleting
  <2>2. Hash(KeyOf(x)) \in locks[p] /\ x \in MemoryRow
    BY <2>1 DEF Settled, Ground, TypeOK, Placed, HistoryInv, Orderly, Pending, InKey,
       TurnsConsistent, Careful
  <2>3. x \notin w[q].touch
    BY <1>2, <2>2 DEF Tidy, MemoryRow, EntityRow
  <2>4. x \in Inserted(q) \cup w[q].on \cup w[q].off
    BY <1>1, <2>1, <2>2, <2>3 DEF Barred, Inserted
  <2>5. Hash(KeyOf(x)) \in locks[q]
    BY <2>4 DEF Settled, Ground, HistoryInv, Orderly, Linked, TurnsConsistent, Careful
  <2> QED
    BY <1>1, <2>2, <2>5 DEF Settled, Ground, TurnsConsistent, Exclusive
<1>6. pc[p] # "edges"
  <2> SUFFICES ASSUME pc[p] = "edges" PROVE FALSE
    OBVIOUS
  <2>1. NextRows(p) \cap Barred(q, "share") # {}
    BY DEF WaitsFor, LockMode
  <2> QED
    BY <1>1, <2>1 DEF Barred
<1> QED
  BY <1>2, <1>3, <1>4, <1>5, <1>6 DEF Working

\* What a turn wants comes after all it holds.
LEMMA WantedIsLater ==
  ASSUME Settled, NEW rank, OneOrder(rank), OrderInv(rank), NEW q \in Request,
         pc[q] \in {"reconcile", "mentions"}, NEW a \in Holds(q)
  PROVE  rank[a] <= rank[Wanted(q)]
<1>1. TypeOK /\ at[q] \in 1..Len(cands(q))
  BY DEF Settled, Ground, TypeOK, Placed
<1>2. CASE pc[q] = "reconcile"
  <2>1. PICK i \in 1..(at[q] - 1) : a \in Needs(job[q], i)
    BY <1>2 DEF OrderInv, Climbs, Working, CountTold
  <2>2. i \in DOMAIN job[q].cands /\ at[q] \in DOMAIN job[q].cands /\ i < at[q] /\ job[q] \in Jobs
    BY <1>1, <2>1, ThisCandidate
  <2>3. LockNeed(job[q], at[q]) \in Needs(job[q], at[q])
    BY DEF Needs
  <2> QED
    BY <1>2, <2>1, <2>2, <2>3 DEF OneOrder, Wanted
<1>3. CASE pc[q] = "mentions"
  <2>1. names[q] \in Seq(Name) /\ names[q] # <<>>
    BY <1>3 DEF Settled, Ground, TypeOK, HandlersOK, Placed
  <2>2. ThisEntity(q) \in NextEntities(q)
    BY <2>1 DEF ThisEntity, NextEntities
  <2> QED
    BY <1>3, <2>2 DEF OrderInv, Climbs, Working, Wanted
<1> QED
  BY <1>2, <1>3

LEMMA OneOrderNoCycle ==
  ASSUME Settled, NEW rank, OneOrder(rank), OrderInv(rank)
  PROVE  NoDeadlock
<1> SUFFICES ASSUME NEW r \in Request, InCycle(r) PROVE FALSE
  BY DEF NoDeadlock
<1> DEFINE T == {q \in Request : InTransaction(q)}
           Later == {q \in T : Blockers(q) = {} \/ rank[Wanted(q)] > rank[Wanted(r)]}
<1>1. ASSUME NEW p \in T, NEW q \in Blockers(p)
      PROVE  /\ q \in T
             /\ Wanted(p) \in Holds(q) /\ Wanted(p) \in Resource
             /\ Blockers(q) # {} => rank[Wanted(q)] > rank[Wanted(p)]
  <2>1. q \in Request /\ WaitsFor(p, q)
    BY DEF Blockers
  <2>2. pc[p] \in {"reconcile", "mentions"} /\ Wanted(p) \in Holds(q)
    BY <2>1, WaitsForWanted
  <2>3. q \in T
    BY <2>1, <2>2 DEF OrderInv, Tidy, Holds, NoWrites
  <2>4. ASSUME NEW z \in T, pc[z] \in {"reconcile", "mentions"} PROVE Wanted(z) \in Resource
    <3>1. TypeOK /\ at[z] \in 1..Len(cands(z))
      BY <2>4 DEF Settled, Ground, TypeOK, Placed
    <3>2. at[z] \in DOMAIN job[z].cands /\ Needs(job[z], at[z]) \subseteq Resource
      BY <3>1, ThisCandidate
    <3>3. CASE pc[z] = "reconcile"
      BY <3>2, <3>3 DEF Wanted, Needs
    <3>4. CASE pc[z] = "mentions"
      <4>1. names[z] \in Seq(Name) /\ names[z] # <<>>
        BY <3>1, <3>4 DEF TypeOK, HandlersOK, Placed
      <4>2. ThisEntity(z) \in NextEntities(z)
        BY <4>1 DEF ThisEntity, NextEntities
      <4> QED
        BY <3>2, <3>4, <4>2 DEF Wanted, OrderInv, Climbs, Working
    <3> QED
      BY <2>4, <3>3, <3>4
  <2>5. ASSUME Blockers(q) # {} PROVE rank[Wanted(q)] > rank[Wanted(p)]
    <3>1. PICK z \in Request : WaitsFor(q, z)
      BY <2>5 DEF Blockers
    <3>2. pc[q] \in {"reconcile", "mentions"} /\ Wanted(q) \in Holds(z) /\ z # q
      BY <2>3, <3>1, WaitsForWanted DEF WaitsFor
    <3>3. rank[Wanted(p)] <= rank[Wanted(q)]
      BY <2>1, <2>2, <3>2, WantedIsLater
    <3>4. Wanted(q) # Wanted(p)
      BY <2>1, <2>2, <3>2 DEF OrderInv, HoldsApart
    <3>5. Wanted(p) \in Resource /\ Wanted(q) \in Resource
      BY <2>2, <2>3, <2>4, <3>2
    <3>6. rank[Wanted(p)] \in Nat /\ rank[Wanted(q)] \in Nat /\ rank[Wanted(p)] # rank[Wanted(q)]
      BY <3>4, <3>5 DEF OneOrder
    <3> QED
      BY <3>3, <3>6
  <2> QED
    BY <2>2, <2>3, <2>4, <2>5
<1>2. CASE ~InTransaction(r) \/ Blockers(r) = {}
  <2>1. Blockers(r) = {}
    <3>1. CASE ~InTransaction(r)
      <4>1. todo[r] = {} /\ pc[r] \notin {"reconcile", "mentions"}
        BY <3>1 DEF OrderInv, Tidy, InTransaction, Over
      <4> QED
        BY <4>1 DEF Blockers, WaitsFor, NextRows
    <3> QED
      BY <1>2, <3>1
  <2>2. r \in {}
    BY <2>1 DEF InCycle
  <2> QED
    BY <2>2
<1>3. CASE InTransaction(r) /\ Blockers(r) # {}
  <2>1. Later \in SUBSET T /\ r \in T
    BY <1>3
  <2>2. Blockers(r) \subseteq Later
    BY <1>1, <2>1
  <2>3. ASSUME NEW q \in Later, NEW z \in Blockers(q) PROVE z \in Later
    <3>1. rank[Wanted(q)] > rank[Wanted(r)] /\ q \in T
      BY <2>3
    <3>2. /\ z \in T /\ Wanted(q) \in Resource
          /\ Blockers(z) # {} => rank[Wanted(z)] > rank[Wanted(q)]
      BY <1>1, <2>3, <3>1
    <3>3. Wanted(r) \in Resource
      BY <1>1, <1>3, <2>1
    <3>4. CASE Blockers(z) = {}
      BY <3>2, <3>4
    <3>5. CASE Blockers(z) # {}
      <4>1. Wanted(z) \in Resource
        BY <1>1, <3>2, <3>5
      <4>2. rank[Wanted(z)] \in Nat /\ rank[Wanted(q)] \in Nat /\ rank[Wanted(r)] \in Nat
        BY <3>2, <3>3, <4>1 DEF OneOrder
      <4> QED
        BY <3>1, <3>2, <3>5, <4>2
    <3> QED
      BY <3>4, <3>5
  <2>4. ~(rank[Wanted(r)] > rank[Wanted(r)])
    <3>1. Wanted(r) \in Resource
      BY <1>1, <1>3, <2>1
    <3> QED
      BY <3>1 DEF OneOrder
  <2>5. r \notin Later
    BY <1>3, <2>4
  <2>6. Blockers(r) \cup UNION {Blockers(q) : q \in Later} \subseteq Later
    BY <2>2, <2>3
  <2> HIDE DEF Later
  <2> QED
    BY <2>1, <2>5, <2>6 DEF InCycle
<1> QED
  BY <1>2, <1>3

\* Where all turns take advisory locks and entities in one order, whatever it is, no
\* turn ever waits for itself: the rows it deactivates are under its own locks, and
\* the foreign keys of edges wait for no turn.  Hashes may collide.
THEOREM OneOrderNeverDeadlocks ==
  ASSUME \A j \in Jobs : j.op = "turn", NEW rank, OneOrder(rank)
  PROVE  Spec => []NoDeadlock
<1>1. Init => OrderInv(rank)
  <2> SUFFICES ASSUME Init PROVE OrderInv(rank)
    OBVIOUS
  <2>1. \A r \in Request : Holds(r) = {} /\ Tidy(r) /\ ~Working(r)
    BY DEF Init, StoreInit, Holds, Tidy, NoWrites, Working, InTransaction, Over
  <2> QED
    BY <2>1 DEF OrderInv, HoldsApart, Climbs
<1>2. Settled /\ OrderInv(rank) /\ [Next]_vars => OrderInv(rank)'
  BY NextOrder
<1>3. Settled /\ OrderInv(rank) => NoDeadlock
  BY OneOrderNoCycle
<1>4. Spec => []Settled
  BY SettledHolds
<1> QED
  BY <1>1, <1>2, <1>3, <1>4, PTL DEF Spec
=============================================================================
