--------------------------- MODULE MemoryService ---------------------------
(***************************************************************************)
(* The writing side of the service: any number of POST /turns,             *)
(* DELETE /sessions and DELETE /users in flight at once, over one store.   *)
(***************************************************************************)
EXTENDS IngestTurn, AdminDelete

----------------------------------------------------------------------------
\* Waiting, deadlock and failure.

LockMode(r) == IF pc[r] = "edges" THEN "share" ELSE Mode(pc[r])

NextRows(r) == IF pc[r] = "mentions" THEN {ThisEntity(r)} ELSE todo[r]

\* r may be waiting for q: for its advisory lock, or for a row.
WaitsFor(r, q) ==
    /\ q # r
    /\ \/ pc[r] = "reconcile" /\ Hash(KeyOf(ThisMemory(r))) \in locks[q]
       \/ NextRows(r) \cap Barred(q, LockMode(r)) # {}

Blockers(r) == {q \in Request : WaitsFor(r, q)}

\* Mutation: the deadlock detector is off.
NeverInCycle(r) == FALSE

\* r waits, directly or not, for itself.
InCycle(r) ==
    \A S \in SUBSET {q \in Request : InTransaction(q)} :
        Blockers(r) \cup UNION {Blockers(q) : q \in S} \subseteq S => r \in S

\* PostgreSQL's deadlock detector aborts one transaction of the cycle: nothing
\* in the handlers retries it.
DeadlockVictim(r) == InTransaction(r) /\ InCycle(r) /\ Rollback(r)

\* The process dies, the client goes away, the connection is lost or a command
\* exceeds command_timeout: the transaction is rolled back.
Fail(r) == ~Over(r) /\ Rollback(r)

----------------------------------------------------------------------------
Init == StoreInit

Next == \E r \in Request : TurnStep(r) \/ DeleteStep(r) \/ DeadlockVictim(r) \/ Fail(r)

Spec == Init /\ [][Next]_vars

\* Handlers are coroutines of one event loop, which runs every one that can
\* move on; PostgreSQL grants a free lock and resolves a deadlock.  Failures
\* are never owed.
Progress(r) == TurnStep(r) \/ DeleteStep(r) \/ DeadlockVictim(r)

FairSpec == Spec /\ \A r \in Request : WF_vars(Progress(r))

----------------------------------------------------------------------------
\* Type invariant: the tables refer only to rows that exist, a handler stands at
\* a candidate, entity or row that its next step can use, and every memory comes
\* from a candidate of its request.
Pcs == {"waiting", "done", "failed", "reconcile", "apply", "mentions", "edges",
        "affected", "begin", "memories", "successors", "turns", "sources",
        "entities", "reset", "activate", "commit"}

TablesOK ==
    /\ rows \subseteq Row
    /\ active \subseteq rows \cap MemoryRow
    /\ supersedes \subseteq rows \X rows
    /\ edges \subseteq rows \X rows \X EdgeKind
    /\ mentions \subseteq rows \X rows

HandlersOK ==
    /\ job \in [Request -> Jobs]
    /\ pc \in [Request -> Pcs]
    /\ at \in [Request -> Nat]
    /\ todo \in [Request -> SUBSET Row]
    /\ sup \in [Request -> SUBSET Row]
    /\ names \in [Request -> Seq(Name)]
    /\ keys \in [Request -> Seq(ScopeKey)]
    /\ begun \in [Request -> Nat]
    /\ clock \in Nat
    /\ locks \in [Request -> SUBSET {Hash(k) : k \in ScopeKey}]
    /\ w \in [Request -> Writes]

Placed(r) ==
    /\ pc[r] \in {"reconcile", "apply", "mentions"} => at[r] \in 1..Len(cands(r))
    /\ pc[r] = "mentions" => names[r] # <<>>
    /\ pc[r] = "reset" => keys[r] # <<>>
    /\ pc[r] = "edges" => at[r] # 0
    /\ pc[r] \in {"waiting", "apply", "mentions", "edges", "reset", "activate"} =>
            todo[r] \subseteq MemoryRow

Stated(x) == x \in MemoryRow => x[3] \in 1..Len(cands(x[2]))

TypeOK ==
    /\ HandlersOK
    /\ TablesOK
    /\ \A r \in Request : Placed(r) /\ \A x \in rows \cup w[r].ins : Stated(x)

\* Two memories that may not be active together: a second value of a
\* single-valued predicate, or the same fact twice.
Clash(x, y) ==
    /\ x # y
    /\ KeyOf(x) = KeyOf(y)
    /\ Cand(x).predicate \in Single \/ Cand(x).object = Cand(y).object

NoClash(S) == \A x, y \in S : ~Clash(x, y)

\* The active memories are one consistent picture: at most one value for a
\* single-valued key, no fact twice.  This is what the advisory lock of
\* reconciler.acquire_lock is for; the schema has no unique index behind it.
ActiveConsistent == NoClash(active)

\* Why turns keep the picture consistent, in inductive form.  Advisory locks are
\* exclusive.  A transaction activates only rows it inserted under the lock of
\* their key, its own view never clashes, and what would clash with the memory it
\* is about to insert is on its list to deactivate.  Only the recompute of a
\* session delete activates rows without their lock.
Exclusive == \A r, q \in Request : r # q => locks[r] \cap locks[q] = {}

Careful(r) ==
    /\ w[r].on \subseteq w[r].ins
    /\ pc[r] = "waiting" => w[r].on = {}
    /\ \A x \in w[r].on : Hash(KeyOf(x)) \in locks[r]
    /\ pc[r] \notin {"affected", "reset", "activate"}
    /\ NoClash(ActiveFor(r))
    /\ pc[r] = "apply" =>
         /\ Hash(KeyOf(ThisMemory(r))) \in locks[r]
         /\ \A y \in ActiveFor(r) : Clash(ThisMemory(r), y) => y \in todo[r]

TurnsConsistent == ActiveConsistent /\ Exclusive /\ \A r \in Request : Careful(r)

Memories == rows \cap MemoryRow
SingleMemories == {x \in Memories : Cand(x).predicate \in Single}
Successors(x) == {y \in rows : <<y, x>> \in supersedes}

\* Unless a session is deleted, whose recompute revives what was replaced, history
\* never branches: at most one memory supersedes another, it shares its
\* key, and what is active has no successor.  Under a single-valued key it has no
\* gap either: what is inactive has its successor.  A lost race would leave a
\* branch, an inactive end or a link across keys; so would a correction that
\* quotes several values and links itself to all of them.
HistoryIsAChain ==
    (\A r \in Request : job[r].op # "delete_session") => \A x \in Memories :
        /\ Cardinality(Successors(x)) <= IF x \in active THEN 0 ELSE 1
        /\ x \in SingleMemories \ active => Successors(x) # {}
        /\ \A y \in Successors(x) : KeyOf(y) = KeyOf(x)

\* A link of history never leaves its key, whatever else is lost to a race: an
\* arc "previously ..." follows the link without looking at scope or key.
HistoryStaysInKey == \A p \in supersedes : p[1] # p[2] /\ KeyOf(p[1]) = KeyOf(p[2])

Values(x) == {y \in SingleMemories : KeyOf(y) = KeyOf(x)}

\* A single-valued key that has memories has exactly one active: neither a
\* supersession nor the recompute after a session delete leaves it with none
\* or with two.
EveryKeyHasOneValue == \A x \in SingleMemories : Cardinality(Values(x) \cap active) = 1

\* The active value of a single-valued key is the latest: deleting a session
\* brings back the value before it, never an older one.
CurrentValueIsLatest == \A x \in SingleMemories \cap active : x \in Latest(Values(x))

\* A memory keeps its source: both deletes remove memories and turns together,
\* so no memory outlives the turn its citation points to.
EveryMemoryHasItsTurn == \A x \in Memories : Turn(x[2]) \in rows

\* Every fact a stored turn states is on record, current or superseded, in a row
\* of its own or in one that said the same before.
OnRecord(m) == \E x \in Memories : KeyOf(x) = KeyOf(m) /\ Cand(x).object = Cand(m).object

StoredTurnHasItsFacts ==
    \A r \in Request : Turn(r) \in rows => \A i \in DOMAIN cands(r) : OnRecord(Memory(r, i))

\* Every edge has its way back, although the two are inserted apart and either
\* end may be deleted meanwhile: the edge hop of recall follows edges from the
\* source only.
EdgesGoBothWays == \A e \in edges : <<e[2], e[1], e[3]>> \in edges

\* The entities the candidate of a memory named.
Named(x) == {Entity(KeyOf(x)[1], Cand(x).entities[i]) : i \in DOMAIN Cand(x).entities}

\* The memory graph never leaves a scope: edges join memories of one scope,
\* mentions lead to entities of the memory's scope, and the entity is one the
\* candidate named.  Recall walks both without checking the scope again.
GraphStaysInScope ==
    /\ \A e \in edges : KeyOf(e[1])[1] = KeyOf(e[2])[1] /\ e[1] # e[2]
    /\ \A m \in mentions : m[2] \in Named(m[1])

\* The keys a request may change: those of its candidates, all those a session
\* ever wrote to, or all those of a user.
Reach(r) ==
    LET stated(q) == {KeyOf(Memory(q, i)) : i \in DOMAIN cands(q)}
    IN  CASE job[r].op = "turn" -> stated(r)
          [] job[r].op = "delete_session" ->
                UNION {stated(q) : q \in {p \in Request : job[p].session = job[r].session}}
          [] job[r].op = "delete_user" ->
                {k \in UNION {stated(q) : q \in Request} : k[1] = OwnScope(r)}

\* What is active changes only when a request is answered, and only under keys
\* that request is about: a failed request changes nothing, and neither does
\* another user's or another key's delete, recompute or correction.
OnlyOwnKeysChange ==
    [][\A x \in (active \ active') \cup (active' \ active) :
            \E r \in Request : /\ pc[r] # "done" /\ pc'[r] = "done"
                               /\ KeyOf(x) \in Reach(r)]_vars

\* A fact that coexists with others goes away only because it was corrected or
\* because its own session or user was deleted: deleting a session never
\* takes away what other sessions said.
OtherSessionsKeepTheirFacts ==
    [][\A r \in Request :
          job[r].op = "delete_session" /\ pc[r] # "done" /\ pc'[r] = "done" =>
              \A x \in active : job[x[2]].session # job[r].session => x \in active']_vars

\* No request ever waits for itself through others, so none has to be aborted:
\* the row locks a turn takes after its advisory locks (on superseded rows and on
\* the peers of its edges) close no cycle when turns state their keys in one order.
NoDeadlock == \A r \in Request : ~InCycle(r)

\* Every request is answered: lock waits, deadlocks and the pool never hold one
\* for ever.
EveryRequestAnswered == \A r \in Request : <>Over(r)

\* A value that was replaced is not current while its replacement is stored: what
\* "the latest" of recompute_active suggests, and the code does not keep; no run
\* checks it.
ReplacedValuesStayReplaced == \A x \in SingleMemories \cap active : Successors(x) = {}

----------------------------------------------------------------------------
\* Concurrent ingests implement the board of facts: they are atomic and appear
\* in the order of their commits, whatever their statements interleave to.
ActiveFacts == [k \in ScopeKey |-> {Cand(x).object : x \in {y \in active : KeyOf(y) = k}}]
Answered == {r \in Request : pc[r] = "done"}
WipedKeys(j) == {k \in ScopeKey : \/ j.op = "delete_user" /\ k[1] = <<"user", j.user>>
                                  \/ j.op = "delete_session" /\ k[1] = <<"session", j.session>>}
CandidateKey(j, c) == <<ScopeOf(j), c.subject, c.predicate>>

Board == INSTANCE FactBoard WITH
    Key <- ScopeKey, KeyFor <- CandidateKey, Wiped <- WipedKeys, facts <- ActiveFacts, heard <- Answered

BoardSpec == Board!Spec
=============================================================================
