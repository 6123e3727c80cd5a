------------------------------- MODULE Recall -------------------------------
(***************************************************************************)
(* POST /recall and POST /search (services/recall.py, search.py,           *)
(* retrievers.py, fusion.py) beside the requests of MemoryService: one     *)
(* reader whose SELECTs each see what is committed when they run.          *)
(*                                                                         *)
(* What a retriever matches is a matter of words and vectors: any rows of  *)
(* the scope, each above its relevance floor (strong) or not.  A retriever *)
(* that raises counts as one that found nothing.                           *)
(***************************************************************************)
EXTENDS MemoryService, Gate

CONSTANTS
    Queries,    \* request bodies, with the query analyzer's answer
    NoSession,  \* session_id = null, which only /search accepts
    Stable(_),  \* a candidate's type and confidence qualify for tier 1
    K,          \* LIMIT of a retriever's SELECT
    GraphLimit, \* LIMIT of the SELECTs over mentions and edges
    FactLimit,  \* LIMIT of list_stable_facts
    SeedLimit   \* memory candidates the edge hop starts from

Query == [op : {"recall", "search"}, user : User \cup {NoUser},
          session : Session \cup {NoSession},
          profile : BOOLEAN,      \* profile_relevant
          openEnded : BOOLEAN,    \* intent exploratory or recent_context
          names : SUBSET Name,    \* entities named
          runs : 1..3]            \* the query and its expansions

ASSUME RecallAssumption ==
    /\ Queries \subseteq Query
    /\ \A q \in Queries : IF q.op = "recall" THEN q.session # NoSession ELSE q.runs = 1
    /\ {K, GraphLimit, FactLimit, SeedLimit} \subseteq Nat

VARIABLES
    query,     \* what the reader asks
    stage,     \* where its handler stands
    pending,   \* retrievers that have not answered: <<run, source>>
    hits,      \* candidates
    facts,     \* stable facts
    found,     \* entities matched
    seen,      \* history: memories active at some time since it began
    lasting    \* history: memories active all the time since it began

reader == <<query, stage, pending, hits, facts, found>>
history == <<seen, lasting>>
allVars == <<vars, reader, history>>

----------------------------------------------------------------------------
TurnSource == {"turn_vector", "turn_fts"}
MemorySource == {"memory_vector", "memory_fts", "graph"}
Retriever == {"turn_vector", "turn_fts", "memory_vector", "memory_fts"}

Weight == [graph |-> 15, memory_vector |-> 14, memory_fts |-> 11, turn_vector |-> 10,
           edge_hop |-> 9, turn_fts |-> 7]

QueryScope == ScopeOf(query)
InScope(x) == ScopeOf(job[x[2]]) = QueryScope
Told(x) == <<Cand(x).subject, Cand(x).predicate, Cand(x).object>>

Hit(run, source, strong, x) == [run |-> run, source |-> source, strong |-> strong, row |-> x]

\* LIMIT n: everything, or any n rows of it.
Limited(S, n) == IF Cardinality(S) <= n THEN {S} ELSE {T \in SUBSET S : Cardinality(T) = n}

\* Mutation: fts_memories ranks superseded memories too.
SearchedInactive(source) ==
    {x \in IF source \in TurnSource THEN rows \cap TurnRow
            ELSE IF source = "memory_fts" THEN rows \cap MemoryRow ELSE active : InScope(x)}

\* The rows a retriever ranks.
Searched(source) == {x \in IF source \in TurnSource THEN rows \cap TurnRow ELSE active : InScope(x)}

\* Mutation: facts follow the session.
FactsOfSession == {x \in active : InScope(x) /\ Stable(Cand(x)) /\ job[x[2]].session = query.session}

StableFacts == {x \in active : InScope(x) /\ Stable(Cand(x))}

\* Mutation: names are looked up in every scope.
NamedAnywhere == {e \in rows \cap EntityRow : e[3] \in query.names}

\* entities_for_names.
NamedEntities == {e \in rows \cap EntityRow : e[2] = QueryScope /\ e[3] \in query.names}

\* memories_mentioning_entities, which checks no scope: joined rows, one for each
\* entity a memory mentions.
Mentioning == {m \in mentions : m[1] \in active /\ m[2] \in found}

\* memories_via_edges, which checks no scope.
Neighbours(seeds) == {e[2] : e \in {d \in edges : d[1] \in seeds /\ d[2] \in active}} \ seeds

HitRows == {h.row : h \in hits}
MemoryHits == {h \in hits : h.row \in MemoryRow}

\* seed_memory_ids: the first entries, and one memory may take several.
Seeds == IF Cardinality(MemoryHits) <= SeedLimit
         THEN {{h.row : h \in MemoryHits}}
         ELSE {{h.row : h \in T} : T \in {S \in SUBSET MemoryHits : Cardinality(S) = SeedLimit}}

----------------------------------------------------------------------------
\* The handler up to its first SELECT; a search without a scope ends here.
BeginRead ==
    /\ stage = "waiting"
    /\ IF query.user = NoUser /\ query.session = NoSession
       THEN stage' = "done" /\ UNCHANGED pending
       ELSE stage' = "retrieve" /\ pending' = (1..query.runs) \X Retriever
    /\ seen' = active
    /\ lasting' = active
    /\ UNCHANGED <<vars, query, hits, facts, found>>

\* One retriever answers; the last one ends the gather.
Retrieve(run, source) ==
    /\ stage = "retrieve"
    /\ <<run, source>> \in pending
    /\ ConnectionFree
    /\ \E matched \in UNION {Limited(S, K) : S \in SUBSET Searched(source)} :
         \E strong \in SUBSET matched :
            hits' = hits \cup {Hit(run, source, x \in strong, x) : x \in matched}
    /\ pending' = pending \ {<<run, source>>}
    /\ stage' = IF pending' # {} THEN stage ELSE IF query.op = "recall" THEN "facts" ELSE "done"
    /\ UNCHANGED <<vars, query, facts, found, history>>

\* Three SELECTs on one connection.
ListStableFacts ==
    /\ stage = "facts"
    /\ ConnectionFree
    /\ facts' \in Limited(StableFacts, FactLimit)
    /\ stage' = "entities"
    /\ UNCHANGED <<vars, query, pending, hits, found, history>>

FindEntities ==
    /\ stage = "entities"
    /\ found' = NamedEntities
    /\ stage' = IF found' = {} THEN "edges" ELSE "mentions"
    /\ UNCHANGED <<vars, query, pending, hits, facts, history>>

FindMentioned ==
    /\ stage = "mentions"
    /\ \E S \in Limited(Mentioning, GraphLimit) :
         hits' = hits \cup {Hit(1, "graph", TRUE, m[1]) : m \in S}
    /\ stage' = "edges"
    /\ UNCHANGED <<vars, query, pending, facts, found, history>>

\* The last SELECT, unless there is nothing to start from; what follows it,
\* fusion, gate and assembly, is the answer read off below.
EdgeHop ==
    /\ stage = "edges"
    /\ MemoryHits # {} => ConnectionFree
    /\ \E seeds \in Seeds : \E S \in Limited(Neighbours(seeds), GraphLimit) :
         hits' = hits \cup {Hit(1, "edge_hop", FALSE, x) : x \in S}
    /\ stage' = "done"
    /\ UNCHANGED <<vars, query, pending, facts, found, history>>

\* A SELECT outside the retrievers fails, or the client goes away.
FailRead ==
    /\ stage \notin {"done", "failed"}
    /\ stage' = "failed"
    /\ UNCHANGED <<vars, query, pending, hits, facts, found, history>>

ReadStep ==
    \/ BeginRead
    \/ \E run \in 1..3, source \in Retriever : Retrieve(run, source)
    \/ ListStableFacts
    \/ FindEntities
    \/ FindMentioned
    \/ EdgeHop

\* Mutation: the connection of the three SELECTs is never released.
HeldForGood == IF stage \in {"waiting", "retrieve", "facts"} THEN 0 ELSE 1

\* A connection the reader keeps between SELECTs is not there for a transaction.
Held == IF stage \in {"entities", "mentions"} THEN 1 ELSE 0

WriteStep ==
    /\ Next
    /\ clock' # clock => Cardinality({r \in Request : InTransaction(r)}) + Held < PoolSize
    /\ seen' = IF stage \in {"waiting", "done", "failed"} THEN seen ELSE seen \cup active'
    /\ lasting' = IF stage \in {"waiting", "done", "failed"} THEN lasting ELSE lasting \cap active'
    /\ UNCHANGED reader

RecallInit ==
    /\ Init
    /\ query \in Queries
    /\ stage = "waiting"
    /\ pending = {}
    /\ hits = {}
    /\ facts = {}
    /\ found = {}
    /\ seen = {}
    /\ lasting = {}

RecallNext == WriteStep \/ ReadStep \/ FailRead

RecallSpec == RecallInit /\ [][RecallNext]_allVars

\* The event loop runs the reader's coroutines and the writers' alike.
RecallFairSpec ==
    /\ RecallSpec
    /\ WF_allVars(ReadStep)
    /\ \A r \in Request : WF_allVars(WriteStep /\ Progress(r))

----------------------------------------------------------------------------
\* Fusion keeps one candidate for a row: the first of its strongest source.
Chosen(x) ==
    CHOOSE h \in hits :
        /\ h.row = x
        /\ \A g \in hits : g.row = x => \/ Weight[g.source] < Weight[h.source]
                                        \/ g.source = h.source /\ g.run >= h.run

Signal(sources) == \E x \in HitRows : Chosen(x).strong /\ Chosen(x).source \in sources

GateOf(q) ==
    DecideGate(q.profile, q.profile /\ q.openEnded, Signal(MemorySource),
               Signal(TurnSource), found # {})

\* What the answer is put together from, before it is cut to its limits: facts if
\* tier 1 is open; candidates if tier 2 is, without the memories that repeat a
\* fact of tier 1.
Answer ==
    LET gate == GateOf(query)
        known(x) == gate.tier1 /\ x \in MemoryRow /\ \E f \in facts : Told(f) = Told(x)
    IN  IF query.op = "search" THEN HitRows
        ELSE (IF gate.tier1 THEN facts ELSE {}) \cup
             (IF gate.tier2 THEN {x \in HitRows : ~known(x)} ELSE {})

Remembered == Answer \cap MemoryRow

----------------------------------------------------------------------------
\* Every memory told was true at some time during the request, although the
\* SELECTs ran at different times and the graph may have changed under them: a
\* value replaced, or a fact deleted, before the request began is never told as
\* current.
AnswerIsFresh == stage = "done" => Remembered \subseteq seen

\* What was stored before the request began, in whichever session, and is still
\* true when it ends is among its facts: no window after a 201.
StoredFactsAreFound ==
    stage = "done" /\ query.op = "recall" =>
        LET known == {x \in lasting : InScope(x) /\ Stable(Cand(x))}
        IN  known \subseteq facts \/ Cardinality(facts) = FactLimit

\* Nothing of another user or of another anonymous session is told, though
\* neither walk over the memory graph checks the scope.
AnswerStaysInScope == stage = "done" => \A x \in Answer : InScope(x)

\* Readers and writers share the pool and all are answered, even where it has one
\* connection: the reader never asks for one while it holds another, and gives
\* back the one it held.
EveryoneAnswered ==
    /\ <>(stage \in {"done", "failed"})
    /\ \A r \in Request : <>Over(r)

----------------------------------------------------------------------------
\* What comments say and the code does not keep; no run checks it.

\* An answer never tells a value together with the one that replaced it.
AnswerIsOnePicture ==
    stage = "done" =>
        \A x, y \in Remembered :
            KeyOf(x) = KeyOf(y) /\ Cand(x).predicate \in Single => Told(x) = Told(y)

\* A retriever that returns a memory above its floor opens tier 2.
StrongHitOpensTier2 ==
    stage = "done" /\ query.op = "recall" =>
        \A h \in hits : h.strong /\ h.source \in MemorySource => GateOf(query).tier2
=============================================================================
