--------------------------- MODULE Recall_proofs ---------------------------
(***************************************************************************)
(* What recall tells was true while it ran, and what was true all the time *)
(* is among its facts; it tells nothing of another scope: for any          *)
(* requests, queries, limits and interleaving.                             *)
(***************************************************************************)
EXTENDS Recall, History_proofs

Running == stage \in {"retrieve", "facts", "entities", "mentions", "edges"}

Stages == {"waiting", "retrieve", "facts", "entities", "mentions", "edges", "done", "failed"}

\* While the handler runs, seen covers what is active; everything it collected
\* was seen.
Fresh ==
    /\ stage \in Stages
    /\ Running => active \subseteq seen
    /\ facts \subseteq seen
    /\ \A h \in hits : h.row \in MemoryRow => h.row \in seen
    /\ stage = "waiting" => facts = {} /\ hits = {}

Lasting == {x \in lasting : InScope(x) /\ Stable(Cand(x))}

\* Once the stable facts were listed, what has been active all the time is
\* among them, or the list is full.
Listed ==
    /\ stage \in Stages
    /\ query \in Queries
    /\ Running => lasting \subseteq active
    /\ stage \in {"entities", "mentions", "edges", "done"} /\ query.op = "recall"
         => Lasting \subseteq facts \/ Cardinality(facts) = FactLimit

\* Nothing rewrites what a request asked for.
LEMMA JobIsFixed == ASSUME [Next]_vars PROVE job' = job
<1>1. CASE UNCHANGED vars
  BY <1>1 DEF vars
<1>2. ASSUME NEW r \in Request, TurnStep(r) PROVE job' = job
  <2>1. CASE BeginTurn(r) \/ Reconcile(r) \/ Deactivate(r) \/ InsertMemory(r) \/ MentionEntity(r)
    BY <2>1 DEF BeginTurn, Reconcile, Deactivate, InsertMemory, MentionEntity
  <2>2. CASE LinkSource(r) \/ LinkPeer(r)
    BY <2>2 DEF LinkSource, LinkPeer
  <2>3. CASE ForeignKeyError(r) \/ CommitTurn(r)
    BY <2>3 DEF ForeignKeyError, CommitTurn, Rollback, Commit, Close
  <2> QED
    BY <1>2, <2>1, <2>2, <2>3 DEF TurnStep
<1>3. ASSUME NEW r \in Request, DeleteStep(r) PROVE job' = job
  <2>1. CASE BeginDeleteSession(r) \/ BeginDeleteUser(r) \/ VisitRow(r)
    BY <2>1 DEF BeginDeleteSession, BeginDeleteUser, VisitRow
  <2>2. CASE NextStatement(r)
    BY <2>2 DEF NextStatement, Statement
  <2>3. CASE CommitDelete(r)
    BY <2>3 DEF CommitDelete, Commit, Close
  <2> QED
    BY <1>3, <2>1, <2>2, <2>3 DEF DeleteStep
<1>4. ASSUME NEW r \in Request, DeadlockVictim(r) \/ Fail(r) PROVE job' = job
  BY <1>4 DEF DeadlockVictim, Fail, Rollback, Close
<1> QED
  BY <1>1, <1>2, <1>3, <1>4 DEF Next

\* LIMIT returns rows of what was ranked, all of them or as many as it allows.
LEMMA LimitedRows ==
    ASSUME NEW S, NEW n, NEW T \in Limited(S, n)
    PROVE  T \subseteq S /\ (S \subseteq T \/ Cardinality(T) = n)
BY DEF Limited

\* A turn is no memory.
LEMMA TurnsAreNotMemories == TurnRow \cap MemoryRow = {}
BY DEF TurnRow, MemoryRow

LEMMA InitFresh == RecallInit => Fresh /\ Listed
BY DEF RecallInit, Fresh, Listed, Running, Stages

\* A step of a writer: only what is active changes for the reader.
LEMMA WriteFresh == ASSUME Fresh, WriteStep PROVE Fresh'
<1>1. UNCHANGED <<stage, hits, facts>>
  BY DEF WriteStep, reader
<1>2. seen \subseteq seen' /\ (Running => active' \subseteq seen')
  BY DEF WriteStep, Running
<1> QED
  BY <1>1, <1>2 DEF Fresh, Running

LEMMA ReadFresh == ASSUME Fresh, ReadStep \/ FailRead PROVE Fresh'
<1>1. CASE BeginRead
  BY <1>1 DEF BeginRead, Fresh, Running, Stages, vars, store
<1>2. ASSUME NEW run \in 1..3, NEW source \in Retriever, Retrieve(run, source) PROVE Fresh'
  <2> DEFINE Found(matched, strong) ==
               hits' = hits \cup {Hit(run, source, x \in strong, x) : x \in matched}
  <2>0. PICK matched \in UNION {Limited(S, K) : S \in SUBSET Searched(source)} :
            \E strong \in SUBSET matched : Found(matched, strong)
    BY <1>2 DEF Retrieve
  <2>1. PICK strong \in SUBSET matched : Found(matched, strong)
    BY <2>0
  <2>2. matched \subseteq Searched(source)
    BY LimitedRows
  <2>3. \A x \in matched : x \in MemoryRow => x \in active
    BY <2>2, TurnsAreNotMemories DEF Searched
  <2>4. \A h \in hits' : h \in hits \/ h.row \in matched
    BY <2>1 DEF Hit
  <2>5. stage' \in {"retrieve", "facts", "done"} /\ Running
    BY <1>2 DEF Retrieve, Running
  <2> QED
    BY <1>2, <2>3, <2>4, <2>5 DEF Retrieve, Fresh, Running, Stages, vars, store, history
<1>3. CASE ListStableFacts
  <2>1. facts' \subseteq active
    BY <1>3, LimitedRows DEF ListStableFacts, StableFacts
  <2> QED
    BY <1>3, <2>1 DEF ListStableFacts, Fresh, Running, Stages, vars, store, history
<1>4. CASE FindEntities
  BY <1>4 DEF FindEntities, Fresh, Running, Stages, vars, store, history
<1>5. CASE FindMentioned
  <2>1. PICK S \in Limited(Mentioning, GraphLimit) :
            hits' = hits \cup {Hit(1, "graph", TRUE, m[1]) : m \in S}
    BY <1>5 DEF FindMentioned
  <2>2. \A h \in hits' : h \in hits \/ h.row \in active
    BY <2>1, LimitedRows DEF Hit, Mentioning
  <2> QED
    BY <1>5, <2>2 DEF FindMentioned, Fresh, Running, Stages, vars, store, history
<1>6. CASE EdgeHop
  <2>0. PICK seeds \in Seeds : \E S \in Limited(Neighbours(seeds), GraphLimit) :
            hits' = hits \cup {Hit(1, "edge_hop", FALSE, x) : x \in S}
    BY <1>6 DEF EdgeHop
  <2>1. PICK S \in Limited(Neighbours(seeds), GraphLimit) :
            hits' = hits \cup {Hit(1, "edge_hop", FALSE, x) : x \in S}
    BY <2>0
  <2>2. \A h \in hits' : h \in hits \/ h.row \in active
    BY <2>1, LimitedRows DEF Hit, Neighbours
  <2> QED
    BY <1>6, <2>2 DEF EdgeHop, Fresh, Running, Stages, vars, store, history
<1>7. CASE FailRead
  BY <1>7 DEF FailRead, Fresh, Running, Stages, vars, store, history
<1> QED
  BY <1>1, <1>2, <1>3, <1>4, <1>5, <1>6, <1>7 DEF ReadStep

LEMMA StepFresh == Fresh /\ [RecallNext]_allVars => Fresh'
<1>1. ASSUME Fresh, UNCHANGED allVars PROVE Fresh'
  BY <1>1 DEF Fresh, Running, Stages, allVars, vars, store, reader, history
<1> QED
  BY <1>1, WriteFresh, ReadFresh DEF RecallNext

\* What is still active, or was dropped by a writer, can only shrink lasting.
LEMMA WriteListed == ASSUME Listed, WriteStep PROVE Listed'
<1>1. job' = job
  BY JobIsFixed DEF WriteStep
<1>2. UNCHANGED <<query, stage, facts>> /\ lasting' \subseteq lasting
  BY DEF WriteStep, reader
<1>3. Lasting' \subseteq Lasting
  BY <1>1, <1>2 DEF Lasting, InScope, QueryScope, ScopeOf, Cand
<1>4. Running' => lasting' \subseteq active'
  BY <1>2 DEF WriteStep, Running, reader
<1> QED
  BY <1>2, <1>3, <1>4 DEF Listed, Running

LEMMA ReadListed == ASSUME Listed, ReadStep \/ FailRead PROVE Listed'
<1>1. CASE BeginRead
  BY <1>1, RecallAssumption DEF BeginRead, Listed, Running, Stages, vars, store
<1>2. ASSUME NEW run \in 1..3, NEW source \in Retriever, Retrieve(run, source) PROVE Listed'
  BY <1>2 DEF Retrieve, Listed, Running, Stages, vars, store, history
<1>3. CASE ListStableFacts
  <2>1. UNCHANGED <<job, query, active, lasting>> /\ stage = "facts" /\ stage' = "entities"
    BY <1>3 DEF ListStableFacts, vars, store, history
  <2>2. StableFacts \subseteq facts' \/ Cardinality(facts') = FactLimit
    BY <1>3, LimitedRows DEF ListStableFacts
  <2>3. Lasting' = Lasting /\ Lasting \subseteq StableFacts
    BY <2>1 DEF Lasting, StableFacts, InScope, QueryScope, ScopeOf, Cand, Listed, Running
  <2> QED
    BY <2>1, <2>2, <2>3 DEF Listed, Running, Stages
<1>4. CASE FindEntities \/ FindMentioned \/ EdgeHop \/ FailRead
  <2>1. UNCHANGED <<job, query, active, lasting, facts>>
    BY <1>4 DEF FindEntities, FindMentioned, EdgeHop, FailRead, vars, store, history
  <2>2. Lasting' = Lasting
    BY <2>1 DEF Lasting, InScope, QueryScope, ScopeOf, Cand
  <2> QED
    BY <1>4, <2>1, <2>2 DEF FindEntities, FindMentioned, EdgeHop, FailRead, Listed, Running, Stages
<1> QED
  BY <1>1, <1>2, <1>3, <1>4 DEF ReadStep

LEMMA StepListed == Listed /\ [RecallNext]_allVars => Listed'
<1>1. ASSUME Listed, UNCHANGED allVars PROVE Listed'
  <2>1. UNCHANGED <<job, query, stage, active, lasting, facts>>
    BY <1>1 DEF allVars, vars, store, reader, history
  <2> QED
    BY <1>1, <2>1 DEF Listed, Lasting, InScope, QueryScope, ScopeOf, Cand, Running, Stages
<1> QED
  BY <1>1, WriteListed, ReadListed DEF RecallNext

LEMMA FreshAnswers == Fresh => AnswerIsFresh
<1> SUFFICES ASSUME Fresh PROVE Remembered \subseteq seen
  BY DEF AnswerIsFresh
<1>1. Answer \subseteq facts \cup HitRows
  BY DEF Answer
<1> QED
  BY <1>1 DEF Remembered, HitRows, Fresh

\* Recall never tells a memory that was not active at some time while it ran.
THEOREM RecallIsFresh == RecallSpec => []AnswerIsFresh
BY InitFresh, StepFresh, FreshAnswers, PTL DEF RecallSpec

LEMMA ListedAnswers == Listed => StoredFactsAreFound
BY DEF Listed, Lasting, StoredFactsAreFound

\* What was stored before a recall began, and stays true, is among its facts
\* unless the list is full.
THEOREM RecallFindsWhatLasts == RecallSpec => []StoredFactsAreFound
BY InitFresh, StepListed, ListedAnswers, PTL DEF RecallSpec

----------------------------------------------------------------------------
\* Everything the reader has collected is of its scope.
ReadsInScope ==
    /\ \A x \in facts : InScope(x)
    /\ \A h \in hits : InScope(h.row)
    /\ \A e \in found : e[2] = QueryScope

LEMMA InitScope == RecallInit => ReadsInScope
BY DEF RecallInit, ReadsInScope

\* The reader's question and the requests' scopes are fixed.
LEMMA ScopeIsFixed ==
  ASSUME job' = job, query' = query
  PROVE  QueryScope' = QueryScope /\ \A x : InScope(x)' <=> InScope(x)
BY DEF QueryScope, InScope, ScopeOf

LEMMA SeedsAreHits == \A seeds \in Seeds : seeds \subseteq HitRows
BY DEF Seeds, MemoryHits, HitRows

\* The walks over mentions and edges leave the scope no more than the graph does.
LEMMA ReadScope ==
  ASSUME ReadsInScope, GraphStaysInScope, ReadStep \/ FailRead PROVE ReadsInScope'
<1>0. job' = job /\ query' = query
  BY DEF ReadStep, FailRead, BeginRead, Retrieve, ListStableFacts, FindEntities,
         FindMentioned, EdgeHop, vars
<1>1. CASE BeginRead \/ FailRead
  BY <1>0, <1>1, ScopeIsFixed DEF BeginRead, FailRead, ReadsInScope
<1>2. ASSUME NEW run \in 1..3, NEW source \in Retriever, Retrieve(run, source)
      PROVE  ReadsInScope'
  <2> DEFINE Found(matched, strong) ==
               hits' = hits \cup {Hit(run, source, x \in strong, x) : x \in matched}
  <2>0. PICK matched \in UNION {Limited(S, K) : S \in SUBSET Searched(source)} :
            \E strong \in SUBSET matched : Found(matched, strong)
    BY <1>2 DEF Retrieve
  <2>1. PICK strong \in SUBSET matched : Found(matched, strong)
    BY <2>0
  <2>2. matched \subseteq Searched(source)
    BY LimitedRows
  <2>3. \A h \in hits' : h \in hits \/ InScope(h.row)
    BY <2>1, <2>2 DEF Hit, Searched
  <2> QED
    BY <1>0, <1>2, <2>3, ScopeIsFixed DEF Retrieve, ReadsInScope
<1>3. CASE ListStableFacts
  <2>1. facts' \subseteq StableFacts
    BY <1>3, LimitedRows DEF ListStableFacts
  <2> QED
    BY <1>0, <1>3, <2>1, ScopeIsFixed DEF ListStableFacts, StableFacts, ReadsInScope
<1>4. CASE FindEntities
  BY <1>0, <1>4, ScopeIsFixed DEF FindEntities, NamedEntities, ReadsInScope
<1>5. CASE FindMentioned
  <2>1. PICK S \in Limited(Mentioning, GraphLimit) :
            hits' = hits \cup {Hit(1, "graph", TRUE, m[1]) : m \in S}
    BY <1>5 DEF FindMentioned
  <2>2. ASSUME NEW m \in S PROVE InScope(m[1])
    <3>1. m \in mentions /\ m[2][2] = QueryScope
      BY LimitedRows DEF Mentioning, ReadsInScope
    <3> QED
      BY <3>1, ScopeOfRow DEF GraphStaysInScope, Named, Entity, InScope
  <2>3. \A h \in hits' : h \in hits \/ InScope(h.row)
    BY <2>1, <2>2 DEF Hit
  <2> QED
    BY <1>0, <1>5, <2>3, ScopeIsFixed DEF FindMentioned, ReadsInScope
<1>6. CASE EdgeHop
  <2>0. PICK seeds \in Seeds : \E S \in Limited(Neighbours(seeds), GraphLimit) :
            hits' = hits \cup {Hit(1, "edge_hop", FALSE, x) : x \in S}
    BY <1>6 DEF EdgeHop
  <2>1. PICK S \in Limited(Neighbours(seeds), GraphLimit) :
            hits' = hits \cup {Hit(1, "edge_hop", FALSE, x) : x \in S}
    BY <2>0
  <2>2. ASSUME NEW x \in S PROVE InScope(x)
    <3>1. PICK e \in edges : e[1] \in seeds /\ e[2] = x
      BY LimitedRows DEF Neighbours
    <3>2. InScope(e[1])
      BY <3>1, SeedsAreHits DEF HitRows, ReadsInScope
    <3> QED
      BY <3>1, <3>2, ScopeOfRow DEF GraphStaysInScope, InScope
  <2>3. \A h \in hits' : h \in hits \/ InScope(h.row)
    BY <2>1, <2>2 DEF Hit
  <2> QED
    BY <1>0, <1>6, <2>3, ScopeIsFixed DEF EdgeHop, ReadsInScope
<1> QED
  BY <1>1, <1>2, <1>3, <1>4, <1>5, <1>6 DEF ReadStep

LEMMA StepScope ==
  ReadsInScope /\ GraphStaysInScope /\ [RecallNext]_allVars => ReadsInScope'
<1>1. ASSUME ReadsInScope, WriteStep \/ UNCHANGED allVars PROVE ReadsInScope'
  <2>1. UNCHANGED <<query, facts, hits, found>>
    BY <1>1 DEF WriteStep, allVars, reader
  <2>2. job' = job
    BY <1>1, JobIsFixed DEF WriteStep, allVars, vars
  <2> QED
    BY <1>1, <2>1, <2>2, ScopeIsFixed DEF ReadsInScope
<1> QED
  BY <1>1, ReadScope DEF RecallNext

\* Beside its reader the service is the one specified without.
LEMMA ReadersDoNotWrite == RecallSpec => Spec
<1>1. RecallInit => Init
  BY DEF RecallInit
<1>2. [RecallNext]_allVars => [Next]_vars
  BY DEF RecallNext, WriteStep, ReadStep, FailRead, BeginRead, Retrieve, ListStableFacts,
         FindEntities, FindMentioned, EdgeHop, allVars
<1> QED
  BY <1>1, <1>2, PTL DEF RecallSpec, Spec

\* No recall and no search tells anything of another user or of another anonymous
\* session, although neither walk over the graph checks the scope.
THEOREM RecallStaysInScope == RecallSpec => []AnswerStaysInScope
<1>1. ReadsInScope => AnswerStaysInScope
  BY DEF ReadsInScope, AnswerStaysInScope, Answer, HitRows
<1> QED
  BY <1>1, InitScope, StepScope, ReadersDoNotWrite, GraphNeverLeavesScope, PTL
  DEF RecallSpec
=============================================================================
