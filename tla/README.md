# A TLA+ model of the memory service

These modules model the memory service of this repository: what `POST /turns`,
`DELETE /sessions/{id}` and `DELETE /users/{id}` do to the PostgreSQL store when any
number of them run at once, what clients that retry make of it, what happens before the
transaction (the HTTP layer, extraction and embedding), what `POST /recall` and
`POST /search` read beside the writers, and how their answer is ranked and cut to its
token budget. TLC checks them on small
instances; TLAPS proves the main results for every value of the constants.
`PROJECT.json` lists components, runs, mutants, the source lines of every definition,
findings, hazards and theorems. Paths below are relative to `src/memory_service/`
unless they name a document of the repository.

## 1. The system

| Component | State it keeps | Operations | What makes it correct |
|---|---|---|---|
| Turn ingestion, `api/routes_turns.py` | `turns`, `memories`, `entities`, `memory_entity_mentions`, `memory_edges` | `POST /turns`: phase 1 extracts and embeds, phase 2 is one transaction | atomic; one value per single-valued key; history is a chain; edges stay in the scope |
| Reconciler, `services/reconciler.py` | none (advisory locks of the transaction) | `acquire_lock`, `reconcile`, `apply_decision` | decides on what is still true when the row is inserted |
| Deletes, `api/routes_admin.py` | the same tables | `DELETE /sessions`, `DELETE /users` | remove a scope's rows with what refers to them, and leave other keys a correct active value |
| Storage, `db/`, `repo/` | tables, foreign keys, pool of 10 connections | SQL at READ COMMITTED | row locks, cascades, deadlock detection |
| Recall, `services/recall.py`, `services/retrievers.py`; search, `services/search.py` | none | `POST /recall`, `POST /search` | fresh, complete, of its own scope |
| Rank fusion, `services/fusion.py` | none | `rrf_fuse`, `group_by_source` | a score is the formula's sum; one candidate per row, the strongest; no signal lost |
| Gate and assembler, `services/assembler.py`, `util/tokens.py` | none | `decide_gate`, `assemble` | within `max_tokens`, citations match the text |
| Query analyzer, `services/query_analyzer.py` | none | `analyze` | always answers (LLM, or heuristics) |
| Extraction, `extraction/`; clients, `llm/`, `embedding/` | none | regular expressions, LLM, embeddings, each with a deadline | degrade to rules and to no vectors, in time, and never fail a turn |
| HTTP layer, `main.py`, `api/middleware.py`, `api/deps.py` | settings, pool | start, payload limit, token, validation, error handlers | bounded memory; whole bodies or none; an error is answered as such |
| Listing and health | none | single SELECTs | - |
| Clients (not in the repository) | what they have to say | send, give up waiting, send again | hear of each message at most once |

How they interact. A handler is a coroutine of one event loop. It takes a connection from
the pool (`pool.acquire`), and handlers meet only in PostgreSQL: through committed rows,
row locks, transaction-scoped advisory locks named by scope and key, and the pool's size.
Ingestion and deletes each hold one connection and one transaction throughout. Recall
holds no transaction: up to twelve retriever SELECTs run in parallel on connections of
their own, then three SELECTs share a connection, then one walks the edges. Before any of this a
request passes the HTTP layer, which knows nothing of the store, and a turn passes phase 1
(extraction and embedding over the network), which holds no connection.

What is hard here:

- *READ COMMITTED.* Each statement of a transaction sees another snapshot; what a handler
  read one statement earlier may have changed, unless a lock protects it.
- *Two kinds of locks.* `reconcile` is protected by an advisory lock that the deletes do not take.
- *Row by row.* UPDATE and DELETE choose their rows when they start and lock them one by one:
  waits, deadlocks and rows that vanished meanwhile.
- *Cascades.* ON DELETE CASCADE and ON DELETE SET NULL change rows no handler mentions.
- *Reads across snapshots.* One recall consists of many.
- *Rounding.* The budget is an integer ledger over estimates.
- *Retries.* No request carries an id. A client that lost an answer repeats the message, maybe
  while the first attempt still runs.
- *Deadlines.* Three network calls with timeouts of their own, one of them tried twice, run
  under the patience of a caller.
- *Text.* Messages are joined into one text, and the rules find the user's lines again in it.
- *Streams.* A body comes in chunks, and its client may leave between two of them.

## 2. Modules

| Module | Models | Extends |
|---|---|---|
| `Store` | tables, READ COMMITTED visibility, row and advisory locks, pool, commit and rollback | - |
| `Reconciler` | `reconcile`'s decision | `Store` |
| `IngestTurn` | phase 2 of `POST /turns` | `Reconciler` |
| `AdminDelete` | both deletes | `Reconciler` |
| `MemoryService` | any number of writers; waiting, deadlock, failure; properties | `IngestTurn`, `AdminDelete` |
| `FactBoard` | what ingestion promises, with no rows, locks or transactions | - |
| `Clients` | clients that retry, over the service | `MemoryService` |
| `Http` | start, payload limit, validation, errors | - |
| `Extraction` | phase 1 of `POST /turns` | - |
| `TurnRequest` | `POST /turns` from its first chunk to its answer | `Http`, `Extraction` |
| `Gate` | `decide_gate` | - |
| `Recall` | one reader beside the writers | `MemoryService`, `Gate` |
| `Fusion` | reciprocal rank fusion, candidate by candidate | - |
| `Assembler` | `assemble` line by line | `Gate` |
| `Answer` | from the retrievers' lists to the context | `Fusion`, `Assembler` |
| `MCMemoryService`, `MCClients`, `MCTurnRequest`, `MCRecall`, `MCAnswer` | workloads and inputs for TLC | the module they name |
| `MemoryService_proofs` | types, consistency, own keys; all operations one at a time | `MemoryService` |
| `History_proofs` | scopes, edges, history | `MemoryService_proofs` |
| `Turns_proofs` | turns alone: facts, the board, deadlock | `History_proofs`, `Induction` |
| `Clients_proofs` | clients that retry | `Clients`, `Turns_proofs` |
| `Recall_proofs`, `TurnRequest_proofs` | theorems of the module they name | that module |
| `Answer_proofs` | assembler, fusion, and both together | `Answer`, `Induction` |
| `Induction` | induction on numbers, loops, sums, counts | - |

The modules compose along the path of a request. `TurnRequest` joins `Http` and `Extraction`: the
handler that `Http` starts runs phase 1, whose candidates, any sequence of them, are a job of
`MemoryService`; there the transaction is many steps, here it is one. `MemoryService` and `Recall`
share the tables. What `Recall` collects is the input of `Answer`, where `Fusion` hands its order to the
gate and to `Assembler`. `MemoryService` and the two ends are checked apart because they share no
state but these inputs, and each takes every input its predecessor can give it.

### Store

A *request* is one HTTP call; what it asks for is its `job`, chosen in `Init`. Only three
attributes of a row ever change after its INSERT: `active`, `supersedes` and `source_turn`.
So a memory is named by its request and candidate, `Memory(r, i)`, and all other attributes
are read back from the job (`KeyOf`, `Cand`). The committed tables are `rows`, `active`,
`supersedes`, `edges` and `mentions`; that `source_turn` was set to NULL is the absence of
`Turn(r)` from `rows`.

A transaction's uncommitted writes are the record `w[r]`, which is also the set of its row
locks: rows it deleted are closed to everyone, rows it inserted or updated to writers, rows a
foreign key was checked against (`share`) only to a DELETE. `Visible` and `ActiveFor` are what
its statements see: the committed rows and its own writes. A statement fixes its target rows
(`todo[r]`) when it starts and visits them one step at a time; a visit waits while the row is
locked and does nothing if the row is gone. `Commit` applies the cascades.

`Hash` is a parameter, for advisory locks are taken on `hashtext(name)`; the theorems hold for
every hash, collisions included.

### IngestTurn and Reconciler

| Action | Code |
|---|---|
| `BeginTurn` | `routes_turns.py` 60-73: acquire, BEGIN, `insert_turn` |
| `Reconcile` | 75-87: `acquire_lock`, then `reconcile` |
| `Deactivate` | `reconciler.py` 145-154: one row of the UPDATE of `apply_decision` |
| `InsertMemory` | 89-113: `insert_memory` |
| `MentionEntity` | 115-126: `upsert_entity`, `link_mention` |
| `LinkSource`, `LinkPeer` | 128-156: `co_extracted` and `same_subject` edges |
| `CommitTurn` | the 201 |
| `ForeignKeyError` | the superseded row or a peer was deleted since it was read: a 500, and a rollback |

`Reconcile` is one step, lock and SELECT: once the lock is granted, only a delete could change
what the SELECT reads, and the model lets deletes commit before the step as well as after it.
Phase 1 reads no shared state, so its result is the job's candidates; correction markers and
the objects quoted in `raw_quote` are attributes of a candidate.

### AdminDelete

The order of statements is a plan per operation (`SessionPlan`, `UserPlan`); `successors` and
`sources` are the updates that ON DELETE SET NULL adds. `BeginDeleteSession` reads the affected
keys, in any order; `NextStatement` starts a statement, `VisitRow` handles one of its rows.
For a session, `recompute_active` runs for each affected key as `reset` and `activate`.

### Recall

The reader's `stage` follows `recall.py`: `Retrieve` for one retriever of the query or of an
expansion, in any order, then `ListStableFacts`, `FindEntities` and `FindMentioned` on one
connection, then `EdgeHop`. A writer may take any step between two of them. What a retriever
matches is a matter of words and vectors, so it is any subset of the scope's rows, cut to its
LIMIT, each above its relevance floor (`strong`) or not; this covers a disabled embedder and a
retriever that raises, too. After the edge hop nothing awaits, so fusion, gate and the choice of
what to tell are operators on the final state (`Chosen`, `GateOf`, `Answer`). `seen` and
`lasting` are history variables: what was active at some time, and all the time, since the
reader began. A search is the same reader with one run of retrievers.

### Assembler

`assemble` is a sequential loop; one step is one line added, one duplicate skipped, or a section
left. `encoded` says which counter `tokens.py` has: tiktoken, which it prefers, or chars/4, which it
falls back to for good when the encoding cannot be loaded. A line is known by its length and by its
tokens (`Tokens`: of a turn's content, of its line, and of the line if the content is cut after 160
tokens), and `size` is the size, in the counter's unit, of the text that the two joins will produce.
Where two texts meet, tiktoken may merge up to `Merged` tokens (`SizesUpTo`). It is a library: that it
makes no more tokens of a joined text than of its parts and the characters between them is
assumed. `Charge` is the comparison the code makes, its double count included.

### Clients

A request of `MemoryService` is an *attempt* `<<client, message, try>>`. A client sends its script in
order; it repeats its last message at any time, up to `Tries`, while attempts at it run. `MaySend` says
where it stops: it goes on to the next message only when no attempt at the last one is in a transaction,
and never repeats a message after a later one. The code asks neither of its callers, and section 5
says what happens to those who do not keep to it. Whether a lost answer or an impatient client made it
repeat is not told apart. The second `INSTANCE` of `FactBoard` has messages where the first has
requests: a message is heard when its first attempt commits, and a retry has to be a stutter.

### Extraction

| Action or operator | Code |
|---|---|
| `FlattenMessages`, `IterUserLines` | `turn_repo.py` 23-32; `rule_extractor.py` 94, 112-115 |
| `ExtractViaRules` | `rule_extractor.py` 154-186, what a pattern matches being part of the input |
| `Kept`, `ExtractViaLlm` | `llm_extractor.py` 97-155 |
| `Extract` | `extraction/service.py` 24-43 |
| `EmbedAnswers`, `EmbedTimesOut`, `EmbedRetries` | `embedding/client.py` 49-75: two attempts and a pause |
| `ExtractAnswers`, `ExtractTimesOut` | `llm/client.py` 49-77 |
| `Gathered`, `BatchEnds` | `routes_turns.py` 49-58; `embedding/client.py` 77-102 |
| `Tick` | a second passes, unless a timer has run out or something can run |

A call may end at any time before its timer, with any result; at its timer it must. A message
is a role, a name and a sequence of lines, a line is the matches of the patterns in it. Of a name only
that counts which `_USER_LINE` tells apart (`Heading`): a closing parenthesis, and a line that begins
with "user:". An item of the model's JSON is
what its fields hold, up to what the code tells apart.

### Http

A body is the sequence of sizes of its chunks, and a number of bytes after which its JSON text is
complete; what it says is a verdict. `Dispatch` is the middleware up to its first `receive`,
`ReceiveChunk` and `ReceiveDisconnect` are its loop; `Route` is the order in which FastAPI parses the
body, resolves `get_pool` and `require_auth`, and validates; `Succeed` and `Fail` are the end of the
handler, and success needs the database. The replay hands on what was buffered, so `Parses` looks at
`buffered` only.

### TurnRequest

`AdmitStep` is a step of `Http` before the handler, `PhaseOneStep` one of `Extraction` inside it.
`StoreTurn` is phase 2, which may raise; `PhaseOneRaises` is what phase 1 does not catch. Requests other
than the turn run their handlers whole. `TurnRequestSpec` implements both `HttpSpec` and `PhaseOneSpec`,
which follows from how the two are joined; the proofs use it to carry invariants over (section 6).

### Fusion

One step of `Fuse` is one turn of `rrf_fuse`'s inner loop, over the buckets of `group_by_source`; `Sort`
is the sort of `rrf_fuse` followed by that of `recall`. `Select` is a filter that keeps order, a recursive function
so that it can be reasoned about. Weights are in tenths and all fractions have a
common denominator, so that sums are exact.

### Answer

`FuseStep` is a step of `Fusion`; `HandOver` splits the fused list into memories and turns and decides the
gate; `AssembleStep` is a step of `Assembler`. The stable facts come from `Recall`, the line of each row
is `Content`.

## 3. Runs

Workloads are finite: each request is made once, and the system stops when all are answered, so
every run says `CHECK_DEADLOCK FALSE`. That nobody waits for ever is a property (`EveryRequestAnswered`,
`EveryTurnIsAnswered`, `EveryoneAnswered`), not the deadlock check. Requests are interchangeable, so
runs of `MemoryService` without liveness use symmetry on them. Symmetry and liveness do not go
together: in `deletes` requests are numbers, and of all orders of their jobs only the sorted one is kept
(`Ordered`), which reduces as much.

| Run | Instance | Checks |
|---|---|---|
| `ingest` | 3 turns of one user out of 5 kinds, 3 connections | `ActiveConsistent`, `TurnsConsistent`, `HistoryIsAChain`, `NoDeadlock`, `StoredTurnHasItsFacts`, `BoardSpec` |
| `deletes` | 3 requests out of 4 turns (two users and an anonymous one, two sessions), a session delete and a user delete, 2 connections; fair | `TypeOK`, `HistoryIsAChain`, `HistoryStaysInKey`, `EdgesGoBothWays`, `GraphStaysInScope`, `OnlyOwnKeysChange`, `EveryRequestAnswered` |
| `serial` | 4 requests of all kinds on 1 connection | `EveryKeyHasOneValue`, `CurrentValueIsLatest`, `EveryMemoryHasItsTurn`, `OnlyOwnKeysChange` |
| `clients` | a client with 6 messages to make a script of 3, 2 tries each, 2 connections | `TalkSpec`, `OneMemoryPerStatement`, `NothingLeftAfterDelete` |
| `turn_request` | one request: every cut of bodies of up to 4 units with one turn, and a plain body with 21 answers of the model and 840 conversations of 2 or 3 messages, two of them with names, without it; fair | `BufferIsBounded`, `GoodRequestsPass`, `HandledBodiesAreWhole`, `PhaseOneInTime`, `VectorsPairUp`, `RulesCatchTheRest`, `EveryTurnIsAnswered` |
| `recall` | 2 writers (turns, a user delete) and a reader | `AnswerIsFresh`, `StoredFactsAreFound`, `AnswerStaysInScope` |
| `recall_live` | 2 turns and a recall on 1 connection; fair | `EveryoneAnswered` |
| `answer` | 5,120 combinations of lists for a query and its expansion with one budget, 256 rankings of 3 memories and 3 turns with up to 2 facts and 5 budgets; each with either counter | `ScoresAreSums`, `KeepsTheStrongest`, `Ledger`, `WithinBudget`, `TierShares`, `CitationsFollowLines`, `NoValueTwice`, `NothingWorseIsTold` |
| `split_brain`, `lost_hobby`, `tier_three`, `blank_turn` | see section 5 | one property each, which the code violates |

What they show:

- `ingest`: turns are atomic whatever their statements interleave to. `BoardSpec` is the refinement
  of `FactBoard`, where a turn is one step: the facts on the board under each key are those of
  some order of the turns, that of their commits. Turns whose candidates come in one order of
  keys never deadlock: the row locks they take after the advisory locks close no cycle.
  `TurnsConsistent` is the invariant that the proof uses, checked first; that it survives user deletes
  as well is the theorem's part.
- `deletes`: session deletes break values (section 5), yet not structure: links of history stay in
  their key, edges keep both directions, no other scope changes; where no session is deleted,
  history is a chain. Deadlocks do arise, the detector's victim gets a 500, and everyone is answered.
- `serial`: any sequence of four operations, one at a time, leaves each single-valued key with
  exactly its latest value, and `DELETE /sessions` reactivates the right one.
- `clients`: to a client that retries its last message, the service is still the board of facts.
  `OneMemoryPerStatement` is stronger than the board: not even an inactive row is left by a retry.
- `turn_request`: the comment at `config.py:39` ("under the evaluator's 60s timeout") holds with 25 seconds
  to spare: the longest way is extraction's 25 and the batch's 10 seconds. The limit is exact on
  bodies that stay, an empty chunk ends nothing, and a client that leaves early never has half a
  document handled: a handled body was complete, though white space after it may be missing. Timeouts,
  the retry, the wait for both calls and a client that leaves all end in an answer.
- `recall`: I1 and the second half of I2 of `README.md` ("after 201 returns, every write is
  visible"), with SELECTs in different snapshots.
- `recall_live`: the reader takes a connection for each SELECT and holds none while it waits for one;
  with a single connection, everyone is answered.
- `answer`: whatever order sources and runs come in, what all retrievers agree on decides which line a
  tight budget leaves out; floors or tokens, headers and separators never add up to more than
  `max_tokens`.

Why the bounds are enough for the interesting cases. One predicate is single-valued and one is not;
every branch of `reconcile` is reached; three values allow a chain with a middle. Two users, two
sessions and the anonymous mode give every combination of scope and session, among them one
session with rows of two scopes. Three concurrent requests allow a cycle through a third, and a
delete between two turns. Subjects: one, so that every memory of a scope is a peer.
`Hash` is injective in the runs. In `recall` the LIMITs of ranked SELECTs are 1 so that the cut
happens; `FactLimit` is 3, never exceeded by a user with two writers, so that
`StoredFactsAreFound` does not hold by its exception; expansions repeat the same SELECTs and
`runs` is 1. `answer` uses the code's header lengths (31, 21, 29), date prefix (15) and
snippet limit (160 tokens), lengths around multiples of four, the smallest `max_tokens` the
schema allows (16), and one budget (230) that a trimmed turn fits in; with tiktoken, up to one token
is merged at each join (`Merged`), and the tokens of lines and headers are of the size they have in English.
In `clients` two tries overlap each other and, on two connections, the next message waits for both;
the scripts say a value again after it was replaced or corrected, and speak again after a delete.
`NoSharedKeys` keeps two clients from stating or wiping the same keys, `StatesOnce` a message from stating
a key twice, `AnonymousSessions` a client from deleting the session of a user: the code does not, and
section 5 says what it does then. In `turn_request` a line has a fact twice, two facts of one predicate and an unusable
match; `Horizon` is beyond `Patience`, so the bound on the clock hides nothing; a body is up
to one unit over the limit and its last chunk may be what crosses it. In `answer` `K` is 2 instead of
60: the formula is the same, and a small `k` makes ranks matter more, so that orders really differ; the
expansion is one more run of one retriever, which is what makes a bucket hold two rankings.

Every property has a mutant in `PROJECT.json`: a plausible slip in the code (a lock not taken, a
WHERE clause without its scope, a header not charged) with which TLC finds it violated.

## 4. Fairness

`FairSpec` assumes weak fairness of `Progress(r)` for each request: its handler's next step, or its
abort by the deadlock detector. The event loop runs every coroutine that can move on, PostgreSQL
grants a lock that is free and resolves every deadlock after `deadlock_timeout`. Failures
(`Fail`: a lost connection, a command timeout, a cancelled request, a crash) are possible at any
step and never owed. Weak fairness suffices because requests are finite in number: a lock that is
free again stays free in the end.

`OrderedFairSpec` of `deletes` is `FairSpec` on sorted jobs. `RecallFairSpec` adds the reader's next step,
of the same event loop. `TurnRequestFairSpec` is weak fairness of what the service does for the turn:
its next step in the HTTP layer, in phase 1, where timers fire, and at the end of the handler. A network
call owes no answer, only its timeout; clients owe no chunk, the database no return, and a process that
exited no restart. `EveryTurnIsAnswered` therefore starts where the request is accepted and its client has
sent everything or left.

## 5. Where code and documents disagree

Four are runs that TLC ends with a counterexample:

- `split_brain`: `recompute_active` takes no advisory lock. A turn holding the lock has already
  decided; a session delete makes an older row of the key active, and both commit: two active
  values of a single-valued key. `README.md:189` says the lock prevents split-brain.
- `lost_hobby`: `recompute_active` leaves one active row for a key, also for predicates whose values
  coexist: deleting one session takes away what other sessions said (`README.md:188`, `191`).
- `tier_three`: `_fit_lines` adds a line to both `used` and `per_item_used` and compares their sum
  with the cap, so "whatever's left" (`assembler.py:38`) is about half of it.
- `blank_turn`: `exc.errors()` holds an exception or bytes that JSONResponse cannot encode, so a turn of
  blank messages, or a body of another media type, is a 500 (`main.py:64`: "never 500").

Others are stated in the modules as well, without a run of their own. TLC finds each violated when its
definition is added as an INVARIANT to the run named here:

| Definition | Run | What the code does, and who says otherwise |
|---|---|---|
| `EveryMemoryHasItsTurn` | `deletes` | memories and turns go in two statements; a turn committed in between keeps its memories and loses its turn row, so its citations no longer lead to a turn (`PLAN.md:291`) |
| `StoredTurnHasItsFacts` | `lost_hobby` | a fact told again is skipped, so its only record goes with the session that said it first; the docstring of `reconciler.py` (8-11) announces a refreshed row for this reason |
| `ReplacedValuesStayReplaced` | `split_brain` | `created_at` is the start of a transaction: a turn that waited for the lock has the older one although it came later, and the recompute brings back the value it replaced (`memory_repo.py:432`: "= the latest") |
| `AnswerIsOnePicture` | `recall` | "`/recall` never sees a partial state" (`routes_turns.py:76`) holds for each SELECT, not for the answer, which may tell a value and its replacement |
| `StrongHitOpensTier2` | `recall` | fusion keeps the vector hit of a memory, however weak, over its full-text hit, and the gate sees only the one kept: "any meaningful FTS hit" (`recall.py:39`) does not count |
| `EachSourceCountsOnce` | `answer` | lists of the query and its expansions become one bucket: a source counts several times for a row, and an expansion's best hit ranks behind the query's last (`fusion.py:10`, `81`) |
| `PhaseOneNeverFails` | `turn_request` | a JSON list or string from the model raises AttributeError in `extract_via_llm`; the turn is lost with a 500 (`llm_extractor.py:10`, `README.md:224`). Only `response_format` keeps OpenAI from sending one. `query_analyzer.analyze` has the same gap at line 138 |
| `CandidatesAreComplete` | `turn_request` | `str(None)` is "None", so an item whose object or value is null is kept (`llm_extractor.py:11`) |
| `EveryUserLineIsRead`, `OnlyTheUserIsQuoted` | `turn_request` | the rules look for lines that begin with "user:" or "user(name):", but `flatten_messages` writes that once per message: further lines are not read; a name with a closing parenthesis hides the first line, too, and another's name with a line "user:" shows that one's; and after a blank message the next line, whoever's, is (`rule_extractor.py:9`, `113`) |

Observed while modelling, and not stated in the modules:

- `get_pool` answers 503 only before the pool exists, when nothing is served yet; later `pool.acquire`
  raises and the answer is a 500, and without a database the process does not start (`README.md:221`).
- `affected_scope_keys` is read before the DELETE (`routes_admin.py:44`): a turn of the session that
  commits in between has its rows deleted and its key not recomputed, which leaves the key with no
  active value. `EveryKeyHasOneValue` is checked one transaction at a time for this reason.
- `upsert_entity` holds the entity row to the end of the transaction, so turns about different facts
  wait for each other when they name one entity (`PLAN.md:79`, `reconciler.py:22` say they do not).
- Two turns that state two keys in opposite orders deadlock on advisory locks; one gets a 500 and
  nothing retries it. `BUILD_SPEC.md:1589` calls hash collisions safe; one can add such a cycle.
- `assembler.py` 277-281 compares memories with all stable facts, also those that did not fit: a memory
  that matched is dropped for a fact that is not shown either.
- A retry is a stutter only for facts that are still current: a message that replaces its own value
  (two values of one key) stores both again when it is repeated, and a retry after another client of the
  user replaced the value brings the old one back. `StatesOnce` and `NoSharedKeys` exclude both.
- An attempt that its client gave up on goes on. If it commits after the client's next message, it brings
  back the value that message replaced, as a second memory of its statement; after a delete it leaves what
  it says behind. The same goes for a message that is repeated after a later one. `MaySend` excludes
  all of it; nothing in the code does, and no document promises it.
- `DELETE /sessions` leaves the entities of a user-scoped session, and a user delete racing a turn may
  leave an entity nothing mentions.
- Rows of one turn tie on `created_at`, so the recompute may choose one that the same turn superseded.
- A correction that quotes several values supersedes the first and only deactivates the others.
- `README.md:222` says an oversized payload is a 422; the code and its test say 413.
- `recall.py` 205-207 says memories go ahead of turns "at equal-ish scores"; the sort puts all memories
  first.
- An assistant's line that itself begins with "user:" is read as the user's.
- The docstring of `decide_gate` opens both tiers on an entity match; the code
  opens tier 1 only for a question about the user (`assembler.py:97`).

## 6. Proofs

| Module | Theorems | For every |
|---|---|---|
| `MemoryService_proofs` | `TypeCorrect`: `Spec => []TypeOK`; `OthersKeysStay`: `Spec => OnlyOwnKeysChange` | job, user, session, predicate, hash, pool size, number of requests |
| | `AdvisoryLocksSuffice`, `TurnsNeverClash` | the same, if no request deletes a session |
| | `EveryKeyShowsItsLatest`, `NoMemoryOutlivesItsTurn` | all operations, one transaction at a time (`PoolSize = 1`) |
| `History_proofs` | `GraphNeverLeavesScope`, `HistoryNeverLeavesKey`, `EveryEdgeGoesBack` | the same, all operations included |
| | `HistoryNeverBranches`, `EveryKeyKeepsOneValue` | the same, if no request deletes a session |
| `Turns_proofs` | `NoFactIsLost`, `TurnsImplementBoard` | the same, if every request is a turn |
| | `OneOrderNeverDeadlocks` | the same, if turns also take locks and entities in one order |
| `Clients_proofs` | `RetriesLeaveOneMemory` | number of clients that keep to `MaySend` and of their tries; scripts of turns and deletes with `StatesOnce`, `NoSharedKeys`, `AnonymousSessions` |
| | `DeletedIsGone` | the same, `NoSharedKeys` being enough |
| | `RetriesImplementBoard` | the same, with `StatesOnce` and `NoSharedKeys`, if every script is of turns |
| `Recall_proofs` | `RecallIsFresh`, `RecallFindsWhatLasts`, `RecallStaysInScope` | the same as `TypeCorrect`, and every query and limit |
| `Answer_proofs` | `LedgerHolds`, `ContextFits`, `TiersKeepTheirShares`, `CitationsNameTheSources`, `NothingToldTwice` | ranked lists, lengths, token counts, gate, budget, and either counter |
| | `FusionAddsUp`, `FusionKeepsTheStrongest` | rows, lists of any retrievers and runs, `K` |
| | `AnswerFits`, `WorseIsNeverTold` | the same, and facts, lines of rows, budget |
| `TurnRequest_proofs` | `PhaseOneIsInTime`, `EachCandidateHasItsVector`, `RulesAreTheFallback` | request, turn, conversation, answer, outcome, and deadlines that fit; the last for names that are legible |
| | `BufferStaysBounded`, `OnlyWholeBodiesAreHandled`, `ProperRequestsPass` | number of requests, bodies, chunks, limit |

Assumptions on constants: `StoreAssumption`, `ClientsAssumption`, `RecallAssumption`, `AssemblerAssumption`, `FusionAssumption`,
`AnswerAssumption`, `ExtractionAssumption`, `HttpAssumption` and `TurnRequestAssumption`, which say what the request schemas, the taxonomy, the retrievers and
the server guarantee (a user delete names a user, for the id is a segment of its path); `DeadlinesFit`, which
the settings satisfy. What scripts must keep to is no assumption but a hypothesis of the theorems that need it
(`ScriptsKeepApart` has TLC evaluate it for the scripts of the run). Of fusion: one SELECT returns a row once, the lists of the query come before those of its
expansions, as `recall` appends them, and `Common` is what its name says; of the answer: a row is one of its table by
its primary key.

Some theorems leave operations out, because with them the code does not keep the property:

- No session is deleted (consistency, history, one value): `split_brain` is the counterexample to the first,
  and a recompute that revives a replaced value gives an active row a successor.
- Turns only (`NoFactIsLost`, the board, also as clients that retry see it): a delete takes the row that a later turn was told to be enough
  (`StoredTurnHasItsFacts` in section 5), and between its statements it is no single step of the board.
- One order (`OneOrder(rank)`): turns that state two keys, or name two entities, in opposite orders deadlock.
- One transaction at a time (the latest value, the turn of a memory): section 5 shows a turn losing its row to a concurrent
  delete, and a key left with two values or none.

*Types.* `TypeOK` says more than types: tables refer only to rows that exist, a handler stands at a
candidate, an entity or a key that its next step uses, and a memory comes from a candidate of its
request. It is inductive; the other proofs use it.

*Consistency.* `ActiveConsistent` alone is not inductive, for it says nothing of transactions in
flight. `TurnsConsistent` adds: advisory locks are exclusive; a transaction activates only rows it
inserted, under the lock of their key; its own view has no clash; and at the INSERT, whatever would
clash with the new row is still on its list. At a commit, two rows that clash can then only come
from two transactions that both hold the lock of one key.

*Keys.* `OwnKeys`: what a transaction has activated, deactivated or deleted, what is on its list, and the keys
it has still to recompute are under keys of its `Reach`. Only a commit changes what is active
(`OnlyCommitsPublish`), by no more than that.

*Graph.* `GraphInv` adds the edges not yet committed, that a transaction inserts only its own memories, and
that the peers still to be linked are of its scope. `MentionInv` says of mentions, committed or not, that
the entity is one the memory's candidate named in its scope, and that the names a turn has still to
upsert are among those of its candidate at hand.

*Links.* `LinksInKey`: what a transaction will link is of its key; the row a pending INSERT supersedes was
an active row of that key with another object, for an equal one makes a skip. `LinksBack`: edges between
peers are drawn both ways in one step; edges within a turn are drawn source by source, so that those
of the sources visited are there, and at the commit all were visited. A cascade removes both directions.

*History.* `HistoryInv` states the chain for what each transaction sees (`History(r)`, `ActiveFor(r)`), and ties
the row a pending INSERT supersedes to its list: it was active, has no successor, and under a
single-valued key it is the only one. The advisory lock makes the view stay true until the commit,
also for keys of other transactions: what they link is under locks of their own. A user delete takes whole
keys, or nothing of them (`Doomed`), so it breaks no chain in the middle.

*Facts.* `FactsInv`: of every candidate a turn is done with, the fact is on record in what the turn sees,
in its own row or in one committed before. Without deletes, what is on record stays.

*Board.* `BoardInv` says of each turn where it stands on the board: the board as committed, after the
candidates it is done with, is what the turn sees as active (`Boards` of `FactBoard`, a recursive function, of
which each value follows from the one before by `Induct`). Its lock keeps others off the keys it
still has to write. A commit is then `Hear`, and every other step a stutter.

*Deadlock.* Locks and entities are numbered by `rank`; `OrderInv` says that a turn never asks for
one below those it holds, and that what it holds is held by no other. The row locks of turns need no number:
rows to deactivate are under the advisory lock of their key, which the turn holds, and `FOR KEY SHARE` waits for
no turn. A circle of turns would have one whose number is highest, and it waits for a higher one.

*Deletes.* With one connection a transaction sees what it found when it began, and its own writes.
`SerialInv` says that between two transactions every single-valued key shows exactly its latest memory
and every memory has its turn (`Committed`), and what each transaction may leave undone while it runs: a
turn, the rows of one key it is about to replace; a delete, the keys it has still to recompute
(`Exempt`), of which the one at work has all its memories switched off, or but for the latest. Each delete
selects memories and turns by different columns; `SelectedMemories` and `SelectedTurns` agree because
the user of a turn, or its session, decides both.

*Retries.* `WriteInv` says what each transaction may have written: a turn inserts its own rows (active, if it
states a key once) under locks it holds, and deactivates only under keys of which it inserts a memory; a delete inserts nothing.
`SentInv`: whatever was sent, no attempt at an earlier message of that client runs any more. `OnceInv`: what is on
record of a client's last message is still active (`StillActive`), for only that client touches its keys; so
the retry that gets the lock finds it and skips (`RetryFinds`), and two attempts that both chose to
insert would hold one lock.

*Retries on the board.* A step of an attempt is `CommitHears` of the proof for single requests, or changes nothing on the
board (`StepOnBoard`). What a client's last message stated stays on the board once it was heard (`StillTold`),
and stating again what is all there changes nothing (`AfterTelling`, over the recursion of `Boards` by `Induct`):
so the first attempt answered is `Hear` of its message, and any later one a stutter.

*Deletes that were answered.* `Clears`: of the scope, what is in the tables is deleted or on the list of the running
statement, for the tables whose statement has run. Nobody inserts into the scope meanwhile or after
(`NobodyInserts`): an earlier message of the client has no attempt running, and other clients state other keys.

*Recall.* `Fresh`: while the reader runs, `seen` covers what is active, and all it collected was
seen. `Listed`: from the moment the facts were listed, what has lasted is among them. Both hold
whatever the writers do between two SELECTs. `ReadsInScope` uses `GraphStaysInScope` for the two
walks that check no scope; `ReadersDoNotWrite` carries the theorem about `Spec` over.

*Ledger.* With chars/4, `ApproxTokenCount` rounds down, but a line is charged one token more, so a charged
token always covers four characters, the line break or its share of a blank line; with tiktoken the token
more covers the line break, and that of the header the blank line, of two characters with the one of
the line (`CountCovers`, `CostCovers`, `HeaderCovers`). `Ledger` keeps two in hand for the next
section's blank line. Tokens merged at a join only make the text smaller (`SmallerFits`).

*Shares and citations.* `Shares`: what a section was charged is its header and the sum of its lines, under a
cap that is a share of the budget, and nothing of a section is charged before it is entered. `Cites`:
the citations so far are the sources of the lines so far; a line added is the last in `UpTo`'s order
(`LinesGrow`), and so is its citation.

*Fusion.* The buckets of `group_by_source`, read one after the other, have every place of the candidates exactly
once, each at its rank among those of its source (`Grouping`, `ReadsNext`, `ReadsAll`, over `Select` and `FlattenSeq`).
`FuseInv` says of each row that its score is the sum of the shares of its places already read (`Read`), and
that the candidate kept is the strongest of them, of the earliest run.

*Order.* `FirstPlace` separates rows of one score, so `Before` is a strict total order of the rows found
(`BeforeOrders`), and every place from 1 to their number is taken by the row that has as many before it
(`PlacesTaken`): the CHOOSE of `Sort` is what the two stable sorts give (`Sorting`, `InOrder`).

*Nothing worse.* If one row dominates another, each place of the other has a place of its own of the first
ahead of it in the same bucket (`PlacesAhead`, a count and no choice), so its score is no lower
(`SumInjects`, `DominatesScores`); if they are equal, its first place is earlier (`FirstOfTwo`). `Cuts` says that the
assembler cuts each tier at its end: up to one place of its ranking every line was told or passed over
as a known fact, and none from behind it was told. The row ahead was therefore told, or is a fact.

*Phase 1.* The invariant bounds, for each call under way, its timer by the time left: an embed attempt by
what its retry still needs, the batch by the patience itself; `Tick` passes no timer.

*Rules.* `Legible` leaves out the names `_USER_LINE` stumbles over. Once the extraction is over, the candidates are the model's or the rules' (`CandsInv`), and what is used of
the model's is signed by it. `FlattenSeq` keeps the first line of each message (`TextHasFirstLines`); reading the text from its
end, the recursion of `IterUserLines` takes each of them, for a blank message swallows only the line right
behind it and takes that (`IterTakesFirstLines`); `CollectsOnce` is the loop with its `seen`: each usable match
is there, and no two are equal.

*Bodies.* What is buffered is the sum of the chunks taken, and was within the limit before the last one;
a handler is reached only if what came is at least the document, which is at most the whole body.
`PassInv` is the other direction: of a proper request, the buffer is exactly the sum of the first chunks
(`PrefixSums`), a prefix never exceeds the whole (`PrefixesGrow`), and the loop ends only behind the last
chunk; so no test of the layer can fail.

*The whole request.* The theorems about phase 1 and about bodies are of `TurnRequestSpec`. Each step of
it is a step of `Http` with phase 1 standing still, or the reverse, by the way the two are joined
(`TurnRequestImplementsPhaseOne`, `TurnRequestImplementsHttp`), so what is invariant of the part is invariant of
the whole. In the same way `Handing` says of `AnswerSpec` that the assembler
has not begun before the fused list is handed over, and `HandsItems` that what is handed over is among the
lists its own theorems are about; from there every step is one of the assembler or leaves it
alone, so its invariants hold of the whole answer (`AnswerFits`).

*Induction.* The library's induction theorems take a predicate, which the provers here cannot
instantiate. `Induct` and `Least` are about a set of numbers instead, and rest on the well-founded
order of finite sets. With them the recursive functions behind `SumFunction` and `FoldLeft` unfold
(`SumOfFunction`, `SumOfSequence`), and so do `Select`, `Collected`, `IterUserLines` and the loop behind
`FlattenSeq` (`Iterates`, `ScanExists`, `Flattens`). `SelectSeq`, which the prover knows by name only,
does not; no theorem needs it to.

Only model-checked: liveness under fairness (`EveryRequestAnswered`, `EveryTurnIsAnswered`, `EveryoneAnswered`) and
anything about ENABLED, which TLAPS cannot prove; and `TalkSpec` for scripts with deletes, which are one
step of the board only with one connection.

## 7. Abstractions

- Text is abstract: subjects, predicates, objects and names are values, equal up to what
  `strip().lower()` or the unique index identifies. In `Recall` a memory's text is its subject, predicate
  and object.
- `now()` is a counter, one tick per transaction; rows of one transaction tie.
- A row that a cascade deletes in `memory_edges` or `memory_entity_mentions` is not locked by itself: the
  waits this adds can only end in a commit or in an abort, which `Fail` covers.
- Time in `Extraction` is in seconds, a fraction counting as one; the pause of 0.3 seconds between two
  attempts is 1. Bytes in `Http` are a few units. Scores in `Fusion` are exact.
- A client's retry is the same message; a proxy that repeats a request behind the client's back is one.

Not modelled, and why:

- *What a regular expression, the language model, full-text search or an embedding matches*: any subset,
  or an input. `normalize_predicate` and `spec_for` are tables, and the store sees of them only which
  predicates are single-valued.
- *The query analyzer's heuristics* on words: its answer is part of a query in `Recall`, every one of them
  allowed. Its network call is `chat_json`, which `Extraction` models.
- *Listing*: one SELECT without state. *Search's cut to `limit`*: its answer is taken before the cut, an
  upper bound.
- *Arcs* ("previously ..."): text only; that the link they follow stays in its key is `HistoryStaysInKey`.
- *tiktoken itself*: the tokens of a text are any number, those of a joined text at most those of its parts
  (section 2). An encoder that broke this could exceed the budget, and nothing in the code would notice.
- Confidence beyond the constant `Stable`, indexes, migrations
  (idempotent DDL in a transaction, before the first request), headers, formatting, logging, scripts.

## 8. Plan

Done, in this order: the writers and their consistency, the deletes, the refinement of
`FactBoard`, recall beside the writers, the assembler; then clients that retry, deletes against
history, edges and liveness, recall under fairness, phase 1 and the HTTP layer composed into the whole
request, rank fusion composed with the assembler into the answer; the theorems of section 6.

Every invariant that a passing run checks is a theorem, under the conditions section 6 names. What could be
added: a board on which a delete is several steps, so that `TalkSpec` has deletes in its theorem too.
