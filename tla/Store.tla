------------------------------- MODULE Store -------------------------------
(***************************************************************************)
(* The PostgreSQL side of the memory service: the five tables the request  *)
(* handlers write, and the transaction each handler holds while it runs.   *)
(*                                                                         *)
(* A request is one HTTP call.  What it will ask for (its job) is chosen   *)
(* once, in Init.  Row attributes never change after the INSERT except     *)
(* memories.active, memories.supersedes and memories.source_turn, so a     *)
(* memory row is named by the request and the candidate it came from and   *)
(* its attributes are read back from the job.                              *)
(*                                                                         *)
(* Isolation is READ COMMITTED, the default the pool leaves in place: each *)
(* statement computes its target rows from the rows committed when the     *)
(* statement starts (plus the transaction's own), then visits them one at  *)
(* a time, waiting for a row another transaction has locked and skipping   *)
(* one that has been deleted meanwhile.                                    *)
(***************************************************************************)
EXTENDS Naturals, Sequences, FiniteSets

CONSTANTS
    Request,     \* HTTP requests
    User,        \* user ids
    Session,     \* session ids
    NoUser,      \* user_id = null (or ''): the anonymous mode
    Subject,     \* subjects of memories, e.g. "user"
    Predicate,   \* normalized predicates of the taxonomy
    Single,      \* the predicates whose multiplicity is "one"
    Object,      \* objects, up to strip().lower()
    Name,        \* entities, up to lower(name) and type
    Jobs,        \* what a request may ask for
    PoolSize,    \* connections of the pool
    Hash(_)      \* hashtext of an advisory lock's name

Candidate == [subject : Subject, predicate : Predicate, object : Object,
              correction : BOOLEAN,       \* raw_quote has a correction marker
              quoted : SUBSET Object,     \* objects that occur in raw_quote
              entities : Seq(Name)]

Job == [op : {"turn", "delete_session", "delete_user"},
        user : User \cup {NoUser}, session : Session, cands : Seq(Candidate)]

ASSUME StoreAssumption ==
    /\ Jobs \subseteq Job
    /\ Single \subseteq Predicate
    /\ NoUser \notin User
    /\ PoolSize \in Nat \ {0}
    /\ \A j \in Jobs : j.op = "delete_user" => j.user \in User    \* a path segment

Scope == ({"user"} \X User) \cup ({"session"} \X Session)

ScopeKey == Scope \X Subject \X Predicate

\* Invariant 1: memories follow the user, or the session of an anonymous turn.
ScopeOf(j) == IF j.user = NoUser THEN <<"session", j.session>> ELSE <<"user", j.user>>

TurnRow == {"turn"} \X Request
MemoryRow == {"memory"} \X Request \X Nat
EntityRow == {"entity"} \X Scope \X Name
Row == TurnRow \cup MemoryRow \cup EntityRow

Turn(r) == <<"turn", r>>
Memory(r, i) == <<"memory", r, i>>
Entity(scope, name) == <<"entity", scope, name>>

EdgeKind == {"co_extracted", "same_subject"}

VARIABLES
    job,         \* what each request asks for
    pc,          \* where its handler stands
    at,          \* the candidate it works on
    todo,        \* rows its running statement still has to visit
    sup,         \* the row its pending INSERT supersedes: none or one
    names,       \* entities its last inserted memory still has to mention
    keys,        \* scope keys a session delete still has to recompute
    begun,       \* now() of its transaction, 0 before
    clock,       \* the latest now() handed out
    locks,       \* advisory locks it holds
    w,           \* its uncommitted writes, which are also its row locks
    rows,        \* committed rows of turns, memories and entities
    active,      \* committed memories with active = true
    supersedes,  \* committed pairs <<row, the row it supersedes>>
    edges,       \* committed memory_edges: <<src, dst, relation>>
    mentions     \* committed memory_entity_mentions

control == <<at, todo, sup, names, keys>>
store == <<rows, active, supersedes, edges, mentions>>
vars == <<job, pc, control, begun, clock, locks, w, store>>

----------------------------------------------------------------------------
\* Attributes of a memory row.

Cand(x) == job[x[2]].cands[x[3]]
KeyOf(x) == <<ScopeOf(job[x[2]]), Cand(x).subject, Cand(x).predicate>>

----------------------------------------------------------------------------
\* What a transaction has written and sees.

Writes == [ins : SUBSET Row, del : SUBSET Row,
           on : SUBSET MemoryRow,                    \* active := true
           off : SUBSET MemoryRow,                   \* active := false
           touch : SUBSET Row,                       \* updated, same content
           share : SUBSET Row,                       \* FOR KEY SHARE only
           chain : SUBSET (Row \X Row),
           edges : SUBSET (Row \X Row \X EdgeKind),
           mentions : SUBSET (Row \X Row)]

NoWrites == [ins |-> {}, del |-> {}, on |-> {}, off |-> {}, touch |-> {},
             share |-> {}, chain |-> {}, edges |-> {}, mentions |-> {}]

Visible(r) == (rows \cup w[r].ins) \ w[r].del
VisibleMemories(r) == Visible(r) \cap MemoryRow
ActiveFor(r) == ((active \ w[r].off) \cup w[r].on) \cap Visible(r)

----------------------------------------------------------------------------
\* Row locks.  A deleted row is closed to everyone, an updated one to writers,
\* a row a foreign key was checked against only to a DELETE.

\* Mutation: foreign keys lock with FOR SHARE, which conflicts with updates.
BarredForShare(q, mode) ==
    w[q].del \cup w[q].ins \cup w[q].on \cup w[q].off \cup w[q].touch \cup
    (IF mode = "delete" THEN w[q].share ELSE {})

Barred(q, mode) ==
    w[q].del \cup
    (IF mode = "share" THEN {}
     ELSE w[q].ins \cup w[q].on \cup w[q].off \cup w[q].touch) \cup
    (IF mode = "delete" THEN w[q].share ELSE {})

Free(r, x, mode) == \A q \in Request \ {r} : x \notin Barred(q, mode)

\* Mutation: no advisory lock.
NeverWaits(r, k) == TRUE

LockFree(r, k) == \A q \in Request \ {r} : Hash(k) \notin locks[q]

----------------------------------------------------------------------------
\* Transactions.

Over(r) == pc[r] \in {"done", "failed"}
InTransaction(r) == ~Over(r) /\ pc[r] # "waiting"

ConnectionFree == Cardinality({r \in Request : InTransaction(r)}) < PoolSize

\* pool.acquire() and BEGIN.
Open(r) ==
    /\ pc[r] = "waiting"
    /\ ConnectionFree
    /\ clock' = clock + 1
    /\ begun' = [begun EXCEPT ![r] = clock + 1]

\* The end of the transaction block, on either path.
Close(r, outcome) ==
    /\ pc' = [pc EXCEPT ![r] = outcome]
    /\ at' = [at EXCEPT ![r] = 0]
    /\ todo' = [todo EXCEPT ![r] = {}]
    /\ sup' = [sup EXCEPT ![r] = {}]
    /\ names' = [names EXCEPT ![r] = <<>>]
    /\ keys' = [keys EXCEPT ![r] = <<>>]
    /\ locks' = [locks EXCEPT ![r] = {}]
    /\ w' = [w EXCEPT ![r] = NoWrites]
    /\ UNCHANGED <<job, begun, clock>>

\* Mutation: edges and mentions have no foreign keys.
CommitWithoutCascade(r) ==
    /\ rows' = Visible(r)
    /\ active' = ActiveFor(r)
    /\ supersedes' = {p \in supersedes \cup w[r].chain : {p[1], p[2]} \subseteq Visible(r)}
    /\ edges' = edges \cup w[r].edges
    /\ mentions' = mentions \cup w[r].mentions
    /\ Close(r, "done")

\* Rows that refer to a deleted one go with it (ON DELETE CASCADE), or lose the
\* reference (supersedes ON DELETE SET NULL).
Commit(r) ==
    LET kept == Visible(r)
    IN  /\ rows' = kept
        /\ active' = ActiveFor(r)
        /\ supersedes' = {p \in supersedes \cup w[r].chain : p[1] \in kept /\ p[2] \in kept}
        /\ edges' = {e \in edges \cup w[r].edges : e[1] \in kept /\ e[2] \in kept}
        /\ mentions' = {m \in mentions \cup w[r].mentions : m[1] \in kept /\ m[2] \in kept}
        /\ Close(r, "done")

Rollback(r) == Close(r, "failed") /\ UNCHANGED store

StoreInit ==
    /\ job \in [Request -> Jobs]
    /\ pc = [r \in Request |-> "waiting"]
    /\ at = [r \in Request |-> 0]
    /\ todo = [r \in Request |-> {}]
    /\ sup = [r \in Request |-> {}]
    /\ names = [r \in Request |-> <<>>]
    /\ keys = [r \in Request |-> <<>>]
    /\ begun = [r \in Request |-> 0]
    /\ clock = 0
    /\ locks = [r \in Request |-> {}]
    /\ w = [r \in Request |-> NoWrites]
    /\ rows = {}
    /\ active = {}
    /\ supersedes = {}
    /\ edges = {}
    /\ mentions = {}
=============================================================================
