------------------------------ MODULE Clients ------------------------------
(***************************************************************************)
(* Programs that talk to the service (no code of this repository).  A      *)
(* client has a script of messages and sends them in order.  It learns of  *)
(* an answer only if it arrives: a 201 may be lost, or take longer than    *)
(* the client waits.  Then it sends the message again, while the first     *)
(* attempt may still run, and goes on to the next message when no attempt  *)
(* of the last one is running any more.  POST /turns has no request id:    *)
(* nothing but the idempotent skip of the reconciler tells the service     *)
(* that it has heard a message before.                                     *)
(***************************************************************************)
EXTENDS MemoryService

CONSTANTS
    Client,
    Messages,   \* messages of a script
    Tries,      \* each client's attempts at one message
    Scripts     \* what the clients say

\* A request is an attempt: <<client, message, try>>.
Message == Client \X (1..Messages)
Attempt == UNION {{<<m[1], m[2], n>> : n \in 1..Tries[m[1]]} : m \in Message}

StatedKeys(j) == {CandidateKey(j, j.cands[i]) : i \in DOMAIN j.cands}

ASSUME ClientsAssumption ==
    /\ Messages \in Nat /\ Tries \in [Client -> Nat \ {0}]
    /\ Request = Attempt
    /\ Scripts \subseteq [Client -> [1..Messages -> Jobs]]
    /\ \A j \in Jobs : j.op # "turn" => j.cands = <<>>

\* What the code does not ask of its callers, and without which it breaks what
\* follows.  A message states a key once: of two statements of a single-valued key
\* the second replaces the first, so that a retry tells both again.
StatesOnce ==
    \A j \in Jobs : \A i, k \in DOMAIN j.cands :
        CandidateKey(j, j.cands[i]) = CandidateKey(j, j.cands[k]) => i = k

\* No client states or wipes a key that another states: what another has replaced
\* since is told again by a retry.
NoSharedKeys ==
    \A s \in Scripts : \A m, p \in Message :
        m[1] # p[1] =>
            StatedKeys(s[m[1]][m[2]])
              \cap (StatedKeys(s[p[1]][p[2]]) \cup WipedKeys(s[p[1]][p[2]])) = {}

\* Only sessions without a user are deleted: the delete of a user's session counts
\* other sessions' facts among those it recomputes.
AnonymousSessions ==
    \A s \in Scripts : \A m, p \in Message :
        LET j == s[m[1]][m[2]]
            h == s[p[1]][p[2]]
        IN  j.op = "turn" /\ h.op = "delete_session" /\ j.session = h.session =>
                j.user = NoUser

Unsent(c, i, n) == pc[<<c, i, n>>] = "waiting"
AtRest(c, i) == \A n \in 1..Tries[c] : ~InTransaction(<<c, i, n>>)

\* A client sends the same message again at any time, but goes on to the next one
\* only when every attempt it sent is over (an attempt that outlives its client's
\* patience is waited for), and never goes back to a message before it.
MaySend(c, i, n) ==
    /\ n > 1 => ~Unsent(c, i, n - 1)
    /\ i > 1 => ~Unsent(c, i - 1, 1) /\ AtRest(c, i - 1)
    /\ i < Messages => Unsent(c, i + 1, 1)

\* Any step of the service for an attempt that was sent.
AttemptStep(c, i, n) ==
    LET r == <<c, i, n>>
    IN  /\ Unsent(c, i, n) => MaySend(c, i, n)
        /\ TurnStep(r) \/ DeleteStep(r) \/ DeadlockVictim(r) \/ Fail(r)

ClientsInit ==
    /\ \E s \in Scripts : job = [r \in Request |-> s[r[1]][r[2]]]
    /\ Init

ClientsNext == \E r \in Request : AttemptStep(r[1], r[2], r[3])

ClientsSpec == ClientsInit /\ [][ClientsNext]_vars

----------------------------------------------------------------------------
\* To clients that retry their last message, the service is still the board of
\* facts: a message is heard at most once however often it is sent, a retry changes
\* nothing, and a message is never half heard.
Told == [m \in Message |-> job[<<m[1], m[2], 1>>]]
Heard == {m \in Message : \E n \in 1..Tries[m[1]] : pc[<<m[1], m[2], n>>] = "done"}

Talk == INSTANCE FactBoard WITH
    Request <- Message, Key <- ScopeKey, KeyFor <- CandidateKey, Wiped <- WipedKeys,
    job <- Told, facts <- ActiveFacts, heard <- Heard

TalkSpec == Talk!Spec

\* A retry leaves no second memory of what was told once, not even an inactive
\* one: attempts at one message that overlap included.
OneMemoryPerStatement ==
    \A m \in Message : \A k \in DOMAIN Told[m].cands :
        Cardinality({n \in 1..Tries[m[1]] : Memory(<<m[1], m[2], n>>, k) \in rows}) <= 1

\* Once a client has the 204 of its delete, whose attempts may have overlapped and
\* failed, and while it has sent nothing since, nothing is left of what it said
\* before: no turn, no memory and no entity.
OfClient(c, scope) ==
    {x \in rows : \/ x \in TurnRow \cup MemoryRow /\ x[2][1] = c /\ ScopeOf(job[x[2]]) = scope
                  \/ x \in EntityRow /\ x[2] = scope}

NothingLeftAfterDelete ==
    \A m \in Heard :
        LET c == m[1]
            i == m[2]
        IN  /\ Told[m].op # "turn"
            /\ i < Messages => Unsent(c, i + 1, 1)
            => OfClient(c, OwnScope(<<c, i, 1>>)) = {}
=============================================================================
