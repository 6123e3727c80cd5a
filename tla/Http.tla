-------------------------------- MODULE Http --------------------------------
(***************************************************************************)
(* What stands between a client and a handler (main.py, api/middleware.py, *)
(* api/deps.py): the process and its pool, the limit on the size of a      *)
(* body, parsing, the bearer token, validation, and the handlers of        *)
(* errors.  A body arrives in chunks, with or without a Content-Length,    *)
(* and its client may leave before the last one.                           *)
(***************************************************************************)
EXTENDS Naturals, Sequences, SequencesExt

CONSTANTS
    Request,
    Calls,       \* what a client may send
    MaxBytes,    \* Settings.max_payload_bytes
    MaxChunk     \* largest chunk the server hands over

Total(chunks) == FoldLeft(+, 0, chunks)

\* A call.  Its JSON text is complete after "document" bytes; only white space may
\* follow.  What it says is valid, is no JSON, breaks a constraint, breaks the one
\* constraint checked by a ValueError (a turn of blank messages), or comes under
\* another media type, so that it is never parsed.  A length that is stated is
\* that of the chunks: the HTTP server sees to it.
Verdict == {"valid", "no_json", "invalid", "blank", "untyped"}
Call == [method : {"GET", "DELETE", "POST"}, health : BOOLEAN,
         length : {"none", "bad", "stated"},
         chunks : Seq(0..MaxChunk), document : Nat, verdict : Verdict, token : BOOLEAN]

ASSUME HttpAssumption ==
    /\ MaxBytes \in Nat /\ MaxChunk \in Nat
    /\ Calls \subseteq Call
    /\ \A c \in Calls : c.chunks # <<>> /\ c.document <= Total(c.chunks)

VARIABLES
    call,      \* what each request asks
    service,   \* starting, serving or exited
    db,        \* up or down
    at,        \* where each request stands
    sent,      \* chunks its client has sent
    gone,      \* its client has left
    taken,     \* chunks the middleware has received
    buffered,  \* bytes it holds
    status,    \* the answer
    handled    \* requests whose handler has done its work

client == <<sent, gone>>
process == <<service, db>>
httpVars == <<call, service, db, at, sent, gone, taken, buffered, status, handled>>

----------------------------------------------------------------------------
\* The process: create_pool and run_migrations need the database; where they fail
\* it exits, and is started again.
StartUp ==
    /\ service = "starting"
    /\ service' = IF db = "up" THEN "serving" ELSE "exited"
    /\ UNCHANGED <<call, db, at, client, taken, buffered, status, handled>>

Restart ==
    /\ service = "exited"
    /\ service' = "starting"
    /\ UNCHANGED <<call, db, at, client, taken, buffered, status, handled>>

DbChanges ==
    /\ db' = IF db = "up" THEN "down" ELSE "up"
    /\ UNCHANGED <<call, service, at, client, taken, buffered, status, handled>>

\* The client sends one more chunk, or leaves.
SendChunk(r) ==
    /\ at[r] \in {"connecting", "reading"}
    /\ ~gone[r]
    /\ sent[r] < Len(call[r].chunks)
    /\ sent' = [sent EXCEPT ![r] = @ + 1]
    /\ UNCHANGED <<call, process, at, gone, taken, buffered, status, handled>>

Leave(r) ==
    /\ at[r] = "reading"
    /\ ~gone[r]
    /\ sent[r] < Len(call[r].chunks)
    /\ gone' = [gone EXCEPT ![r] = TRUE]
    /\ UNCHANGED <<call, process, at, sent, taken, buffered, status, handled>>

Answer(r, code) ==
    /\ at' = [at EXCEPT ![r] = "answered"]
    /\ status' = [status EXCEPT ![r] = code]

----------------------------------------------------------------------------
HasBody(r) == call[r].method = "POST"

\* dispatch, up to the first receive.
Dispatch(r) ==
    /\ service = "serving"
    /\ at[r] = "connecting"
    /\ IF HasBody(r) /\ call[r].length = "bad" THEN Answer(r, 400)
       ELSE IF HasBody(r) /\ call[r].length = "stated" /\ Total(call[r].chunks) > MaxBytes
       THEN Answer(r, 413)
       ELSE /\ at' = [at EXCEPT ![r] = IF HasBody(r) THEN "reading" ELSE "routing"]
            /\ UNCHANGED status
    /\ UNCHANGED <<call, process, client, taken, buffered, handled>>

\* Mutation: only a stated length is looked at.
NeverTooLarge(r, size) == FALSE

\* Mutation: the size is looked at when the body is complete.
TooLargeInTheEnd(r, size) ==
    size > MaxBytes /\ taken[r] + 1 = Len(call[r].chunks)

TooLarge(r, size) == size > MaxBytes

\* Mutation: an empty chunk ends the body.
NoMoreIfEmpty(r) ==
    taken[r] + 1 = Len(call[r].chunks) \/ call[r].chunks[taken[r] + 1] = 0

\* more_body of the chunk.
NoMore(r) == taken[r] + 1 = Len(call[r].chunks)

\* One message of the loop: a chunk.
ReceiveChunk(r) ==
    /\ at[r] = "reading"
    /\ taken[r] < sent[r]
    /\ LET size == buffered[r] + call[r].chunks[taken[r] + 1]
       IN  /\ buffered' = [buffered EXCEPT ![r] = size]
           /\ IF TooLarge(r, size) THEN Answer(r, 413)
              ELSE /\ at' = [at EXCEPT ![r] = IF NoMore(r) THEN "routing" ELSE "reading"]
                   /\ UNCHANGED status
    /\ taken' = [taken EXCEPT ![r] = @ + 1]
    /\ UNCHANGED <<call, process, client, handled>>

\* Mutation: the loop goes on until a message says that there is no more.
DisconnectIgnored(r) == at

\* http.disconnect has neither body nor more_body: the loop ends, and what came so
\* far goes to the handler.
AfterDisconnect(r) == [at EXCEPT ![r] = "routing"]

ReceiveDisconnect(r) ==
    /\ at[r] = "reading"
    /\ gone[r]
    /\ taken[r] = sent[r]
    /\ at' = AfterDisconnect(r)
    /\ UNCHANGED <<call, process, client, taken, buffered, status, handled>>

\* The body parses: what came of it is a complete JSON text.
Parses(r) ==
    \/ call[r].verdict = "untyped"
    \/ call[r].verdict # "no_json" /\ buffered[r] >= call[r].document
\* What errors() returns may hold an exception or bytes, which JSONResponse cannot
\* encode: the handler of the error fails, and the last one answers.
ValidationStatus(r) == IF call[r].verdict \in {"blank", "untyped"} THEN 500 ELSE 422

\* The route: the body is parsed first, then come the dependencies (pool, token),
\* then the constraints on what it says.
Route(r) ==
    /\ at[r] = "routing"
    /\ IF HasBody(r) /\ ~Parses(r) THEN Answer(r, 422)
       ELSE IF service # "serving" THEN Answer(r, 503)
       ELSE IF ~call[r].health /\ ~call[r].token THEN Answer(r, 401)
       ELSE IF HasBody(r) /\ call[r].verdict # "valid" THEN Answer(r, ValidationStatus(r))
       ELSE at' = [at EXCEPT ![r] = "handling"] /\ UNCHANGED status
    /\ UNCHANGED <<call, process, client, taken, buffered, handled>>

\* The handler: its work is done, or it raises, as it does where a statement finds
\* no database.  /health catches what pool.acquire raises, and nothing else fails.
Succeed(r) ==
    /\ at[r] = "handling"
    /\ db = "up"
    /\ Answer(r, 200)
    /\ handled' = handled \cup {r}
    /\ UNCHANGED <<call, process, client, taken, buffered>>

Fail(r) ==
    /\ at[r] = "handling"
    /\ call[r].health => db = "down"
    /\ Answer(r, IF call[r].health THEN 503 ELSE 500)
    /\ UNCHANGED <<call, process, client, taken, buffered, handled>>

----------------------------------------------------------------------------
HttpInit ==
    /\ call \in [Request -> Calls]
    /\ service = "starting"
    /\ db \in {"up", "down"}
    /\ at = [r \in Request |-> "connecting"]
    /\ sent = [r \in Request |-> 0]
    /\ gone = [r \in Request |-> FALSE]
    /\ taken = [r \in Request |-> 0]
    /\ buffered = [r \in Request |-> 0]
    /\ status = [r \in Request |-> 0]
    /\ handled = {}

Admit(r) == Dispatch(r) \/ ReceiveChunk(r) \/ ReceiveDisconnect(r) \/ Route(r)

Outside ==
    \/ StartUp \/ Restart \/ DbChanges
    \/ \E r \in Request : SendChunk(r) \/ Leave(r)

HttpNext ==
    \/ Outside
    \/ \E r \in Request : Admit(r) \/ Succeed(r) \/ Fail(r)

HttpSpec == HttpInit /\ [][HttpNext]_httpVars

----------------------------------------------------------------------------
\* However a body is cut into chunks and whatever length it states, the process
\* holds at most one chunk more than the limit.
BufferIsBounded == \A r \in Request : buffered[r] <= MaxBytes + MaxChunk

\* "A guard, not a wall": a client that stays and sends a valid body within the
\* limit is never refused, in whatever chunks it comes, empty ones included.
GoodRequestsPass ==
    \A r \in Request :
        /\ at[r] = "answered"
        /\ ~gone[r]
        /\ call[r].verdict = "valid" /\ call[r].length # "bad"
        /\ call[r].health \/ call[r].token
        /\ Total(call[r].chunks) <= MaxBytes
        => status[r] \in {200, 500, 503}

\* A handler never runs on a part of a document, nor on one over the limit: what a
\* client that left had sent so far is not taken for a shorter request.
HandledBodiesAreWhole ==
    \A r \in handled :
        HasBody(r) => call[r].document <= buffered[r] /\ buffered[r] <= MaxBytes

\* A body that does not validate is answered 4xx.
InvalidBodiesGet4xx ==
    \A r \in Request :
        call[r].verdict # "valid" /\ call[r].token => status[r] # 500
=============================================================================
