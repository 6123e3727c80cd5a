--------------------------- MODULE MCTurnRequest ---------------------------
\* Calls, texts and answers of the model for the runs of TurnRequest.
EXTENDS TurnRequest

\* Bodies of up to four units, limit three, in up to three chunks.
Bodies == UNION {[1..n -> 0..2] : n \in 1..3}

Sends(method, length, chunks, document, verdict) ==
    [method |-> method, health |-> FALSE, length |-> length, chunks |-> chunks,
     document |-> document, verdict |-> verdict, token |-> TRUE]

\* Every cut of every body, with or without white space at its end.
Posts == {Sends("POST", l, b, d, "valid") : l \in {"none", "bad", "stated"}, b \in Bodies, d \in 1..4}

WrongPosts == {Sends("POST", "none", b, Total(b), v) :
                  b \in {<<1>>, <<1, 1>>}, v \in {"no_json", "invalid", "blank", "untyped"}}

GoodPost == Sends("POST", "stated", <<1>>, 1, "valid")

Plain == Sends("GET", "none", <<0>>, 0, "valid")

OtherCalls == {Plain, [Plain EXCEPT !.health = TRUE, !.token = FALSE],
               [Plain EXCEPT !.method = "DELETE", !.token = FALSE]}

AllCalls == {c \in Posts : c.document <= Total(c.chunks)} \cup WrongPosts \cup OtherCalls

----------------------------------------------------------------------------
Found(predicate, object) == [predicate |-> predicate, object |-> object, usable |-> TRUE]
Stub == [predicate |-> "likes", object |-> "", usable |-> FALSE]

Text(matches) == [matches |-> matches, user |-> FALSE]

Says(role, lines) == [role |-> role, name |-> "none", lines |-> lines]

\* A line with two facts of one predicate, one of them twice, and a stub; a reply
\* of the assistant that names a fact; a second line; a message left blank.
Tea == Text(<<Found("likes", "tea"), Found("likes", "chess"), Stub, Found("likes", "tea")>>)
Work == Text(<<Found("employer", "acme")>>)
Silence == Text(<<>>)

Chat == <<Says("user", <<Tea>>), Says("assistant", <<Work>>), Says("user", <<Work>>)>>

Good == [isObject |-> TRUE, object |-> "text", value |-> "text",
         confidence |-> "absent", entities |-> "absent"]
Items == {Good, [Good EXCEPT !.isObject = FALSE], [Good EXCEPT !.object = "null"],
          [Good EXCEPT !.value = "blank"], [Good EXCEPT !.confidence = "other"],
          [Good EXCEPT !.entities = "scalar"]}

\* Any item alone, and beside a good one.
ItemLists == {<<x>> : x \in Items} \cup {<<Good, x>> : x \in Items} \cup {<<x, Good>> : x \in Items}

Replies == {[kind |-> k, items |-> <<>>] : k \in {"nothing", "no_list", "no_object", "object"}}
           \cup {[kind |-> "object", items |-> s] : s \in ItemLists}

ModelInputs ==
    {[messages |-> Chat, enabled |-> TRUE, reply |-> r] : r \in Replies}

\* Conversations of two or three messages without the model.
Messages ==
    {Says(role, lines) : role \in {"user", "assistant"}, lines \in {<<>>, <<Tea>>, <<Work>>, <<Silence, Work>>}}

\* Two messages may have names.
Named ==
    {[Says(role, lines) EXCEPT !.name = n] :
        role \in {"user", "assistant"}, lines \in {<<>>, <<Tea>>}, n \in {"plain", "paren", "user"}}

\* The schema rejects a turn of blank messages.
Conversations ==
    {s \in [1..2 -> Messages \cup Named] \cup [1..3 -> Messages] : \E i \in DOMAIN s : s[i].lines # <<>>}

ByRules(messages) ==
    [messages |-> messages, enabled |-> FALSE, reply |-> [kind |-> "nothing", items |-> <<>>]]

TextInputs == {ByRules(s) : s \in Conversations}

AllInputs == ModelInputs \cup TextInputs

----------------------------------------------------------------------------
\* A good request with every turn, and every call with one turn.
Workload(c, i) == [calls |-> [r \in Request |-> c], input |-> i]

RequestWorkloads ==
    {Workload(GoodPost, i) : i \in AllInputs} \cup {Workload(c, ByRules(Chat)) : c \in AllCalls}
=============================================================================
