----------------------------- MODULE Extraction -----------------------------
(***************************************************************************)
(* Phase 1 of POST /turns: what happens before the transaction.  The turn  *)
(* is embedded and its candidates are extracted in parallel, then the      *)
(* candidates are embedded in one batch.  Every call over the network has  *)
(* a deadline; whatever goes wrong, the turn should reach phase 2 with     *)
(* what the regular expressions find, and no later than its caller waits.  *)
(* Time is in seconds; a pause of a fraction counts as one.                *)
(***************************************************************************)
EXTENDS Naturals, Sequences, FiniteSets, SequencesExt

CONSTANTS
    Inputs,              \* turns, and what the language model makes of them
    EmbedTimeout,        \* wait_for of one embed attempt
    RetryPause,          \* wait between the attempts
    ExtractionTimeout,   \* Settings.extraction_timeout_s
    BatchTimeout,        \* wait_for of embed_batch
    Patience,            \* how long the caller waits for an answer
    Horizon              \* bound of the clock

\* Messages.  A line of text holds matches of the patterns, in the order of the
\* patterns; "user" tells a line that itself begins with "user:".
Match == [predicate : STRING, object : STRING,
          usable : BOOLEAN]          \* neither empty nor too long once trimmed
Line == [matches : Seq(Match), user : BOOLEAN]

\* A message may bear a name, and a name may hold what the patterns look for: a
\* closing parenthesis, or a line that begins with "user:".
Message == [role : {"user", "assistant", "tool", "system"},
            name : {"none", "plain", "paren", "user"}, lines : Seq(Line)]

\* What an item of the model's JSON has under a key.
Field == {"text", "blank", "null", "absent"}
Item == [isObject : BOOLEAN, object : Field, value : Field,
         confidence : {"number", "absent", "other"},
         entities : {"list", "absent", "scalar"}]

\* The answer of the language model: nothing at all (an error, an empty text, no
\* JSON, an empty object), an object with its "memories", an object whose
\* "memories" is no list, or JSON that is no object.
Reply == [kind : {"nothing", "object", "no_list", "no_object"}, items : Seq(Item)]

Input == [messages : Seq(Message), enabled : BOOLEAN, reply : Reply]

ASSUME ExtractionAssumption ==
    /\ Inputs \subseteq Input
    /\ {EmbedTimeout, RetryPause, ExtractionTimeout, BatchTimeout, Patience, Horizon} \subseteq Nat

\* The settings: no way through phase 1 is longer than the caller waits.
ASSUME DeadlinesFit ==
    /\ 2 * EmbedTimeout + RetryPause + BatchTimeout <= Patience
    /\ ExtractionTimeout + BatchTimeout <= Patience

VARIABLES
    input,
    now,       \* seconds since the request came
    pc,        \* gather, batch, store or error
    task,      \* where each network call stands
    due,       \* when its timer fires
    cands,     \* the candidates
    vecs       \* for each of them, whether it has an embedding

phaseOneVars == <<input, now, pc, task, due, cands, vecs>>

----------------------------------------------------------------------------
\* What _USER_LINE makes of the prefix "role(name):".  Its [^)]* stops at the first
\* parenthesis, where it needs a colon; and of another's name it takes a line that
\* begins with "user:" for the user's.
Heading(m) ==
    CASE m.role = "user" -> IF m.name = "paren" THEN "garbled" ELSE "user"
      [] OTHER -> IF m.name = "user" THEN "user" ELSE m.role

\* flatten_messages: the lines of all messages; only the first of a message is
\* prefixed with its role and name, and a blank message is a line with nothing but
\* that.
FlatLine(role, line) == [role |-> role, line |-> line, empty |-> FALSE]

Flattened(m) ==
    IF m.lines = <<>>
    THEN <<[role |-> Heading(m), line |-> [matches |-> <<>>, user |-> FALSE],
            empty |-> Heading(m) = m.role]>>
    ELSE [i \in DOMAIN m.lines |-> FlatLine(IF i = 1 THEN Heading(m) ELSE "none", m.lines[i])]

FlattenMessages(messages) == FlattenSeq([i \in DOMAIN messages |-> Flattened(messages[i])])

UserLine(l) == l.role = "user" \/ (l.role = "none" /\ l.line.user)

\* The lines _USER_LINE matches.  After an empty "user:" its \s* runs over the
\* line break, so the next line is taken for the user's.
IterUserLines(flat) ==
    LET from[i \in 1..Len(flat) + 2] ==
            IF i > Len(flat) THEN <<>>
            ELSE IF flat[i].empty /\ flat[i].role = "user" /\ i < Len(flat)
                 THEN <<flat[i + 1]>> \o from[i + 2]
                 ELSE (IF UserLine(flat[i]) THEN <<flat[i]>> ELSE <<>>) \o from[i + 1]
    IN  from[1]

Rule(m) == [by |-> "rules", predicate |-> m.predicate, object |-> m.object]

NotYetFound(cs, m) == \A i \in DOMAIN cs : cs[i] # Rule(m)

\* The usable matches, each once.
Collected(matches) ==
    LET out[n \in 0..Len(matches)] ==
            IF n = 0 THEN <<>>
            ELSE IF matches[n].usable /\ NotYetFound(out[n - 1], matches[n])
                 THEN Append(out[n - 1], Rule(matches[n])) ELSE out[n - 1]
    IN  out[Len(matches)]

\* extract_via_rules: what the patterns find in the user's lines.
ExtractViaRules(messages) ==
    LET lines == IterUserLines(FlattenMessages(messages))
    IN  Collected(FlattenSeq([i \in DOMAIN lines |-> lines[i].line.matches]))

\* What the rules find depends on nothing but the turn.
FoundByRules == [i \in Inputs |-> ExtractViaRules(i.messages)]

\* extract_via_llm: the items it keeps.  str() of a JSON null is "None", which is
\* not blank; a confidence or entities of the wrong type drop the item.
Kept(item) ==
    /\ item.isObject
    /\ item.object \in {"text", "null"}
    /\ item.value \in {"text", "null"}
    /\ item.confidence # "other"
    /\ item.entities # "scalar"

ByModel(item) == [by |-> "model", object |-> item.object, value |-> item.value]

ExtractViaLlm(reply) ==
    LET kept == SelectSeq(reply.items, Kept)
    IN  IF reply.kind = "object" THEN [i \in DOMAIN kept |-> ByModel(kept[i])] ELSE <<>>

\* Mutation: an answer without usable items counts as an answer.
ExtractWithoutFallback(reply) ==
    IF ~input.enabled \/ reply.kind = "nothing" THEN FoundByRules[input] ELSE ExtractViaLlm(reply)

\* ExtractionService.extract, once the model has answered if there is one.
Extract(reply) ==
    IF input.enabled /\ ExtractViaLlm(reply) # <<>> THEN ExtractViaLlm(reply) ELSE FoundByRules[input]

----------------------------------------------------------------------------
NetworkCalls == {"embed", "extract", "batch"}
Pending(c) == task[c] \in {"first", "pause", "second"}

Start(c, how, timeout) ==
    /\ task' = [task EXCEPT ![c] = how]
    /\ due' = [due EXCEPT ![c] = now + timeout]

Over(c) == task' = [task EXCEPT ![c] = "over"] /\ UNCHANGED due

PhaseOneInit ==
    /\ input \in Inputs
    /\ now = 0
    /\ pc = "gather"
    /\ task = [c \in NetworkCalls |-> IF c = "extract" \/ (c = "embed" /\ input.enabled) THEN "first" ELSE "over"]
    /\ due = [c \in NetworkCalls |-> IF c = "embed" THEN EmbedTimeout ELSE ExtractionTimeout]
    /\ cands = <<>>
    /\ vecs = <<>>

\* An embedding, or an error that is not retried: the vector is left out.
EmbedAnswers ==
    /\ task["embed"] \in {"first", "second"}
    /\ Over("embed")
    /\ UNCHANGED <<input, now, pc, cands, vecs>>

\* A timeout, or a connection lost before it: tried once more.
EmbedTimesOut ==
    /\ task["embed"] \in {"first", "second"}
    /\ IF task["embed"] = "first" THEN Start("embed", "pause", RetryPause) ELSE Over("embed")
    /\ UNCHANGED <<input, now, pc, cands, vecs>>

EmbedRetries ==
    /\ task["embed"] = "pause"
    /\ now = due["embed"]
    /\ Start("embed", "second", EmbedTimeout)
    /\ UNCHANGED <<input, now, pc, cands, vecs>>

\* The model, if there is one, answers.  JSON that is no object has no get(): the
\* exception ends the request with a 500.
ExtractAnswers ==
    /\ pc = "gather"
    /\ task["extract"] = "first"
    /\ IF input.enabled /\ input.reply.kind = "no_object"
       THEN pc' = "error" /\ UNCHANGED cands
       ELSE cands' = Extract(input.reply) /\ UNCHANGED pc
    /\ Over("extract")
    /\ UNCHANGED <<input, now, vecs>>

ExtractTimesOut ==
    /\ task["extract"] = "first"
    /\ now = due["extract"]
    /\ cands' = FoundByRules[input]
    /\ Over("extract")
    /\ UNCHANGED <<input, now, pc, vecs>>

BothOver == pc = "gather" /\ task["embed"] = "over" /\ task["extract"] = "over"

\* gather() returns when both are over; then the batch, if there is any.
Gathered ==
    /\ BothOver
    /\ IF input.enabled /\ cands # <<>>
       THEN /\ pc' = "batch"
            /\ Start("batch", "first", BatchTimeout)
            /\ UNCHANGED vecs
       ELSE /\ pc' = "store"
            /\ vecs' = [i \in DOMAIN cands |-> FALSE]
            /\ UNCHANGED <<task, due>>
    /\ UNCHANGED <<input, now, cands>>

\* Mutation: a failed batch has no elements.
VectorsOrNone(ok) == IF ok THEN [i \in DOMAIN cands |-> TRUE] ELSE <<>>

\* embed_batch: a vector for each text, or, if the call fails, times out or
\* returns another number of vectors, None for each.
Vectors(ok) == [i \in DOMAIN cands |-> ok]

BatchEnds ==
    /\ pc = "batch"
    /\ \E ok \in BOOLEAN : vecs' = Vectors(ok)
    /\ Over("batch")
    /\ pc' = "store"
    /\ UNCHANGED <<input, now, cands>>

\* Mutation: nobody looks at the timer of the extraction.
DeadlinePatient(c) == c # "extract" /\ Pending(c)

Deadline(c) == Pending(c)

OnlyRules == ~input.enabled /\ task["extract"] = "first"

\* A second passes: no timer is overdue and no coroutine has anything to do.
Tick ==
    /\ pc \in {"gather", "batch"}
    /\ ~BothOver
    /\ ~OnlyRules
    /\ now < Horizon
    /\ \A c \in NetworkCalls : Deadline(c) => now < due[c]
    /\ now' = now + 1
    /\ UNCHANGED <<input, pc, task, due, cands, vecs>>

PhaseOneNext ==
    \/ EmbedAnswers
    \/ EmbedTimesOut
    \/ EmbedRetries
    \/ ExtractAnswers
    \/ ExtractTimesOut
    \/ Gathered
    \/ BatchEnds
    \/ Tick

PhaseOneSpec == PhaseOneInit /\ [][PhaseOneNext]_phaseOneVars

----------------------------------------------------------------------------
\* No way through the calls, their timeouts and the retry is longer than the
\* caller's patience: the comment on extraction_timeout_s promises 60 seconds
\* however slow the network is.
PhaseOneInTime == now <= Patience

\* The loop of phase 2 zips candidates with vectors, strictly: a batch that
\* failed or fell short must not make them differ in number.
VectorsPairUp == pc = "store" => DOMAIN vecs = DOMAIN cands

Extracted == pc \in {"batch", "store"}
Spoken(m) == m.role = "user" /\ m.lines # <<>>
Legible(m) == m.name # "paren"
MatchesOf(line) == {line.matches[i] : i \in DOMAIN line.matches}
Usable(line) == {m \in MatchesOf(line) : m.usable}
Times(m) == Cardinality({i \in DOMAIN cands : cands[i] = Rule(m)})

\* Where the model gave no candidate, in whichever way, the rules did: one for
\* each fact in the first line of each of the user's messages, unless its name has a
\* closing parenthesis.
RulesCatchTheRest ==
    Extracted /\ (\A i \in DOMAIN cands : cands[i].by # "model") =>
        \A p \in DOMAIN input.messages : Spoken(input.messages[p]) /\ Legible(input.messages[p]) =>
            \A m \in Usable(input.messages[p].lines[1]) : Times(m) = 1

----------------------------------------------------------------------------
\* What comments and documents say and the code does not keep; no run checks it.

\* Every line of the user's is read, not only the first of each message, and
\* whatever the message's name is.
EveryUserLineIsRead ==
    Extracted /\ ~input.enabled =>
        \A p \in DOMAIN input.messages : Spoken(input.messages[p]) =>
            \A i \in DOMAIN input.messages[p].lines :
                \A m \in Usable(input.messages[p].lines[i]) : Times(m) = 1

\* What the rules find was said by the user.
OnlyTheUserIsQuoted ==
    \A i \in DOMAIN cands : cands[i].by = "rules" =>
        \E p \in DOMAIN input.messages :
            /\ input.messages[p].role = "user"
            /\ \E k \in DOMAIN input.messages[p].lines :
                  \E m \in Usable(input.messages[p].lines[k]) : cands[i] = Rule(m)

\* What the model leaves out is not made up: an item without its object or value
\* is no candidate.
CandidatesAreComplete ==
    \A i \in DOMAIN cands : cands[i].by = "model" =>
        cands[i].object = "text" /\ cands[i].value = "text"

\* Whatever the network, the model and the text are like, the turn reaches
\* phase 2.
PhaseOneNeverFails == pc # "error"
=============================================================================
