---------------------------- MODULE TurnRequest ----------------------------
(***************************************************************************)
(* POST /turns from its first byte to its answer: the HTTP layer admits    *)
(* the request, its handler runs phase 1 (routes_turns.py, post_turn), and *)
(* the transaction of phase 2, a single step here, stores the turn.  What  *)
(* that transaction does is MemoryService's matter.                        *)
(***************************************************************************)
EXTENDS Http, Extraction

CONSTANTS
    Turn,        \* the request that is POST /turns
    Workloads    \* what the clients send, and what the turn is

ASSUME TurnRequestAssumption ==
    /\ Turn \in Request
    /\ Workloads \subseteq [calls : [Request -> Calls], input : Inputs]

requestVars == <<httpVars, phaseOneVars>>

Handling == at[Turn] = "handling" /\ HasBody(Turn)

----------------------------------------------------------------------------
\* Everything up to the handler, of any request.
AdmitStep(r) == Admit(r) /\ UNCHANGED phaseOneVars

\* Phase 1 runs on the event loop while the handler waits.
PhaseOneStep == Handling /\ PhaseOneNext /\ UNCHANGED httpVars

\* Phase 2: the transaction commits, or raises and is rolled back.
StoreTurn ==
    /\ Handling
    /\ pc = "store"
    /\ Succeed(Turn) \/ Fail(Turn)
    /\ UNCHANGED phaseOneVars

\* What phase 1 lets through ends the request.
PhaseOneRaises ==
    /\ Handling
    /\ pc = "error"
    /\ Fail(Turn)
    /\ UNCHANGED phaseOneVars

\* The handlers of other requests, whole.
OtherHandler(r) ==
    /\ r = Turn => ~HasBody(r)
    /\ Succeed(r) \/ Fail(r)
    /\ UNCHANGED phaseOneVars

OutsideStep == Outside /\ UNCHANGED phaseOneVars

TurnRequestInit ==
    /\ \E wl \in Workloads : call = wl.calls /\ input = wl.input
    /\ HttpInit
    /\ PhaseOneInit

TurnRequestNext ==
    \/ OutsideStep
    \/ \E r \in Request : AdmitStep(r) \/ OtherHandler(r)
    \/ PhaseOneStep \/ StoreTurn \/ PhaseOneRaises

TurnRequestSpec == TurnRequestInit /\ [][TurnRequestNext]_requestVars

\* The event loop runs what can run and timers fire.  Nothing is owed by clients
\* or the database, and a process that exited need not be started again.
TurnStep ==
    AdmitStep(Turn) \/ OtherHandler(Turn) \/ PhaseOneStep \/ StoreTurn \/ PhaseOneRaises

TurnRequestFairSpec == TurnRequestSpec /\ WF_requestVars(TurnStep)

----------------------------------------------------------------------------
\* A client that has sent everything, or has left, is not waited for, and what
\* phase 1 waits for comes to an end: timeouts, the retry and the wait for both
\* calls.  The request is answered, or given up.
EveryTurnIsAnswered ==
    at[Turn] # "connecting" /\ (gone[Turn] \/ sent[Turn] = Len(call[Turn].chunks))
        ~> at[Turn] = "answered"
=============================================================================
