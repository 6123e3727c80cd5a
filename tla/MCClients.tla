----------------------------- MODULE MCClients -----------------------------
\* Scripts for the runs of Clients.
EXTENDS MCMemoryService, Clients

CONSTANT a

\* What a client says: a value replaced and told again, facts that coexist, one
\* of them corrected, and two scopes deleted that speak again.
Replaced1 == Post(u1, s1, <<Naming(Fact(employer, o1), <<n1>>)>>)
Replaced2 == Post(u1, s1, <<Fact(employer, o2)>>)
Hobbies == Post(u1, s2, <<Naming(Fact(hobby, o1), <<n1>>)>>)
Corrected == Post(u1, s2, <<Correction(hobby, o3, {o1})>>)
Mine == Post(u1, s1, <<Fact(employer, o1), Naming(Fact(hobby, o1), <<n1>>)>>)
Anonymous == Post(NoUser, s2, <<Naming(Fact(hobby, o1), <<n1>>)>>)

ClientJobs == {Replaced1, Replaced2, Hobbies, Corrected, Mine, Anonymous,
               DeleteUser(u1), DeleteSession(s2)}

\* One client with three messages.
Monologues ==
    [{a} -> {<<Replaced1, Replaced2, Replaced1>>,
             <<Hobbies, Corrected, Hobbies>>,
             <<Mine, DeleteUser(u1), Replaced2>>,
             <<Mine, DeleteUser(u1), Mine>>,
             <<Mine, Corrected, DeleteUser(u1)>>,
             <<Anonymous, DeleteSession(s2), Anonymous>>}]
TwoTries == [c \in {a} |-> 2]
MonologueAttempts == {a} \X (1..3) \X (1..2)

ASSUME ScriptsKeepApart == StatesOnce /\ NoSharedKeys /\ AnonymousSessions
=============================================================================
