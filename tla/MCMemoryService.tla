-------------------------- MODULE MCMemoryService --------------------------
\* Workloads for the runs of MemoryService.  Each *Jobs set is what the requests
\* of one run choose from.
EXTENDS MemoryService, TLC

CONSTANTS u1, u2, s1, s2, user, employer, hobby, o1, o2, o3, n1, n2

Fact(predicate, object) ==
    [subject |-> user, predicate |-> predicate, object |-> object,
     correction |-> FALSE, quoted |-> {}, entities |-> <<>>]

Correction(predicate, object, quoted) ==
    [Fact(predicate, object) EXCEPT !.correction = TRUE, !.quoted = quoted]

Naming(candidate, entities) == [candidate EXCEPT !.entities = entities]

Post(who, session, candidates) ==
    [op |-> "turn", user |-> who, session |-> session, cands |-> candidates]

DeleteSession(session) ==
    [op |-> "delete_session", user |-> NoUser, session |-> session, cands |-> <<>>]

DeleteUser(who) ==
    [op |-> "delete_user", user |-> who, session |-> s1, cands |-> <<>>]

\* One user, turns only: replacements, coexistence, corrections with and
\* without a quoted target, two candidates for one key in one turn.
IngestJobs ==
    {Post(u1, s1, <<Fact(employer, o1)>>),
     Post(u1, s1, <<Fact(employer, o2), Fact(hobby, o1)>>),
     Post(u1, s1, <<Fact(employer, o3), Fact(employer, o1), Correction(hobby, o3, {o1, o2})>>),
     Post(u1, s1, <<Fact(hobby, o2)>>),
     Post(u1, s1, <<Correction(hobby, o3, {})>>)}

\* Every operation, one at a time: two sessions of one user and an anonymous
\* turn in the first of them.
SerialJobs ==
    {Post(u1, s1, <<Fact(employer, o1)>>),
     Post(u1, s1, <<Fact(employer, o2), Naming(Fact(hobby, o1), <<n1>>)>>),
     Post(u1, s2, <<Fact(employer, o3)>>),
     Post(NoUser, s1, <<Naming(Fact(employer, o1), <<n1>>)>>),
     DeleteSession(s1),
     DeleteSession(s2),
     DeleteUser(u1)}

\* Turns of two users, two sessions and an anonymous one, with entities, a
\* correction and opposite orders of keys, against both deletes.
DeleteJobList ==
    <<Post(u1, s1, <<Naming(Fact(employer, o1), <<n1>>), Fact(hobby, o1)>>),
      Post(u1, s2, <<Naming(Correction(hobby, o3, {o1}), <<n1>>), Fact(employer, o2)>>),
      Post(NoUser, s1, <<Fact(employer, o1), Fact(hobby, o1)>>),
      Post(u2, s2, <<Naming(Fact(hobby, o1), <<n1>>)>>),
      DeleteSession(s1),
      DeleteUser(u1)>>
DeleteJobs == {DeleteJobList[i] : i \in DOMAIN DeleteJobList}

\* Requests are interchangeable: one order of their jobs stands for all, where
\* fairness rules symmetry out.
JobPlace(r) == CHOOSE i \in DOMAIN DeleteJobList : DeleteJobList[i] = job[r]
Ordered == \A r, q \in Request : r < q => JobPlace(r) <= JobPlace(q)
OrderedInit == Init /\ Ordered
OrderedFairSpec == OrderedInit /\ [][Next]_vars /\ \A r \in Request : WF_vars(Progress(r))

\* Hobbies told in different sessions, one of them in both; one is deleted.
HobbyJobs ==
    {Post(u1, s1, <<Fact(hobby, o1)>>),
     Post(u1, s2, <<Fact(hobby, o1), Fact(hobby, o2), Fact(hobby, o3)>>),
     DeleteSession(s1)}

\* One single-valued key told in two sessions, one of which is deleted.
EmployerJobs ==
    {Post(u1, s1, <<Fact(employer, o1)>>),
     Post(u1, s2, <<Fact(employer, o2), Fact(employer, o3)>>),
     DeleteSession(s1)}

NameHash(k) == k

\* Named by runs with few requests; TLC evaluates it in every run.
ByRequest == IF Cardinality(Request) <= 4 THEN Permutations(Request) ELSE {}
=============================================================================
