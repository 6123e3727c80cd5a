------------------------------ MODULE MCRecall ------------------------------
\* Queries and workloads for the runs of Recall.
EXTENDS MCMemoryService, Recall

Ask(op, who, session, profile, named) ==
    [op |-> op, user |-> who, session |-> session, profile |-> profile,
     openEnded |-> profile, names |-> named, runs |-> 1]

\* A fact, its replacement with a hobby beside it, and an anonymous turn of the
\* first one's session that corrects itself, all about one entity.
ReadJobs ==
    {Post(u1, s1, <<Naming(Fact(employer, o1), <<n1>>)>>),
     Post(u1, s2, <<Naming(Fact(employer, o2), <<n1>>), Fact(hobby, o1)>>),
     Post(NoUser, s1, <<Fact(employer, o3), Naming(Fact(employer, o1), <<n1>>)>>),
     DeleteUser(u1)}

ReadQueries == {Ask("recall", u1, s1, TRUE, {n1}),
                Ask("search", NoUser, s1, FALSE, {}),
                Ask("search", NoUser, NoSession, FALSE, {})}

\* A value, its replacement, and a question that may match either.
ReplaceJobs == {Post(u1, s1, <<Fact(employer, o1)>>), Post(u1, s2, <<Fact(employer, o2)>>)}
ReplaceQueries == {Ask("recall", u1, s1, TRUE, {})}

EveryFact(c) == TRUE
=============================================================================
