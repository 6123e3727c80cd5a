---------------------------- MODULE Answer_proofs ----------------------------
(***************************************************************************)
(* The second half of a recall.  Whatever is ranked and whatever budget    *)
(* the caller sets, the context of Assembler stays within max_tokens; what *)
(* Fusion computes is what its formula says; and together, nothing worse   *)
(* is told where something better is not.                                  *)
(***************************************************************************)
EXTENDS Answer, Induction

\* A token charged for a line break pays for it, and for all a count that rounds down
\* leaves out.
LEMMA CountCovers ==
    ASSUME NEW n \in Nat, encoded \in BOOLEAN
    PROVE  /\ ApproxTokenCount(n) \in Nat
           /\ n + 1 <= PerToken * (ApproxTokenCount(n) + 1)
BY DEF ApproxTokenCount, PerToken

\* A formatted line has a size, so it costs at least one token and covers itself
\* and a line break.
LEMMA CostCovers ==
    ASSUME NEW t \in 1..3, NEW x \in Item, encoded \in BOOLEAN
    PROVE  /\ LineSize(t, x) \in Nat
           /\ Cost(t, x) \in Nat \ {0}
           /\ LineSize(t, x) + 1 <= PerToken * Cost(t, x)
<1>1. LineSize(t, x) \in Nat
  BY DEF LineSize, LineTokens, LineLen, Item, Tokens, Smaller, DatePrefix, SnippetTokens
<1> QED
  BY <1>1, CountCovers DEF Cost

\* The same for the header of a section.
LEMMA HeaderCovers ==
    ASSUME NEW t \in 1..3, encoded \in BOOLEAN
    PROVE  /\ HeaderSize(t) \in Nat
           /\ HeaderCost(t) \in Nat \ {0}
           /\ HeaderSize(t) + 1 <= PerToken * HeaderCost(t)
<1>1. HeaderSize(t) \in Nat
  BY DEF HeaderSize, HeaderLen, HeaderTokens
<1> QED
  BY <1>1, CountCovers DEF HeaderCost

\* No cap lies above the budget, even when all of it is spent.
LEMMA CapBounded ==
    ASSUME budget \in Nat, NEW t \in 1..4, NEW spent \in Nat, spent <= budget
    PROVE  CapOf(t, spent) \in Nat /\ CapOf(t, spent) <= budget
<1>1. Share(t, spent) \in Nat
  BY DEF Share
<1> QED
  BY <1>1 DEF CapOf, Smaller

\* What a citation adds are ids.
LEMMA CitationType ==
    ASSUME NEW t \in 1..3, NEW x \in Item
    PROVE  Citation(t, x) \in Seq(Id)
BY DEF Citation, Item

LEMMA InitLedger == Init => Ledger
<1> SUFFICES ASSUME Init PROVE Ledger
  OBVIOUS
<1>1. arguments \in Arguments
  BY AssemblerAssumption DEF Init, Gates, arguments, Arguments, DecideGate, GateState
<1>2. cap \in Nat /\ cap <= budget
  BY <1>1, CapBounded DEF Init, Empty, arguments, Arguments
<1> QED
  BY <1>1, <1>2 DEF Init, Empty, Ledger, arguments, Arguments

\* The line under way is an item of the tier's ranking.
LEMMA LineType ==
    ASSUME Ledger, Pending
    PROVE  tier \in 1..3 /\ Line \in Item
BY DEF Ledger, Pending, Line, arguments, Arguments

\* A text no longer than one that is paid for is paid for.
LEMMA SmallerFits ==
    ASSUME NEW s \in Nat, NEW j \in Nat, NEW z \in Nat, NEW u \in Nat, NEW k \in {1, 4},
           z <= s + j, s + j + 2 <= k * u
    PROVE  z + 2 <= k * u
<1>1. CASE k = 1
  BY <1>1
<1>2. CASE k = 4
  BY <1>2
<1> QED
  BY <1>1, <1>2

LEMMA StepLedger == Ledger /\ [Next]_vars => Ledger'
<1> SUFFICES ASSUME Ledger, [Next]_vars PROVE Ledger'
  OBVIOUS
<1>1. CASE Skip
  BY <1>1 DEF Skip, Ledger, PerToken, arguments, Arguments
<1>2. CASE AddLine
  <2> DEFINE cost == Cost(tier, Line)
             len == LineSize(tier, Line)
             join == Joined(Line)
  <2>1. tier \in 1..3 /\ Line \in Item
    BY <1>2, LineType DEF AddLine
  <2>2. /\ used \in Nat /\ local \in Nat /\ size \in Nat /\ cap \in Nat /\ budget \in Nat
        /\ encoded \in BOOLEAN
        /\ cap <= budget
        /\ used = 0 => size = 0 /\ shown[tier] = <<>>
        /\ used # 0 => size + 2 <= PerToken * used
    BY <2>1 DEF Ledger, arguments, Arguments
  <2>3. cost \in Nat /\ cost # 0 /\ len \in Nat /\ len + 1 <= PerToken * cost
    BY <2>1, <2>2, CostCovers
  <2>4. PerToken \in {1, 4}
    BY DEF PerToken
  <2>5. Overhead \in Nat /\ join \in Nat /\ size + join + 2 <= PerToken * (used + Overhead + cost)
    <3>1. CASE shown[tier] = <<>>
      <4> DEFINE header == HeaderSize(tier)
      <4>1. header \in Nat /\ Overhead \in Nat /\ header + 1 <= PerToken * Overhead
        BY <2>1, <2>2, <3>1, HeaderCovers DEF Overhead
      <4>2. join = header + (IF size = 0 THEN 0 ELSE 2) + len
        BY <3>1 DEF Joined
      <4> HIDE DEF cost, len, join, header
      <4> QED
        BY <2>2, <2>3, <2>4, <4>1, <4>2
    <3>2. CASE shown[tier] # <<>>
      <4>1. used # 0 /\ Overhead = 0 /\ join = 1 + len
        BY <2>2, <3>2 DEF Overhead, Joined, len, join
      <4> HIDE DEF cost, len, join
      <4> QED
        BY <2>2, <2>3, <2>4, <4>1
    <3> QED
      BY <3>1, <3>2
  <2>6. /\ used' = used + Overhead + cost
        /\ local' = local + cost
        /\ size' \in SizesUpTo(size + join)
        /\ used + Overhead + cost + (IF tier = 1 THEN 0 ELSE local) <= cap
    BY <1>2 DEF AddLine, Charge
  <2>7. size' \in Nat /\ size' <= size + join
    <3> HIDE DEF join
    <3> QED
      BY <2>2, <2>5, <2>6, AssemblerAssumption DEF SizesUpTo
  <2>8. /\ used' \in Nat /\ used' # 0 /\ used' <= budget
        /\ local' \in Nat
        /\ size' + 2 <= PerToken * used'
    <3> HIDE DEF cost, len, join
    <3> DEFINE more == IF tier = 1 THEN 0 ELSE local
    <3>0. more \in Nat
      BY <2>2
    <3>a. used + Overhead + cost + more <= cap
      BY <2>6
    <3> HIDE DEF more
    <3>b. used + Overhead + cost \in Nat /\ used + Overhead + cost # 0
      BY <2>2, <2>3, <2>5
    <3>c. used + Overhead + cost <= budget
      BY <2>2, <2>3, <2>5, <3>0, <3>a
    <3>d. local + cost \in Nat
      BY <2>2, <2>3
    <3>1. used' \in Nat /\ used' # 0 /\ used' <= budget /\ local' \in Nat
      BY <2>6, <3>b, <3>c, <3>d
    <3>2. used' = used + Overhead + cost
      BY <2>6
    <3>3. size' + 2 <= PerToken * used'
      <4>1. size \in Nat /\ join \in Nat /\ size' \in Nat /\ used' \in Nat
        BY <2>2, <2>5, <2>7, <3>1
      <4>2. size' <= size + join /\ size + join + 2 <= PerToken * used'
        BY <2>5, <2>7, <3>2
      <4> QED
        BY <2>4, <4>1, <4>2, SmallerFits
    <3> QED
      BY <2>7, <3>1, <3>3
  <2>9. shown' \in [1..3 -> Seq(Item)]
    <3>1. shown \in [1..3 -> Seq(Item)] /\ Append(shown[tier], Line) \in Seq(Item)
      BY <2>1 DEF Ledger
    <3>2. shown' = [shown EXCEPT ![tier] = Append(shown[tier], Line)]
      BY <1>2 DEF AddLine
    <3> QED
      BY <2>1, <3>1, <3>2
  <2>10. citations' \in Seq(Id)
    <3>1. citations \in Seq(Id) /\ Citation(tier, Line) \in Seq(Id)
      BY <2>1, CitationType DEF Ledger
    <3>2. citations' = citations \o Citation(tier, Line)
      BY <1>2 DEF AddLine
    <3> QED
      BY <3>1, <3>2
  <2>11. UNCHANGED <<arguments, tier, cap>> /\ next' \in Nat \ {0}
    BY <1>2 DEF AddLine, Ledger, arguments, Arguments
  <2> QED
    BY <2>2, <2>4, <2>7, <2>8, <2>9, <2>10, <2>11 DEF Ledger, PerToken, arguments, Arguments
<1>3. CASE LeaveTier
  <2>1. tier \in 1..3 /\ tier + 1 \in 1..4 /\ budget \in Nat /\ used \in Nat /\ used <= budget
    BY <1>3 DEF LeaveTier, Ledger, arguments, Arguments
  <2>2. cap' \in Nat /\ cap' <= budget
    BY <1>3, <2>1, CapBounded DEF LeaveTier
  <2> QED
    BY <1>3, <2>1, <2>2 DEF LeaveTier, Ledger, PerToken, arguments, Arguments
<1>4. CASE UNCHANGED vars
  BY <1>4 DEF vars, text, Ledger, PerToken, arguments, Arguments
<1> QED
  BY <1>1, <1>2, <1>3, <1>4 DEF Next

\* The ledger covers the text, so the text is within the budget: a token charged
\* pays for a token, or for four characters.
LEMMA LedgerBounds == Ledger => WithinBudget
BY DEF Ledger, WithinBudget, ApproxTokenCount, PerToken, arguments, Arguments

\* The ledger holds throughout: for any ranked lists, budgets and lines, used
\* covers the text built so far and never exceeds max_tokens.
THEOREM LedgerHolds == Spec => []Ledger
BY InitLedger, StepLedger, PTL DEF Spec

\* assemble never returns more than max_tokens, as approx_token_count counts the
\* whole text: with any encoder that makes no more tokens of the joined text than of its
\* parts and the characters between them, and without one.
THEOREM ContextFits == Spec => []WithinBudget
BY LedgerHolds, LedgerBounds, PTL

----------------------------------------------------------------------------
\* Every fact shown comes from the list memories are compared with, and no memory
\* shown has a value of that list.
Told(x) == \E k \in DOMAIN ranked[1] : ranked[1][k].value = x.value

Apart ==
    /\ \A i \in DOMAIN shown[1] : gate.tier1 /\ Told(shown[1][i])
    /\ \A j \in DOMAIN shown[2] : gate.tier1 => ~Told(shown[2][j])

LEMMA InitApart == Init => Apart
BY DEF Init, Empty, Apart

LEMMA StepApart == Ledger /\ Apart /\ [Next]_vars => Apart'
<1> SUFFICES ASSUME Ledger, Apart, [Next]_vars PROVE Apart'
  OBVIOUS
<1>1. CASE UNCHANGED <<arguments, shown>>
  BY <1>1 DEF Apart, Told, arguments
<1>2. CASE AddLine
  <2>1. tier \in 1..3 /\ Line \in Item /\ ~Known(Line) /\ TierOpen(tier)
    BY <1>2, LineType DEF AddLine, Pending
  <2>2. shown \in [1..3 -> Seq(Item)] /\ UNCHANGED <<ranked, gate>>
    BY <1>2 DEF AddLine, Ledger, arguments, Arguments
  <2>3. shown' = [shown EXCEPT ![tier] = Append(shown[tier], Line)]
    BY <1>2 DEF AddLine
  <2>4. ASSUME tier = 1 PROVE gate.tier1 /\ Told(Line)
    <3>1. ranked[1] \in Seq(Item) /\ next \in Nat \ {0}
      BY DEF Ledger, arguments, Arguments
    <3>2. gate.tier1 /\ next <= Len(ranked[1]) /\ Line = ranked[1][next]
      BY <1>2, <2>4 DEF AddLine, Pending, TierOpen, Line
    <3>3. next \in DOMAIN ranked[1]
      BY <3>1, <3>2
    <3> QED
      BY <3>2, <3>3 DEF Told
  <2>5. tier = 2 => (gate.tier1 => ~Told(Line))
    BY <2>1 DEF Known, Told
  <2>6. ASSUME NEW i \in DOMAIN shown'[1] PROVE gate.tier1 /\ Told(shown'[1][i])
    <3>1. CASE tier = 1
      BY <2>2, <2>3, <2>4, <3>1 DEF Apart
    <3>2. CASE tier # 1
      BY <2>1, <2>2, <2>3, <3>2 DEF Apart
    <3> QED
      BY <3>1, <3>2
  <2>7. ASSUME NEW j \in DOMAIN shown'[2], gate.tier1 PROVE ~Told(shown'[2][j])
    <3>1. CASE tier = 2
      BY <2>2, <2>3, <2>5, <2>7, <3>1 DEF Apart
    <3>2. CASE tier # 2
      BY <2>1, <2>2, <2>3, <2>7, <3>2 DEF Apart
    <3> QED
      BY <3>1, <3>2
  <2> QED
    BY <2>2, <2>6, <2>7 DEF Apart, Told
<1> QED
  BY <1>1, <1>2 DEF Next, Skip, LeaveTier, vars, text, arguments

\* For any lists, gate and budget: what is told as a known fact is not told again
\* as a relevant memory.
THEOREM NothingToldTwice == Spec => []NoValueTwice
<1>1. Apart => NoValueTwice
  BY DEF Apart, Told, NoValueTwice
<1> QED
  BY <1>1, InitApart, StepApart, LedgerHolds, PTL DEF Spec

----------------------------------------------------------------------------
\* Shares of the budget, and citations.

\* What a line adds to the lines shown.
Added(t, x) == shown' = [shown EXCEPT ![t] = Append(shown[t], x)]

LEMMA SomethingAdded ==
    ASSUME NEW S, NEW q \in Seq(S), NEW x \in S
    PROVE  Append(q, x) # <<>>
<1>1. Len(Append(q, x)) = Len(q) + 1 /\ Len(q) \in Nat
  OBVIOUS
<1> QED
  BY <1>1

\* What a line costs depends on how tokens are counted, which is settled once.
LEMMA CostsStay ==
    ASSUME encoded' = encoded
    PROVE  /\ \A t : HeaderCost(t)' = HeaderCost(t)
           /\ \A t, x : Cost(t, x)' = Cost(t, x)
BY DEF HeaderCost, Cost, ApproxTokenCount, HeaderSize, LineSize

\* The same for a section whose lines stay.
LEMMA SectionStays ==
    ASSUME encoded' = encoded, NEW t, shown'[t] = shown[t]
    PROVE  SectionTokens(t)' = SectionTokens(t)
<1>1. [i \in DOMAIN shown[t] |-> Cost(t, shown[t][i])]'
         = [i \in DOMAIN shown[t] |-> Cost(t, shown[t][i])]
  BY CostsStay
<1> QED
  BY <1>1, CostsStay DEF SectionTokens

\* The tokens of a section are those of its header and its lines: one more line adds
\* its cost, and the first one that of the header.
LEMMA SectionGrows ==
    ASSUME encoded \in BOOLEAN, encoded' = encoded, shown \in [1..3 -> Seq(Item)],
           NEW t \in 1..3, NEW x \in Item, Added(t, x)
    PROVE  /\ SectionTokens(t)' = SectionTokens(t) + (IF shown[t] = <<>> THEN HeaderCost(t) ELSE 0)
                                                   + Cost(t, x)
           /\ \A u \in (1..3) \ {t} : SectionTokens(u)' = SectionTokens(u)
<1> DEFINE lines == shown[t]
           costs == [i \in DOMAIN lines |-> Cost(t, lines[i])]
           more == [i \in DOMAIN shown'[t] |-> Cost(t, shown'[t][i])]
<1>1. lines \in Seq(Item) /\ shown'[t] = Append(lines, x) /\ shown'[t] # <<>>
  <2>1. lines \in Seq(Item) /\ shown'[t] = Append(lines, x)
    BY DEF Added
  <2>2. Append(lines, x) # <<>>
    BY <2>1, SomethingAdded
  <2> HIDE DEF lines
  <2> QED
    BY <2>1, <2>2
<1>2. Cost(t, x) \in Nat /\ HeaderCost(t) \in Nat /\ \A i \in DOMAIN lines : Cost(t, lines[i]) \in Nat
  <2>1. \A y \in Item : Cost(t, y) \in Nat
    BY CostCovers
  <2>2. \A i \in DOMAIN lines : lines[i] \in Item
    BY <1>1
  <2> QED
    BY <2>1, <2>2, HeaderCovers
<1>3. costs \in Seq(Nat)
  <2> DEFINE cost(i) == Cost(t, lines[i])
  <2>1. DOMAIN lines = 1..Len(lines) /\ Len(lines) \in Nat /\ \A i \in 1..Len(lines) : cost(i) \in Nat
    BY <1>1, <1>2
  <2> HIDE DEF cost
  <2>2. [i \in 1..Len(lines) |-> cost(i)] \in Seq(Nat)
    BY <2>1
  <2> QED
    BY <2>1, <2>2 DEF cost
<1>4. more = Append(costs, Cost(t, x))
  BY <1>1, <1>3
<1>5. /\ SumFunction(costs) \in Nat
      /\ SumFunction(more) = SumFunction(costs) + Cost(t, x)
  <2> HIDE DEF costs, more
  <2> QED
    BY <1>2, <1>3, <1>4, SumAppends
<1>6. lines = <<>> => SumFunction(costs) = 0
  <2> SUFFICES ASSUME lines = <<>> PROVE SumFunction(costs) = 0
    OBVIOUS
  <2>1. costs = <<>>
    OBVIOUS
  <2> QED
    BY <2>1, SumOfNothing
<1>7. /\ SectionTokens(t) = IF lines = <<>> THEN 0 ELSE HeaderCost(t) + SumFunction(costs)
      /\ SectionTokens(t)' = HeaderCost(t) + SumFunction(more)
  <2>1. more = [i \in DOMAIN shown[t] |-> Cost(t, shown[t][i])]'
    BY CostsStay
  <2>2. SectionTokens(t)' = HeaderCost(t)' + SumFunction(more)
    BY <1>1, <2>1 DEF SectionTokens
  <2> QED
    BY <1>1, <2>2, CostsStay DEF SectionTokens
<1>8. \A u \in (1..3) \ {t} : shown'[u] = shown[u]
  BY DEF Added
<1>9. \A u \in (1..3) \ {t} : SectionTokens(u)' = SectionTokens(u)
  BY <1>8, SectionStays
<1> HIDE DEF costs, more, lines
<1>10. SectionTokens(t)' = SectionTokens(t) + (IF lines = <<>> THEN HeaderCost(t) ELSE 0) + Cost(t, x)
  BY <1>2, <1>5, <1>6, <1>7
<1> QED
  BY <1>9, <1>10 DEF lines

\* Sections are filled one after the other, and the cap of the first two leaves each
\* of them its 40%.
Shares ==
    /\ TierShares
    /\ \A t \in 1..3 : SectionTokens(t) \in Nat
    /\ \A t \in 1..3 : t > tier => shown[t] = <<>>
    /\ tier = 1 => cap <= (2 * budget) \div 5
    /\ tier = 2 => cap <= SectionTokens(1) + (2 * budget) \div 5

LEMMA InitShares == Init => Shares
<1> SUFFICES ASSUME Init PROVE Shares
  OBVIOUS
<1>1. budget \in Nat
  BY AssemblerAssumption DEF Init
<1>2. \A t \in 1..3 : SectionTokens(t) = 0 /\ shown[t] = <<>>
  BY DEF Init, Empty, SectionTokens
<1>3. tier = 1 /\ cap <= (2 * budget) \div 5 /\ used = 0
  BY <1>1 DEF Init, Empty, CapOf, Share, Smaller
<1> QED
  BY <1>1, <1>2, <1>3 DEF Shares, TierShares

LEMMA StepShares == Ledger /\ Shares /\ [Next]_vars => Shares'
<1> SUFFICES ASSUME Ledger, Shares, [Next]_vars PROVE Shares'
  OBVIOUS
<1>1. /\ budget \in Nat /\ tier \in 1..4 /\ shown \in [1..3 -> Seq(Item)]
      /\ used \in Nat /\ local \in Nat /\ cap \in Nat /\ encoded \in BOOLEAN
  BY DEF Ledger, arguments, Arguments
<1>2. CASE UNCHANGED <<budget, encoded, tier, used, cap, shown>>
  <2>1. \A t \in 1..3 : SectionTokens(t)' = SectionTokens(t)
    BY <1>2, SectionStays
  <2> QED
    BY <1>2, <2>1 DEF Shares, TierShares
<1>3. CASE AddLine
  <2>1. tier \in 1..3 /\ Line \in Item
    BY <1>3, LineType DEF AddLine
  <2>2. PICK t \in 1..3, x \in Item : t = tier /\ x = Line
    BY <2>1
  <2> DEFINE header == IF shown[t] = <<>> THEN HeaderCost(t) ELSE 0
             line == Cost(t, x)
  <2>3. header \in Nat /\ line \in Nat
    BY <1>1, CostCovers, HeaderCovers
  <2>4. /\ Added(t, x) /\ UNCHANGED <<budget, encoded, tier, cap>>
        /\ used' = used + header + line
        /\ used + header + line + (IF tier = 1 THEN 0 ELSE local) <= cap
    BY <1>3, <2>2 DEF AddLine, Added, arguments, Charge, Overhead
  <2>5. /\ SectionTokens(t)' = SectionTokens(t) + header + line
        /\ \A u \in (1..3) \ {t} : SectionTokens(u)' = SectionTokens(u)
    BY <1>1, <2>4, SectionGrows
  <2>6. \A u \in 1..3 : u > t => shown[u] = <<>> /\ shown'[u] = <<>> /\ SectionTokens(u) = 0
    BY <1>1, <2>2, <2>4 DEF Shares, SectionTokens, Added
  <2> HIDE DEF header, line
  <2> DEFINE half == (2 * budget) \div 5
  <2>7. half \in Nat /\ 5 * half <= 2 * budget
    BY <1>1
  <2>8. /\ \A u \in 1..3 : SectionTokens(u) \in Nat
        /\ used = SectionTokens(1) + SectionTokens(2) + SectionTokens(3)
        /\ 5 * SectionTokens(1) <= 2 * budget /\ 5 * SectionTokens(2) <= 2 * budget
        /\ t = 1 => cap <= half
        /\ t = 2 => cap <= SectionTokens(1) + half
    BY <2>2 DEF Shares, TierShares
  <2> HIDE DEF half
  <2>9. used + header + line <= cap
    BY <1>1, <2>3, <2>4
  <2>10. \A u \in 1..3 : SectionTokens(u)' \in Nat
    BY <2>3, <2>5, <2>8
  <2>11. used' = SectionTokens(1)' + SectionTokens(2)' + SectionTokens(3)'
    <3>1. CASE t = 1
      BY <2>3, <2>4, <2>5, <2>8, <3>1
    <3>2. CASE t = 2
      BY <2>3, <2>4, <2>5, <2>8, <3>2
    <3>3. CASE t = 3
      BY <2>3, <2>4, <2>5, <2>8, <3>3
    <3> QED
      BY <2>2, <3>1, <3>2, <3>3
  <2>12. /\ 5 * SectionTokens(1)' <= 2 * budget /\ 5 * SectionTokens(2)' <= 2 * budget
         /\ t = 2 => cap <= SectionTokens(1)' + half
    <3>1. CASE t = 1
      <4>1. SectionTokens(2) = 0 /\ SectionTokens(3) = 0
        BY <2>6, <3>1
      <4>2. used + header + line <= half
        <5>1. cap <= half
          BY <2>8, <3>1
        <5> QED
          BY <1>1, <2>3, <2>7, <2>9, <5>1
      <4>3. SectionTokens(1)' = used + header + line /\ SectionTokens(2)' = 0
        BY <2>3, <2>5, <2>8, <3>1, <4>1
      <4>4. 5 * SectionTokens(1)' <= 2 * budget
        BY <1>1, <2>3, <2>7, <4>2, <4>3
      <4> QED
        BY <1>1, <3>1, <4>3, <4>4
    <3>2. CASE t = 2
      <4>1. SectionTokens(3) = 0 /\ SectionTokens(1)' = SectionTokens(1)
        BY <2>5, <2>6, <3>2
      <4>2. SectionTokens(2)' = SectionTokens(2) + header + line
        BY <2>5, <3>2
      <4>3. used = SectionTokens(1) + SectionTokens(2)
        BY <2>8, <4>1
      <4>4. used + header + line <= SectionTokens(1) + half
        <5>1. cap <= SectionTokens(1) + half /\ SectionTokens(1) \in Nat
          BY <2>8, <3>2
        <5> QED
          BY <1>1, <2>3, <2>7, <2>9, <5>1
      <4>5. SectionTokens(2)' <= half
        BY <2>3, <2>8, <2>7, <4>2, <4>3, <4>4
      <4>6. SectionTokens(2)' \in Nat
        BY <2>10
      <4>7. 5 * SectionTokens(2)' <= 2 * budget
        <5>1. budget \in Nat
          BY <1>1
        <5>2. 5 * half <= 2 * budget /\ half \in Nat
          BY <2>7
        <5> QED
          BY <4>5, <4>6, <5>1, <5>2
      <4>8. 5 * SectionTokens(1)' <= 2 * budget
        BY <2>8, <4>1
      <4>9. cap <= SectionTokens(1)' + half
        BY <2>8, <3>2, <4>1
      <4> QED
        BY <4>7, <4>8, <4>9
    <3>3. CASE t = 3
      BY <2>5, <2>8, <3>3
    <3> QED
      BY <2>2, <3>1, <3>2, <3>3
  <2>13. tier' = tier /\ budget' = budget /\ cap' = cap
    BY <2>4
  <2>14. TierShares'
    BY <2>11, <2>12, <2>13 DEF TierShares
  <2>15. \A u \in 1..3 : u > tier' => shown'[u] = <<>>
    BY <2>2, <2>6, <2>13
  <2>16. /\ tier' = 1 => cap' <= (2 * budget') \div 5
         /\ tier' = 2 => cap' <= SectionTokens(1)' + (2 * budget') \div 5
    BY <2>2, <2>8, <2>12, <2>13 DEF half
  <2> QED
    BY <2>10, <2>14, <2>15, <2>16 DEF Shares
<1>4. CASE LeaveTier
  <2>1. UNCHANGED <<budget, encoded, used, shown>> /\ tier' = tier + 1 /\ cap' = CapOf(tier + 1, used)
    BY <1>4 DEF LeaveTier, arguments
  <2>2. \A t \in 1..3 : SectionTokens(t)' = SectionTokens(t)
    BY <2>1, SectionStays
  <2>3. tier' = 2 => cap' <= SectionTokens(1) + (2 * budget) \div 5
    <3> SUFFICES ASSUME tier = 1 PROVE CapOf(2, used) <= SectionTokens(1) + (2 * budget) \div 5
      BY <1>1, <2>1
    <3>1. SectionTokens(2) = 0 /\ SectionTokens(3) = 0
      BY DEF Shares, SectionTokens
    <3>2. used = SectionTokens(1)
      BY <1>1, <3>1 DEF Shares, TierShares
    <3> QED
      BY <1>1, <3>2 DEF CapOf, Share, Smaller
  <2> QED
    BY <1>1, <2>1, <2>2, <2>3 DEF Shares, TierShares
<1> QED
  BY <1>2, <1>3, <1>4 DEF Next, Skip, vars, text, arguments

\* For any lists, gate and budget: stable facts and memories get no more than 40% of
\* max_tokens each, although what is left of one is not lost for the next, and every
\* line and header shown was charged once.
THEOREM TiersKeepTheirShares == Spec => []TierShares
<1>1. Shares => TierShares
  BY DEF Shares
<1> QED
  BY <1>1, InitShares, StepShares, LedgerHolds, PTL DEF Spec
----------------------------------------------------------------------------
\* Citations.  The line told last comes after all others, so a line keeps its place
\* among those that have a source.
Cites ==
    /\ CitationsFollowLines
    /\ IsFiniteSet(Sourced)
    /\ \A t \in 1..3 : t > tier => shown[t] = <<>>

LEMMA InitCites == Init => Cites
<1> SUFFICES ASSUME Init PROVE Cites
  OBVIOUS
<1>1. citations = <<>> /\ \A t \in 1..3 : shown[t] = <<>>
  BY DEF Init, Empty
<1>2. Sourced = {}
  BY <1>1 DEF Sourced, LinesShown
<1>3. IsFiniteSet({}) /\ Cardinality({}) = 0
  BY FS_EmptySet
<1> QED
  BY <1>1, <1>2, <1>3 DEF Cites, CitationsFollowLines

\* The place of a line that is added.
LEMMA LinesGrow ==
    ASSUME shown \in [1..3 -> Seq(Item)], NEW t \in 1..3, NEW x \in Item, Added(t, x),
           \A u \in 1..3 : u > t => shown[u] = <<>>,
           NEW p, p = <<t, Len(shown[t]) + 1>>
    PROVE  /\ p \notin LinesShown
           /\ LinesShown' = LinesShown \cup {p}
           /\ LineAt(p)' = x
           /\ \A l \in LinesShown :
                /\ LineAt(l)' = LineAt(l)
                /\ l[1] < p[1] \/ (l[1] = p[1] /\ l[2] <= p[2])
                /\ ~(p[1] < l[1] \/ (p[1] = l[1] /\ p[2] <= l[2]))
<1> DEFINE n == Len(shown[t]) + 1
<1>1. /\ n \in Nat \ {0} /\ p[1] = t /\ p[2] = n
      /\ DOMAIN shown[t] = 1..(n - 1)
      /\ DOMAIN shown'[t] = 1..n
      /\ shown'[t][n] = x
      /\ \A k \in 1..(n - 1) : shown'[t][k] = shown[t][k]
  <2>1. shown[t] \in Seq(Item) /\ shown'[t] = Append(shown[t], x)
    BY DEF Added
  <2> QED
    BY <2>1
<1>2. \A u \in 1..3 : u # t => shown'[u] = shown[u]
  BY DEF Added
<1>3. \A l : l \in LinesShown <=> \E u \in 1..3 : \E k \in DOMAIN shown[u] : l = <<u, k>>
  BY DEF LinesShown
<1>4. \A l : l \in LinesShown' <=> \E u \in 1..3 : \E k \in DOMAIN shown'[u] : l = <<u, k>>
  BY DEF LinesShown
<1> HIDE DEF n
<1>5. p \notin LinesShown
  BY <1>1, <1>3
<1>6. ASSUME NEW l \in LinesShown
      PROVE  /\ l \in LinesShown'
             /\ LineAt(l)' = LineAt(l)
             /\ l[1] < p[1] \/ (l[1] = p[1] /\ l[2] <= p[2])
             /\ ~(p[1] < l[1] \/ (p[1] = l[1] /\ p[2] <= l[2]))
  <2>1. PICK u \in 1..3 : \E k \in DOMAIN shown[u] : l = <<u, k>>
    BY <1>3
  <2>2. PICK k \in DOMAIN shown[u] : l = <<u, k>>
    BY <2>1
  <2>3. l[1] = u /\ l[2] = k
    BY <2>2
  <2>4. u <= t
    <3>1. shown[u] = <<>> => FALSE
      BY <2>2
    <3> QED
      BY <3>1
  <2>5. CASE u = t
    <3>1. k \in 1..(n - 1) /\ k \in 1..n
      BY <1>1, <2>5
    <3>2. k \in DOMAIN shown'[u] /\ shown'[u][k] = shown[u][k]
      BY <1>1, <2>5, <3>1
    <3>3. l \in LinesShown'
      BY <1>4, <2>2, <3>2
    <3>4. LineAt(l)' = LineAt(l)
      BY <2>3, <3>2 DEF LineAt
    <3> QED
      BY <1>1, <2>3, <2>5, <3>1, <3>3, <3>4
  <2>6. CASE u # t
    <3>1. shown'[u] = shown[u]
      BY <1>2, <2>6
    <3>2. l \in LinesShown'
      BY <1>4, <2>2, <3>1
    <3>3. LineAt(l)' = LineAt(l)
      BY <2>3, <3>1 DEF LineAt
    <3> QED
      BY <1>1, <2>3, <2>4, <2>6, <3>2, <3>3
  <2> QED
    BY <2>5, <2>6
<1>7. p \in LinesShown' /\ LineAt(p)' = x
  <2>1. n \in DOMAIN shown'[t]
    BY <1>1
  <2>2. p = <<t, n>>
    BY DEF n
  <2> QED
    BY <1>1, <1>4, <2>1, <2>2 DEF LineAt
<1>8. ASSUME NEW l \in LinesShown', l # p PROVE l \in LinesShown
  <2>1. PICK u \in 1..3 : \E k \in DOMAIN shown'[u] : l = <<u, k>>
    BY <1>4
  <2>2. PICK k \in DOMAIN shown'[u] : l = <<u, k>>
    BY <2>1
  <2>3. k \in DOMAIN shown[u]
    <3>1. CASE u = t
      <4>1. k # n
        BY <1>8, <2>2, <3>1 DEF n
      <4> QED
        BY <1>1, <2>2, <3>1, <4>1
    <3>2. CASE u # t
      BY <1>2, <2>2, <3>2
    <3> QED
      BY <3>1, <3>2
  <2> QED
    BY <1>3, <2>2, <2>3
<1>9. LinesShown' = LinesShown \cup {p}
  BY <1>6, <1>7, <1>8
<1> QED
  BY <1>5, <1>6, <1>7, <1>9

LEMMA StepCites == Ledger /\ Cites /\ [Next]_vars => Cites'
<1> SUFFICES ASSUME Ledger, Cites, [Next]_vars PROVE Cites'
  OBVIOUS
<1>1. tier \in 1..4 /\ shown \in [1..3 -> Seq(Item)] /\ citations \in Seq(Id)
  BY DEF Ledger
<1>2. CASE UNCHANGED <<shown, citations>> /\ tier' \in {tier, tier + 1}
  <2>1. UNCHANGED <<Sourced, CitationsFollowLines>>
    BY <1>2 DEF Sourced, LinesShown, LineAt, CitationsFollowLines, UpTo, SourceOf
  <2> QED
    BY <1>1, <1>2, <2>1 DEF Cites
<1>3. CASE AddLine
  <2>1. tier \in 1..3 /\ Line \in Item
    BY <1>3, LineType DEF AddLine
  <2>2. PICK t \in 1..3, x \in Item : t = tier /\ x = Line
    BY <2>1
  <2>3. Added(t, x) /\ tier' = tier /\ citations' = citations \o Citation(t, x)
    BY <1>3, <2>2 DEF AddLine, Added
  <2>4. PICK p : p = <<t, Len(shown[t]) + 1>>
    OBVIOUS
  <2>5. \A u \in 1..3 : u > t => shown[u] = <<>>
    BY <2>2 DEF Cites
  <2>6. /\ p \notin LinesShown
        /\ LinesShown' = LinesShown \cup {p}
        /\ LineAt(p)' = x
        /\ \A l \in LinesShown :
             /\ LineAt(l)' = LineAt(l)
             /\ l[1] < p[1] \/ (l[1] = p[1] /\ l[2] <= p[2])
             /\ ~(p[1] < l[1] \/ (p[1] = l[1] /\ p[2] <= l[2]))
    BY <1>1, <2>3, <2>4, <2>5, LinesGrow
  <2>7. \A u \in 1..3 : u > tier' => shown'[u] = <<>>
    BY <1>1, <2>2, <2>3, <2>5 DEF Added
  <2>8. p[1] = t /\ p[2] \in Nat
    BY <1>1, <2>4
  <2>9. /\ \A l \in Sourced : l \in LinesShown /\ SourceOf(l)' = SourceOf(l)
        /\ \A l \in LinesShown : l \in Sourced' <=> l \in Sourced
    BY <2>6 DEF Sourced, SourceOf
  <2>10. \A l \in Sourced : l \in UpTo(l) /\ UpTo(l) \subseteq Sourced
    <3>1. \A l \in LinesShown : l[2] \in Int
      BY <1>1 DEF LinesShown
    <3> QED
      BY <2>9, <3>1 DEF UpTo
  <2>11. Cardinality(Sourced) \in Nat /\ Len(citations) = Cardinality(Sourced)
    BY FS_CardinalityType DEF Cites, CitationsFollowLines
  <2>12. \A l \in Sourced : Cardinality(UpTo(l)) \in 1..Len(citations)
    <3> SUFFICES ASSUME NEW l \in Sourced PROVE Cardinality(UpTo(l)) \in 1..Len(citations)
      OBVIOUS
    <3>1. IsFiniteSet(UpTo(l)) /\ Cardinality(UpTo(l)) <= Cardinality(Sourced)
      BY <2>10, FS_Subset DEF Cites
    <3>2. Cardinality(UpTo(l)) \in Nat /\ Cardinality(UpTo(l)) # 0
      BY <2>10, <3>1, FS_CardinalityType, FS_EmptySet
    <3> QED
      BY <2>11, <3>1, <3>2
  <2>13. CASE t = 1 /\ x.turn = NoTurn
    <3>1. Citation(t, x) = <<>>
      BY <2>13 DEF Citation
    <3>2. citations' = citations
      BY <1>1, <2>3, <3>1
    <3>3. Sourced' = Sourced
      <4>1. p \notin Sourced'
        BY <2>6, <2>8, <2>13 DEF Sourced
      <4>2. Sourced' \subseteq LinesShown \cup {p}
        BY <2>6 DEF Sourced
      <4> QED
        BY <2>9, <4>1, <4>2
    <3>4. \A l \in Sourced : UpTo(l)' = UpTo(l)
      BY <3>3 DEF UpTo
    <3> QED
      BY <2>7, <2>9, <3>2, <3>3, <3>4 DEF Cites, CitationsFollowLines
  <2>14. CASE ~(t = 1 /\ x.turn = NoTurn)
    <3>1. PICK source \in Id : source = SourceOf(p)' /\ Citation(t, x) = <<source>>
      <4>1. SourceOf(p)' = IF t = 3 \/ x.turn = NoTurn THEN x.id ELSE x.turn
        BY <2>6, <2>8 DEF SourceOf
      <4>2. Citation(t, x) = <<SourceOf(p)'>>
        BY <2>14, <4>1 DEF Citation
      <4>3. SourceOf(p)' \in Id
        BY <4>1 DEF Item
      <4> QED
        BY <4>2, <4>3
    <3>2. citations' = Append(citations, source)
      BY <1>1, <2>3, <3>1
    <3>3. Sourced' = Sourced \cup {p} /\ p \notin Sourced
      <4>1. p \in Sourced'
        BY <2>6, <2>8, <2>14 DEF Sourced
      <4>2. Sourced' \subseteq LinesShown \cup {p}
        BY <2>6 DEF Sourced
      <4> QED
        BY <2>6, <2>9, <4>1, <4>2
    <3>4. IsFiniteSet(Sourced') /\ Cardinality(Sourced') = Cardinality(Sourced) + 1
      BY <3>3, FS_AddElement DEF Cites
    <3>5. /\ Len(citations') = Len(citations) + 1
          /\ citations'[Len(citations) + 1] = source
          /\ \A k \in 1..Len(citations) : citations'[k] = citations[k]
      BY <1>1, <3>2
    <3>6. UpTo(p)' = Sourced'
      BY <2>6, <2>8, <2>9, <3>3 DEF UpTo
    <3>7. \A l \in Sourced : UpTo(l)' = UpTo(l)
      BY <2>6, <2>9, <3>3 DEF UpTo
    <3>8. ASSUME NEW l \in Sourced' PROVE citations'[Cardinality(UpTo(l)')] = SourceOf(l)'
      <4>1. CASE l = p
        BY <2>11, <3>1, <3>4, <3>5, <3>6, <4>1
      <4>2. CASE l \in Sourced
        <5>1. UpTo(l)' = UpTo(l) /\ SourceOf(l)' = SourceOf(l)
          BY <2>9, <3>7, <4>2
        <5>2. citations'[Cardinality(UpTo(l))] = citations[Cardinality(UpTo(l))]
          BY <2>12, <3>5, <4>2
        <5>3. citations[Cardinality(UpTo(l))] = SourceOf(l)
          BY <4>2 DEF Cites, CitationsFollowLines
        <5> QED
          BY <5>1, <5>2, <5>3
      <4> QED
        BY <3>3, <4>1, <4>2
    <3>9. Len(citations') = Cardinality(Sourced')
      BY <2>11, <3>4, <3>5
    <3> QED
      BY <2>7, <3>4, <3>8, <3>9 DEF Cites, CitationsFollowLines
  <2> QED
    BY <2>13, <2>14
<1>4. CASE Skip \/ LeaveTier \/ UNCHANGED vars
  <2>1. UNCHANGED <<shown, citations>> /\ tier' \in {tier, tier + 1}
    BY <1>4 DEF Skip, LeaveTier, vars, text
  <2> QED
    BY <1>2, <2>1
<1> QED
  BY <1>3, <1>4 DEF Next

\* For any lists, gate and budget: the citations are the sources of the lines, one
\* for one and in their order, whatever the tiers left out.
THEOREM CitationsNameTheSources == Spec => []CitationsFollowLines
<1>1. Cites => CitationsFollowLines
  BY DEF Cites
<1> QED
  BY <1>1, InitCites, StepCites, LedgerHolds, PTL DEF Spec

----------------------------------------------------------------------------
\* Fusion.

\* The elements selected keep their order: the n-th of them is that at the n-th place of S.
LEMMA Selects ==
  ASSUME NEW V, NEW s \in Seq(V), NEW S \in SUBSET DOMAIN s
  PROVE  /\ Select(s, S) \in Seq(V)
         /\ Len(Select(s, S)) = Count(S, Len(s))
         /\ \A i \in S : Count(S, i) \in DOMAIN Select(s, S) /\ Select(s, S)[Count(S, i)] = s[i]
         /\ \A k \in DOMAIN Select(s, S) : \E i \in S : k = Count(S, i)
<1> DEFINE N == Len(s)
           W == Seq(V)
           F == [x \in (1..N) \X W |-> IF x[1] \in S THEN Append(x[2], s[x[1]]) ELSE x[2]]
           G == CHOOSE f : f = [n \in 0..N |-> IF n = 0 THEN <<>>
                                                ELSE IF n \in S THEN Append(f[n - 1], s[n]) ELSE f[n - 1]]
<1>1. N \in Nat /\ DOMAIN s = 1..N /\ \A n \in 1..N : s[n] \in V
  OBVIOUS
<1>2. Select(s, S) = G[N]
  BY DEF Select
<1>3. F \in [(1..N) \X W -> W] /\ <<>> \in W
  <2>1. ASSUME NEW x \in (1..N) \X W PROVE F[x] \in W
    <3>1. x[1] \in 1..N /\ x[2] \in W /\ s[x[1]] \in V
      BY <1>1
    <3>2. Append(x[2], s[x[1]]) \in W
      BY <3>1
    <3> QED
      BY <3>1, <3>2
  <2> QED
    BY <2>1
<1>4. \A n \in 1..N : \A t \in W : F[<<n, t>>] = IF n \in S THEN Append(t, s[n]) ELSE t
  OBVIOUS
<1> HIDE DEF F, N, W
<1>5. G[0] = <<>> /\ \A n \in 1..N : G[n] = IF n \in S THEN Append(G[n - 1], s[n]) ELSE G[n - 1]
  <2>1. PICK f \in [0..N -> W] : f[0] = <<>> /\ \A n \in 1..N : f[n] = F[<<n, f[n - 1]>>]
    <3>1. PICK e \in W : e = <<>>
      BY <1>3
    <3>2. \E f \in [0..N -> W] : f[0] = e /\ \A n \in 1..N : f[n] = F[<<n, f[n - 1]>>]
      <4>1. Rounds(F, N, W)
        BY <1>3 DEF Rounds
      <4> HIDE DEF G
      <4> QED
        BY <1>1, <3>1, <4>1, Iterates
    <3> QED
      BY <3>1, <3>2
  <2>2. f = [n \in 0..N |-> IF n = 0 THEN <<>> ELSE IF n \in S THEN Append(f[n - 1], s[n]) ELSE f[n - 1]]
    <3>1. ASSUME NEW n \in 0..N, n # 0
          PROVE  f[n] = IF n \in S THEN Append(f[n - 1], s[n]) ELSE f[n - 1]
      <4>1. n \in 1..N /\ n - 1 \in 0..N
        BY <1>1, <3>1
      <4> QED
        BY <1>4, <2>1, <4>1
    <3> QED
      BY <2>1, <3>1
  <2>3. PICK g : g = G
    OBVIOUS
  <2>4. g = [n \in 0..N |-> IF n = 0 THEN <<>> ELSE IF n \in S THEN Append(g[n - 1], s[n]) ELSE g[n - 1]]
    BY <2>2, <2>3
  <2>5. g[0] = <<>> /\ \A n \in 1..N : g[n] = IF n \in S THEN Append(g[n - 1], s[n]) ELSE g[n - 1]
    <3>1. 0 \in 0..N /\ \A n \in 1..N : n \in 0..N /\ n # 0
      BY <1>1
    <3> QED
      BY <2>4, <3>1
  <2> HIDE DEF G
  <2> QED
    BY <2>3, <2>5
<1> HIDE DEF G
<1> DEFINE Good(n) == /\ G[n] \in Seq(V)
                      /\ Len(G[n]) = Count(S, n)
                      /\ \A i \in S : i <= n => Count(S, i) \in 1..Len(G[n]) /\ G[n][Count(S, i)] = s[i]
                      /\ \A k \in 1..Len(G[n]) : \E i \in S : k = Count(S, i)
           T == {n \in Nat : n <= N => Good(n)}
<1>6. 0 \in T
  <2>1. \A i \in S : ~(i <= 0)
    BY <1>1
  <2>2. <<>> \in Seq(V) /\ Len(<<>>) = 0 /\ Count(S, 0) = 0
    BY CountGrows
  <2>3. Good(0)
    BY <1>5, <2>1, <2>2
  <2> HIDE DEF Good
  <2> QED
    BY <2>3
<1>7. ASSUME NEW n \in Nat, n \in T PROVE n + 1 \in T
  <2> SUFFICES ASSUME n + 1 <= N PROVE Good(n + 1)
    OBVIOUS
  <2>1. Good(n) /\ n + 1 \in 1..N /\ (n + 1) - 1 = n
    BY <1>1, <1>7
  <2>2. G[n + 1] = IF n + 1 \in S THEN Append(G[n], s[n + 1]) ELSE G[n]
    BY <1>5, <2>1
  <2>3. \A i \in S : i \in Nat /\ (i <= n + 1 => i <= n \/ i = n + 1)
    BY <1>1
  <2>4. CASE n + 1 \notin S
    <3>1. G[n + 1] = G[n] /\ Count(S, n + 1) = Count(S, n)
      BY <2>2, <2>4, CountGrows
    <3>2. \A i \in S : i <= n + 1 => i <= n
      BY <2>3, <2>4
    <3> QED
      BY <2>1, <3>1, <3>2
  <2>5. CASE n + 1 \in S
    <3>1. G[n + 1] = Append(G[n], s[n + 1]) /\ Count(S, n + 1) = Count(S, n) + 1 /\ Count(S, n) \in Nat
      BY <2>2, <2>5, CountGrows
    <3>2. s[n + 1] \in V
      BY <1>1, <2>1
    <3> DEFINE t == G[n]
    <3>3. t \in Seq(V) /\ Len(t) = Count(S, n) /\ G[n + 1] = Append(t, s[n + 1])
      BY <2>1, <3>1
    <3>4. /\ Append(t, s[n + 1]) \in Seq(V)
          /\ Len(Append(t, s[n + 1])) = Count(S, n) + 1
          /\ Append(t, s[n + 1])[Count(S, n) + 1] = s[n + 1]
          /\ \A k \in 1..Count(S, n) : Append(t, s[n + 1])[k] = t[k]
      <4> HIDE DEF t
      <4> QED
        BY <3>2, <3>3
    <3>5. ASSUME NEW i \in S, i <= n + 1
          PROVE  Count(S, i) \in 1..(Count(S, n) + 1) /\ Append(t, s[n + 1])[Count(S, i)] = s[i]
      <4>1. CASE i = n + 1
        BY <3>1, <3>4, <4>1
      <4>2. CASE i <= n
        <5>1. Count(S, i) \in 1..Count(S, n) /\ t[Count(S, i)] = s[i]
          BY <2>1, <3>3, <4>2
        <5> HIDE DEF t
        <5> QED
          BY <3>1, <3>4, <5>1
      <4> QED
        BY <2>3, <3>5, <4>1, <4>2
    <3>6. ASSUME NEW k \in 1..(Count(S, n) + 1) PROVE \E i \in S : k = Count(S, i)
      <4>1. CASE k = Count(S, n) + 1
        BY <2>5, <3>1, <4>1
      <4>2. CASE k # Count(S, n) + 1
        <5>1. k \in 1..Len(G[n])
          BY <3>1, <3>3, <4>2
        <5> QED
          BY <2>1, <5>1
      <4> QED
        BY <4>1, <4>2
    <3>7. Len(G[n + 1]) = Count(S, n + 1) /\ 1..Len(G[n + 1]) = 1..(Count(S, n) + 1)
      BY <3>1, <3>3, <3>4
    <3> HIDE DEF t
    <3> QED
      BY <3>3, <3>4, <3>5, <3>6, <3>7
  <2> QED
    BY <2>4, <2>5
<1>8. N \in T
  <2> HIDE DEF T
  <2> QED
    BY <1>1, <1>6, <1>7, Induct
<1>9. Good(N) /\ \A i \in S : i <= N
  BY <1>1, <1>8
<1>10. DOMAIN G[N] = 1..Len(G[N])
  BY <1>9
<1> QED
  BY <1>2, <1>9, <1>10 DEF N

----------------------------------------------------------------------------
\* Buckets.

Cand == [row : Row, source : DOMAIN Weight, run : 1..3]

\* The candidates of a recall: of one source, those of an earlier run come first.
LEMMA CandidatesType ==
  ASSUME NEW ls \in Lists
  PROVE  /\ Candidates(ls) \in Seq(Cand)
         /\ \A i, j \in DOMAIN Candidates(ls) :
               i <= j /\ Candidates(ls)[i].source = Candidates(ls)[j].source
               => Candidates(ls)[i].run <= Candidates(ls)[j].run
<1> DEFINE N == Len(ls)
           cand(i, j) == [row |-> ls[i].rows[j], source |-> ls[i].source, run |-> ls[i].run]
           cs == [i \in DOMAIN ls |-> [j \in DOMAIN ls[i].rows |-> cand(i, j)]]
           E == Candidates(ls)
<1>1. ls \in Seq(List) /\ N \in Nat /\ DOMAIN ls = 1..N
  <2>1. ls \in Seq(List)
    BY FusionAssumption
  <2> QED
    BY <2>1
<1>2. ASSUME NEW i \in 1..N
      PROVE  /\ ls[i].rows \in Seq(Row) /\ ls[i].source \in DOMAIN Weight /\ ls[i].run \in 1..3
             /\ cs[i] \in Seq(Cand) /\ DOMAIN cs[i] = DOMAIN ls[i].rows
             /\ \A j \in DOMAIN cs[i] : cs[i][j].source = ls[i].source /\ cs[i][j].run = ls[i].run
  <2>1. ls[i] \in List
    BY <1>1
  <2>2. ls[i].rows \in Seq(Row) /\ ls[i].source \in DOMAIN Weight /\ ls[i].run \in 1..3
    BY <2>1 DEF List
  <2> DEFINE q == ls[i].rows
  <2>3. cs[i] = [j \in DOMAIN q |-> cand(i, j)]
    BY <1>1
  <2>4. DOMAIN q = 1..Len(q) /\ Len(q) \in Nat /\ \A j \in DOMAIN q : q[j] \in Row
    BY <2>2
  <2>5. \A j \in DOMAIN q : cand(i, j) \in Cand
    BY <2>2, <2>4 DEF Cand
  <2> HIDE DEF cand, cs, q
  <2>6. cs[i] \in Seq(Cand)
    BY <2>3, <2>4, <2>5
  <2>7. DOMAIN cs[i] = DOMAIN q /\ \A j \in DOMAIN q : cs[i][j] = cand(i, j)
    BY <2>3
  <2>8. \A j \in DOMAIN q : cand(i, j).source = ls[i].source /\ cand(i, j).run = ls[i].run
    BY DEF cand
  <2>9. \A j \in DOMAIN cs[i] : cs[i][j].source = ls[i].source /\ cs[i][j].run = ls[i].run
    BY <2>7, <2>8
  <2> QED
    BY <2>2, <2>6, <2>7, <2>9 DEF q
<1>3. cs \in Seq(Seq(Cand)) /\ Len(cs) = N /\ DOMAIN cs = 1..N
  <2>1. DOMAIN cs = 1..N /\ cs = [i \in 1..N |-> cs[i]]
    BY <1>1
  <2> HIDE DEF cs, N
  <2>2. \A i \in 1..N : cs[i] \in Seq(Cand)
    BY <1>2
  <2>3. [i \in 1..N |-> cs[i]] \in Seq(Seq(Cand)) /\ Len([i \in 1..N |-> cs[i]]) = N
    BY <1>1, <2>2
  <2> QED
    BY <2>1, <2>3
<1>4. E = FlattenSeq(cs)
  BY DEF Candidates
<1> HIDE DEF cs, E
<1>5. E \in Seq(Cand)
  BY <1>3, <1>4, Flattens
<1>6. PICK o, w : Origins(o, w, E, cs, N)
  BY <1>3, <1>4, Flattens
<1>7. ASSUME NEW i \in DOMAIN E
      PROVE  o[i] \in 1..N /\ E[i].source = ls[o[i]].source /\ E[i].run = ls[o[i]].run
  <2>1. o[i] \in 1..N /\ w[i] \in DOMAIN cs[o[i]] /\ E[i] = cs[o[i]][w[i]]
    BY <1>6 DEF Origins
  <2> QED
    BY <1>2, <2>1
<1>8. ASSUME NEW i \in DOMAIN E, NEW j \in DOMAIN E, i <= j, E[i].source = E[j].source
      PROVE  E[i].run <= E[j].run
  <2>1. o[i] <= o[j]
    <3>1. i < j \/ i = j
      BY <1>5, <1>8
    <3> QED
      BY <1>6, <1>7, <3>1 DEF Origins
  <2>2. CASE o[i] = o[j]
    <3>1. ls[o[i]].run \in 1..3
      BY <1>2, <1>7
    <3> QED
      BY <1>7, <2>2, <3>1
  <2>3. CASE o[i] # o[j]
    <3>1. o[i] < o[j]
      BY <1>1, <1>7, <2>1, <2>3
    <3> QED
      BY <1>1, <1>7, <1>8, <3>1, FusionAssumption
  <2> QED
    BY <2>2, <2>3
<1> QED
  BY <1>5, <1>8 DEF E

PlacesOf(E, s) == {i \in DOMAIN E : E[i].source = s}
RankIn(E, i) == Count(PlacesOf(E, E[i].source), i)

\* The sources of the buckets: each source that found anything has one.
Groups(src, E) ==
    LET G == GroupBySource(E)
    IN  /\ G \in Seq(Seq(Cand))
        /\ src \in [DOMAIN G -> DOMAIN Weight]
        /\ \A k \in DOMAIN G : G[k] = OfSource(E, src[k])
        /\ \A k, l \in DOMAIN G : src[k] = src[l] => k = l
        /\ \A i \in DOMAIN E : \E k \in DOMAIN G : src[k] = E[i].source
        /\ \A k \in DOMAIN G : 1 \in DOMAIN G[k]

LEMMA OfSourceType ==
  ASSUME NEW E \in Seq(Cand), NEW s
  PROVE  /\ OfSource(E, s) \in Seq(Cand)
         /\ \A i \in PlacesOf(E, s) : RankIn(E, i) \in DOMAIN OfSource(E, s) /\ OfSource(E, s)[RankIn(E, i)] = E[i]
         /\ \A k \in DOMAIN OfSource(E, s) : \E i \in PlacesOf(E, s) : k = RankIn(E, i)
<1>1. PlacesOf(E, s) \in SUBSET DOMAIN E
  BY DEF PlacesOf
<1>2. OfSource(E, s) = Select(E, PlacesOf(E, s))
  BY DEF OfSource, PlacesOf
<1>3. \A i \in PlacesOf(E, s) : RankIn(E, i) = Count(PlacesOf(E, s), i)
  BY DEF RankIn, PlacesOf
<1> QED
  BY <1>1, <1>2, <1>3, Selects

LEMMA Grouping ==
  ASSUME NEW E \in Seq(Cand)
  PROVE  \E src : Groups(src, E)
<1> DEFINE first == {i \in DOMAIN E : \A j \in 1..(i - 1) : E[j].source # E[i].source}
           heads == Select(E, first)
           G == GroupBySource(E)
           src == [k \in DOMAIN heads |-> heads[k].source]
<1>1. Len(E) \in Nat /\ DOMAIN E = 1..Len(E) /\ \A i \in DOMAIN E : E[i] \in Cand
  OBVIOUS
<1>2. first \in SUBSET DOMAIN E
  OBVIOUS
<1>3. G = [k \in DOMAIN heads |-> OfSource(E, heads[k].source)]
  BY DEF GroupBySource
<1>4. \A i \in first : \A j \in DOMAIN E : j < i => E[j].source # E[i].source
  BY <1>1
<1>5. \A i \in DOMAIN E : (\A j \in DOMAIN E : j < i => E[j].source # E[i].source) => i \in first
  BY <1>1
<1> HIDE DEF first
<1>6. /\ heads \in Seq(Cand)
      /\ \A i \in first : Count(first, i) \in DOMAIN heads /\ heads[Count(first, i)] = E[i]
      /\ \A k \in DOMAIN heads : \E i \in first : k = Count(first, i)
  BY <1>2, Selects
<1> HIDE DEF heads, G
<1>7. DOMAIN heads = 1..Len(heads) /\ Len(heads) \in Nat /\ \A k \in DOMAIN heads : heads[k] \in Cand
  BY <1>6
<1>8. DOMAIN G = 1..Len(heads) /\ \A k \in 1..Len(heads) : G[k] = OfSource(E, heads[k].source)
  BY <1>3, <1>7
<1>9. G \in Seq(Seq(Cand))
  <2>1. \A k \in 1..Len(heads) : G[k] \in Seq(Cand)
    BY <1>8, OfSourceType
  <2>2. G = [k \in 1..Len(heads) |-> G[k]]
    BY <1>3, <1>7
  <2>3. [k \in 1..Len(heads) |-> G[k]] \in Seq(Seq(Cand))
    BY <1>7, <2>1
  <2> QED
    BY <2>2, <2>3
<1>10. src \in [DOMAIN G -> DOMAIN Weight] /\ \A k \in DOMAIN G : src[k] = heads[k].source
  <2>1. \A k \in DOMAIN heads : heads[k].source \in DOMAIN Weight
    BY <1>7 DEF Cand
  <2> QED
    BY <1>7, <1>8, <2>1
<1> HIDE DEF src
<1>11. ASSUME NEW k \in DOMAIN G, NEW l \in DOMAIN G, src[k] = src[l] PROVE k = l
  <2>1. PICK i \in first : k = Count(first, i)
    BY <1>6, <1>7, <1>8
  <2>2. PICK j \in first : l = Count(first, j)
    BY <1>6, <1>7, <1>8
  <2>3. E[i].source = E[j].source
    BY <1>6, <1>10, <1>11, <2>1, <2>2
  <2>4. i \in DOMAIN E /\ j \in DOMAIN E /\ i \in Nat /\ j \in Nat
    BY <1>1, <1>2
  <2>5. i = j
    BY <1>4, <2>3, <2>4
  <2> QED
    BY <2>1, <2>2, <2>5
<1>12. ASSUME NEW i \in DOMAIN E PROVE \E k \in DOMAIN G : src[k] = E[i].source
  <2> DEFINE same == {j \in Nat : j \in DOMAIN E /\ E[j].source = E[i].source}
  <2>1. same \in SUBSET Nat /\ same # {}
    <3>1. i \in same
      BY <1>1
    <3> QED
      BY <3>1
  <2> HIDE DEF same
  <2>2. PICK j \in same : \A m \in same : j <= m
    BY <2>1, Least
  <2>3. j \in DOMAIN E /\ E[j].source = E[i].source /\ j \in Nat
    BY DEF same
  <2>4. \A m \in DOMAIN E : m < j => E[m].source # E[j].source
    <3>1. \A m \in DOMAIN E : m \in Nat
      BY <1>1
    <3> QED
      BY <2>2, <2>3, <3>1 DEF same
  <2>5. j \in first
    BY <1>5, <2>3, <2>4
  <2>6. Count(first, j) \in DOMAIN G /\ heads[Count(first, j)] = E[j]
    BY <1>6, <1>7, <1>8, <2>5
  <2> QED
    BY <1>10, <2>3, <2>6
<1>13. \A k \in DOMAIN G : G[k] = OfSource(E, src[k])
  BY <1>8, <1>10
<1>14. ASSUME NEW k \in DOMAIN G PROVE 1 \in DOMAIN G[k]
  <2>1. PICK i \in first : k = Count(first, i)
    BY <1>6, <1>7, <1>8
  <2>2. i \in PlacesOf(E, src[k])
    BY <1>2, <1>6, <1>10, <2>1 DEF PlacesOf
  <2>3. RankIn(E, i) \in DOMAIN G[k] /\ G[k] \in Seq(Cand)
    BY <1>13, <2>2, OfSourceType
  <2> QED
    BY <2>3
<1>15. Groups(src, E)
  BY <1>9, <1>10, <1>11, <1>12, <1>13, <1>14 DEF Groups, G
<1> QED
  BY <1>15

Src(E) == CHOOSE src : Groups(src, E)

LEMMA SrcGroups ==
  ASSUME NEW E \in Seq(Cand)
  PROVE  Groups(Src(E), E)
BY Grouping DEF Src

\* The places read when b buckets are done and the next one up to, but not with, its n-th.
Read(E, b, n) ==
    {i \in DOMAIN E : \E k \in DOMAIN GroupBySource(E) :
        Src(E)[k] = E[i].source /\ (k <= b \/ (k = b + 1 /\ RankIn(E, i) < n))}

\* Reading a candidate: its place comes after all that were read of its source.
LEMMA ReadsNext ==
  ASSUME NEW E \in Seq(Cand), NEW b \in Nat, b + 1 \in DOMAIN GroupBySource(E),
         NEW n \in DOMAIN GroupBySource(E)[b + 1]
  PROVE  \E i \in DOMAIN E :
            /\ GroupBySource(E)[b + 1][n] = E[i]
            /\ RankIn(E, i) = n
            /\ i \notin Read(E, b, n)
            /\ Read(E, b, n + 1) = Read(E, b, n) \cup {i}
            /\ n = Len(GroupBySource(E)[b + 1]) => Read(E, b + 1, 1) = Read(E, b, n + 1)
            /\ \A j \in Read(E, b, n) : E[j].source = E[i].source => j < i
<1> DEFINE G == GroupBySource(E)
           src == Src(E)
           s == src[b + 1]
<1>1. /\ G \in Seq(Seq(Cand)) /\ \A k \in DOMAIN G : G[k] = OfSource(E, src[k]) /\ k \in Nat
      /\ \A k, l \in DOMAIN G : src[k] = src[l] => k = l
  <2>1. /\ G \in Seq(Seq(Cand)) /\ \A k \in DOMAIN G : G[k] = OfSource(E, src[k])
        /\ \A k, l \in DOMAIN G : src[k] = src[l] => k = l
    BY SrcGroups DEF Groups
  <2> HIDE DEF G, src
  <2>2. \A k \in DOMAIN G : k \in Nat
    BY <2>1
  <2> QED
    BY <2>1, <2>2
<1> HIDE DEF G, src
<1>2. b + 1 \in DOMAIN G /\ n \in DOMAIN G[b + 1] /\ G[b + 1] = OfSource(E, s)
  BY <1>1 DEF G
<1>3. OfSource(E, s) \in Seq(Cand)
  BY OfSourceType
<1>4. n \in Nat \ {0} /\ n \in DOMAIN OfSource(E, s) /\ DOMAIN OfSource(E, s) = 1..Len(OfSource(E, s))
  BY <1>2, <1>3
<1>5. PICK i \in PlacesOf(E, s) : n = RankIn(E, i)
  BY <1>4, OfSourceType
<1>6. i \in DOMAIN E /\ E[i].source = s /\ G[b + 1][n] = E[i]
  BY <1>2, <1>5, OfSourceType DEF PlacesOf
<1>7. DOMAIN E \subseteq Nat
  OBVIOUS
<1>8. ASSUME NEW j \in DOMAIN E, E[j].source = s
      PROVE  /\ RankIn(E, j) \in 1..Len(OfSource(E, s))
             /\ RankIn(E, j) = n => j = i
             /\ RankIn(E, j) < n => j < i
  <2>1. j \in PlacesOf(E, s) /\ i \in PlacesOf(E, s)
    BY <1>5, <1>8 DEF PlacesOf
  <2>2. RankIn(E, j) = Count(PlacesOf(E, s), j) /\ RankIn(E, i) = Count(PlacesOf(E, s), i)
    BY <1>6, <1>8 DEF RankIn
  <2>3. i \in Nat /\ j \in Nat /\ Count(PlacesOf(E, s), i) \in Nat /\ Count(PlacesOf(E, s), j) \in Nat
    BY <1>6, <1>7, CountGrows
  <2>4. /\ i <= j => Count(PlacesOf(E, s), i) <= Count(PlacesOf(E, s), j)
        /\ i < j => Count(PlacesOf(E, s), i) < Count(PlacesOf(E, s), j)
        /\ j < i => Count(PlacesOf(E, s), j) < Count(PlacesOf(E, s), i)
    BY <2>1, <2>3, CountOrders
  <2>5. RankIn(E, j) \in 1..Len(OfSource(E, s))
    BY <1>4, <2>1, OfSourceType
  <2> QED
    BY <1>5, <2>2, <2>3, <2>4, <2>5
<1>9. \A j \in DOMAIN E : \A m \in Nat :
         j \in Read(E, b, m) <=> \/ \E k \in DOMAIN G : src[k] = E[j].source /\ k <= b
                                 \/ E[j].source = s /\ RankIn(E, j) < m
  BY <1>1, <1>2 DEF Read, G, src
<1>10. ASSUME NEW j \in DOMAIN E, E[j].source = s
       PROVE  ~\E k \in DOMAIN G : src[k] = E[j].source /\ k <= b
  BY <1>1, <1>2, <1>10
<1>11. i \notin Read(E, b, n)
  BY <1>4, <1>5, <1>6, <1>9, <1>10
<1>12. Read(E, b, n + 1) = Read(E, b, n) \cup {i}
  <2>1. ASSUME NEW j \in DOMAIN E
        PROVE  j \in Read(E, b, n + 1) <=> j \in Read(E, b, n) \/ j = i
    <3>1. CASE E[j].source = s
      <4>1. RankIn(E, j) \in Nat /\ n \in Nat /\ n + 1 \in Nat
        BY <1>4, <1>8, <3>1
      <4>2. RankIn(E, j) < n + 1 <=> RankIn(E, j) < n \/ RankIn(E, j) = n
        BY <4>1
      <4>3. RankIn(E, j) = n <=> j = i
        BY <1>5, <1>8, <3>1
      <4> QED
        BY <1>9, <3>1, <4>1, <4>2, <4>3
    <3>2. CASE E[j].source # s
      <4>1. n \in Nat /\ n + 1 \in Nat /\ j # i
        BY <1>4, <1>6, <3>2
      <4> QED
        BY <1>9, <3>2, <4>1
    <3> QED
      BY <3>1, <3>2
  <2>2. Read(E, b, n + 1) \subseteq DOMAIN E /\ Read(E, b, n) \subseteq DOMAIN E
    BY DEF Read
  <2> QED
    BY <1>6, <2>1, <2>2
<1>13. ASSUME n = Len(G[b + 1]) PROVE Read(E, b + 1, 1) = Read(E, b, n + 1)
  <2>1. ASSUME NEW j \in DOMAIN E
        PROVE  j \in Read(E, b + 1, 1) <=> j \in Read(E, b, n + 1)
    <3>1. ASSUME NEW k \in DOMAIN G, src[k] = E[j].source PROVE ~(k = (b + 1) + 1 /\ RankIn(E, j) < 1)
      <4>1. j \in PlacesOf(E, E[j].source)
        BY DEF PlacesOf
      <4>2. RankIn(E, j) \in DOMAIN OfSource(E, E[j].source) /\ OfSource(E, E[j].source) \in Seq(Cand)
        BY <4>1, OfSourceType
      <4>3. RankIn(E, j) \in Nat \ {0}
        BY <4>2
      <4> QED
        BY <4>3
    <3>2. j \in Read(E, b + 1, 1) <=> \E k \in DOMAIN G : src[k] = E[j].source /\ k <= b + 1
      BY <3>1 DEF Read, G, src
    <3>3. \A k \in DOMAIN G : k <= b + 1 <=> k <= b \/ k = b + 1
      BY <1>1
    <3>4. E[j].source = s => RankIn(E, j) < n + 1
      BY <1>2, <1>4, <1>8, <1>13
    <3> QED
      BY <1>2, <1>4, <1>9, <3>2, <3>3, <3>4
  <2>2. Read(E, b, n + 1) \subseteq DOMAIN E /\ Read(E, b + 1, 1) \subseteq DOMAIN E
    BY DEF Read
  <2> QED
    BY <2>1, <2>2
<1>14. ASSUME NEW j \in Read(E, b, n), E[j].source = E[i].source PROVE j < i
  <2>1. j \in DOMAIN E /\ E[j].source = s
    BY <1>6, <1>14 DEF Read
  <2>2. RankIn(E, j) < n
    BY <1>4, <1>9, <1>10, <2>1
  <2> QED
    BY <1>8, <2>1, <2>2
<1> QED
  BY <1>5, <1>6, <1>11, <1>12, <1>13, <1>14 DEF G

\* In the end everything was read, and at first nothing.
LEMMA ReadsAll ==
  ASSUME NEW E \in Seq(Cand), NEW n
  PROVE  Read(E, Len(GroupBySource(E)), n) = DOMAIN E /\ Read(E, 0, 1) = {}
<1> DEFINE G == GroupBySource(E)
<1>1. /\ DOMAIN G = 1..Len(G) /\ Len(G) \in Nat
      /\ \A i \in DOMAIN E : \E k \in DOMAIN G : Src(E)[k] = E[i].source
  <2>1. G \in Seq(Seq(Cand)) /\ \A i \in DOMAIN E : \E k \in DOMAIN G : Src(E)[k] = E[i].source
    BY SrcGroups DEF Groups
  <2> HIDE DEF G
  <2> QED
    BY <2>1
<1> HIDE DEF G
<1>2. ASSUME NEW i \in DOMAIN E PROVE RankIn(E, i) \in Nat \ {0}
  <2>1. i \in PlacesOf(E, E[i].source)
    BY DEF PlacesOf
  <2>2. RankIn(E, i) \in DOMAIN OfSource(E, E[i].source) /\ OfSource(E, E[i].source) \in Seq(Cand)
    BY <2>1, OfSourceType
  <2> QED
    BY <2>2
<1>3. Read(E, Len(G), n) = DOMAIN E
  <2>1. ASSUME NEW i \in DOMAIN E PROVE i \in Read(E, Len(G), n)
    <3>1. PICK k \in DOMAIN G : Src(E)[k] = E[i].source
      BY <1>1
    <3>2. k <= Len(G)
      BY <1>1
    <3> QED
      BY <3>1, <3>2 DEF Read, G
  <2>2. Read(E, Len(G), n) \subseteq DOMAIN E
    BY DEF Read
  <2> QED
    BY <2>1, <2>2
<1>4. Read(E, 0, 1) = {}
  BY <1>1, <1>2 DEF Read, G
<1> QED
  BY <1>3, <1>4 DEF G

----------------------------------------------------------------------------
\* What one candidate adds.

PartIn(E, i) == (Weight[E[i].source] * Common) \div (K + RankIn(E, i))
SumOf(E, P) == SumFunction([i \in P |-> PartIn(E, i)])

\* Of the places P of a row, x is that of the strongest source, the first of it.
Strongest(E, P, x) ==
    IF P = {} THEN x = <<>>
    ELSE \E i \in P :
            /\ x = <<E[i]>>
            /\ \A j \in P : \/ Weight[E[j].source] < Weight[E[i].source]
                            \/ E[j].source = E[i].source /\ i <= j

LEMMA Weights ==
  /\ \A s \in DOMAIN Weight : Weight[s] \in Nat
  /\ \A s, t \in DOMAIN Weight : Weight[s] = Weight[t] => s = t
BY DEF Weight

LEMMA CandAt ==
  ASSUME NEW E \in Seq(Cand), NEW i \in DOMAIN E
  PROVE  /\ E[i] \in Cand /\ E[i].row \in Row
         /\ E[i].source \in DOMAIN Weight /\ Weight[E[i].source] \in Nat
<1>1. E[i] \in Cand
  OBVIOUS
<1>2. E[i].row \in Row /\ E[i].source \in DOMAIN Weight
  BY <1>1 DEF Cand
<1> QED
  BY <1>1, <1>2, Weights

LEMMA PartType ==
  ASSUME NEW E \in Seq(Cand), NEW i \in DOMAIN E
  PROVE  RankIn(E, i) \in Nat \ {0} /\ PartIn(E, i) \in Nat
<1>1. RankIn(E, i) \in Nat \ {0}
  <2>1. i \in PlacesOf(E, E[i].source)
    BY DEF PlacesOf
  <2>2. RankIn(E, i) \in DOMAIN OfSource(E, E[i].source) /\ OfSource(E, E[i].source) \in Seq(Cand)
    BY <2>1, OfSourceType
  <2> QED
    BY <2>2
<1>2. E[i].source \in DOMAIN Weight
  BY CandAt
<1> DEFINE weight == Weight[E[i].source]
           d == K + RankIn(E, i)
<1>3. weight \in Nat /\ Common \in Nat /\ d \in Nat /\ d > 0
  BY <1>1, <1>2, Weights, FusionAssumption
<1> HIDE DEF weight, d
<1>4. weight * Common \in Nat
  BY <1>3
<1>5. PICK n \in Nat : n = weight * Common
  BY <1>4
<1>6. n \div d \in Nat
  BY <1>3
<1> QED
  BY <1>1, <1>5, <1>6 DEF PartIn, weight, d

LEMMA ScoreGrows ==
  ASSUME NEW E \in Seq(Cand), NEW P \in SUBSET DOMAIN E, NEW i \in DOMAIN E, i \notin P
  PROVE  /\ SumOf(E, P) \in Nat
         /\ SumOf(E, P \cup {i}) = SumOf(E, P) + PartIn(E, i)
<1> DEFINE D == P \cup {i}
           f == [j \in D |-> PartIn(E, j)]
           g == [j \in P |-> PartIn(E, j)]
<1>1. IsFiniteSet(DOMAIN E)
  <2>1. DOMAIN E = 1..Len(E) /\ Len(E) \in Nat
    OBVIOUS
  <2> QED
    BY <2>1, FS_Interval
<1>2. IsFiniteSet(P) /\ IsFiniteSet(D)
  BY <1>1, FS_Subset
<1>3. f \in [D -> Nat] /\ g \in [P -> Nat]
  BY PartType
<1>4. D \ {i} = P /\ i \in D
  OBVIOUS
<1>5. [j \in P |-> f[j]] = g /\ f[i] = PartIn(E, i)
  OBVIOUS
<1> HIDE DEF D, f, g
<1>6. SumFunction(f) \in Nat /\ SumFunction(f) = f[i] + SumFunction(g)
  <2>1. PICK p \in [D -> Nat] : p = f
    BY <1>3
  <2>2. Without(g, p, D, i)
    BY <1>4, <1>5, <2>1 DEF Without
  <2>3. SumFunction(p) \in Nat /\ SumFunction(p) = p[i] + SumFunction(g)
    BY <1>2, <1>4, <2>1, <2>2, SumAdds
  <2> QED
    BY <2>1, <2>3
<1>7. SumFunction(g) \in Nat
  <2>1. PICK p \in [P -> Nat] : p = g
    BY <1>3
  <2>2. PICK h : IsSum(h, p, P) /\ SumFunction(p) = h[P]
    BY <1>2, SumOfFunction
  <2>3. h[P] \in Nat
    BY <2>2 DEF IsSum
  <2> QED
    BY <2>1, <2>2, <2>3
<1>8. f[i] \in Nat
  BY <1>3, <1>4
<1>9. SumFunction(f) = SumFunction(g) + f[i]
  BY <1>6, <1>7, <1>8
<1> QED
  BY <1>5, <1>7, <1>9 DEF SumOf, f, g, D

LEMMA KeptGrows ==
  ASSUME NEW E \in Seq(Cand), NEW P \in SUBSET DOMAIN E, NEW i \in DOMAIN E, i \notin P,
         \A j \in P : E[j].source = E[i].source => j < i,
         NEW x, Strongest(E, P, x), NEW y,
         y = IF x = <<>> \/ Weight[E[i].source] > Weight[x[1].source] THEN <<E[i]>> ELSE x
  PROVE  Strongest(E, P \cup {i}, y)
<1>1. /\ \A j \in DOMAIN E : E[j].source \in DOMAIN Weight /\ Weight[E[j].source] \in Nat
      /\ DOMAIN E \subseteq Nat
  BY CandAt
<1>2. CASE P = {}
  <2>1. y = <<E[i]>>
    BY <1>2 DEF Strongest
  <2> QED
    BY <1>1, <1>2, <2>1 DEF Strongest
<1>3. CASE P # {}
  <2>1. PICK k \in P : /\ x = <<E[k]>>
                       /\ \A j \in P : \/ Weight[E[j].source] < Weight[E[k].source]
                                       \/ E[j].source = E[k].source /\ k <= j
    BY <1>3 DEF Strongest
  <2>2. x # <<>> /\ x[1] = E[k]
    BY <2>1
  <2>3. CASE Weight[E[i].source] > Weight[E[k].source]
    <3>1. y = <<E[i]>>
      BY <2>2, <2>3
    <3>2. \A j \in P : Weight[E[j].source] < Weight[E[i].source]
      BY <1>1, <2>1, <2>3
    <3>3. \A j \in P \cup {i} : \/ Weight[E[j].source] < Weight[E[i].source]
                                \/ E[j].source = E[i].source /\ i <= j
      BY <1>1, <3>2
    <3> QED
      BY <3>1, <3>3 DEF Strongest
  <2>4. CASE ~(Weight[E[i].source] > Weight[E[k].source])
    <3>1. y = <<E[k]>>
      BY <2>1, <2>2, <2>4
    <3>2. \/ Weight[E[i].source] < Weight[E[k].source]
          \/ E[i].source = E[k].source /\ k <= i
      <4>1. CASE Weight[E[i].source] = Weight[E[k].source]
        <5>1. E[i].source = E[k].source
          BY <1>1, <4>1, Weights
        <5> QED
          BY <1>1, <5>1
      <4> QED
        BY <1>1, <2>4, <4>1
    <3>3. \A j \in P \cup {i} : \/ Weight[E[j].source] < Weight[E[k].source]
                                \/ E[j].source = E[k].source /\ k <= j
      BY <2>1, <3>2
    <3> QED
      BY <3>1, <3>3 DEF Strongest
  <2> QED
    BY <2>3, <2>4
<1> QED
  BY <1>2, <1>3

----------------------------------------------------------------------------
\* The loops of rrf_fuse: what was read of a row is in its score, and the strongest
\* of it is kept.
Mine(E, P, r) == {i \in P : E[i].row = r}

FuseOf(E) ==
    LET G == GroupBySource(E)
        b == Len(G) - Len(bucket)
    IN  /\ bucket \in Seq(Seq(Cand))
        /\ b \in Nat
        /\ \A k \in DOMAIN bucket : bucket[k] = G[b + k]
        /\ bucket = <<>> \/ rank \in DOMAIN bucket[1]
        /\ score \in [Row -> Nat]
        /\ kept = [r \in Row |-> kept[r]]
        /\ \A r \in Row : /\ score[r] = SumOf(E, Mine(E, Read(E, b, rank), r))
                          /\ Strongest(E, Mine(E, Read(E, b, rank), r), kept[r])

FuseInv == lists \in Lists /\ FuseOf(Everything)

LEMMA BucketsOf ==
  ASSUME NEW E \in Seq(Cand)
  PROVE  /\ GroupBySource(E) \in Seq(Seq(Cand))
         /\ DOMAIN GroupBySource(E) = 1..Len(GroupBySource(E)) /\ Len(GroupBySource(E)) \in Nat
         /\ \A k \in DOMAIN GroupBySource(E) : 1 \in DOMAIN GroupBySource(E)[k]
<1>1. GroupBySource(E) \in Seq(Seq(Cand)) /\ \A k \in DOMAIN GroupBySource(E) : 1 \in DOMAIN GroupBySource(E)[k]
  BY SrcGroups DEF Groups
<1> QED
  BY <1>1

LEMMA InitFuse == FusionInit => FuseInv
<1> SUFFICES ASSUME FusionInit PROVE FuseInv
  OBVIOUS
<1>1. lists \in Lists
  BY DEF FusionInit
<1>2. PICK E : E = Everything
  OBVIOUS
<1>3. E \in Seq(Cand)
  BY <1>1, <1>2, CandidatesType DEF Everything
<1> DEFINE G == GroupBySource(E)
<1>4. /\ G \in Seq(Seq(Cand)) /\ DOMAIN G = 1..Len(G) /\ Len(G) \in Nat
      /\ \A k \in DOMAIN G : 1 \in DOMAIN G[k]
  BY <1>3, BucketsOf
<1>5. bucket = G /\ rank = 1 /\ score = [r \in Row |-> 0] /\ kept = [r \in Row |-> <<>>]
  BY <1>2 DEF FusionInit, Everything
<1> HIDE DEF G
<1>6. bucket = <<>> \/ rank \in DOMAIN bucket[1]
  <2>1. G # <<>> => 1 \in DOMAIN G
    BY <1>4
  <2> QED
    BY <1>4, <1>5, <2>1
<1>7. Len(G) - Len(bucket) = 0 /\ \A k \in DOMAIN bucket : bucket[k] = G[0 + k]
  BY <1>4, <1>5
<1>8. Read(E, 0, rank) = {}
  BY <1>3, <1>5, ReadsAll
<1>9. ASSUME NEW r \in Row
      PROVE  score[r] = SumOf(E, Mine(E, {}, r)) /\ Strongest(E, Mine(E, {}, r), kept[r])
  <2>1. Mine(E, {}, r) = {}
    BY DEF Mine
  <2>2. SumOf(E, {}) = 0
    <3>1. [i \in {} |-> PartIn(E, i)] = <<>>
      OBVIOUS
    <3> QED
      BY <3>1, SumOfNothing DEF SumOf
  <2> QED
    BY <1>5, <2>1, <2>2 DEF Strongest
<1>10. FuseOf(E)
  <2>1. bucket \in Seq(Seq(Cand)) /\ score \in [Row -> Nat] /\ kept = [r \in Row |-> kept[r]]
    BY <1>4, <1>5
  <2>2. PICK b \in Nat : b = Len(G) - Len(bucket)
    BY <1>7
  <2>3. \A k \in DOMAIN bucket : bucket[k] = G[b + k]
    BY <1>7, <2>2
  <2>4. \A r \in Row : /\ score[r] = SumOf(E, Mine(E, Read(E, b, rank), r))
                       /\ Strongest(E, Mine(E, Read(E, b, rank), r), kept[r])
    BY <1>7, <1>8, <1>9, <2>2
  <2> QED
    BY <1>6, <2>1, <2>2, <2>3, <2>4 DEF FuseOf, G
<1> QED
  BY <1>1, <1>2, <1>10 DEF FuseInv

\* One turn of the inner loop, whatever it does to bucket and rank.
LEMMA FuseRow ==
  ASSUME NEW E \in Seq(Cand), NEW P \in SUBSET DOMAIN E, NEW i \in DOMAIN E, i \notin P,
         \A j \in P : E[j].source = E[i].source => j < i,
         score \in [Row -> Nat], kept = [r \in Row |-> kept[r]],
         \A r \in Row : score[r] = SumOf(E, Mine(E, P, r)) /\ Strongest(E, Mine(E, P, r), kept[r]),
         rank = RankIn(E, i),
         score' = [score EXCEPT ![E[i].row] = NewScore(E[i])],
         kept' = IF Stronger(E[i]) THEN [kept EXCEPT ![E[i].row] = <<E[i]>>] ELSE kept
  PROVE  /\ score' \in [Row -> Nat] /\ kept' = [r \in Row |-> kept'[r]]
         /\ \A r \in Row : /\ score'[r] = SumOf(E, Mine(E, P \cup {i}, r))
                           /\ Strongest(E, Mine(E, P \cup {i}, r), kept'[r])
<1>1. E[i].row \in Row
  BY CandAt
<1> DEFINE row == E[i].row
           M == Mine(E, P, row)
<1>2. M \in SUBSET DOMAIN E /\ i \notin M /\ Mine(E, P \cup {i}, row) = M \cup {i}
  BY DEF Mine
<1>3. \A r \in Row : r # row => Mine(E, P \cup {i}, r) = Mine(E, P, r)
  BY DEF Mine
<1>4. SumOf(E, M) \in Nat /\ SumOf(E, M \cup {i}) = SumOf(E, M) + PartIn(E, i)
  BY <1>2, ScoreGrows
<1>5. NewScore(E[i]) = score[row] + PartIn(E, i)
  BY DEF NewScore, PartIn
<1>6. NewScore(E[i]) = SumOf(E, M \cup {i}) /\ NewScore(E[i]) \in Nat
  <2>1. PartIn(E, i) \in Nat
    BY PartType
  <2> QED
    BY <1>1, <1>4, <1>5, <2>1
<1>7. PICK y : y = IF kept[row] = <<>> \/ Weight[E[i].source] > Weight[kept[row][1].source] THEN <<E[i]>> ELSE kept[row]
  OBVIOUS
<1>8. Strongest(E, M \cup {i}, y)
  <2>1. \A j \in M : E[j].source = E[i].source => j < i
    BY DEF Mine
  <2>2. PICK x : x = kept[row]
    OBVIOUS
  <2>3. Strongest(E, M, x)
    BY <1>1, <2>2
  <2>4. y = IF x = <<>> \/ Weight[E[i].source] > Weight[x[1].source] THEN <<E[i]>> ELSE x
    BY <1>7, <2>2
  <2> HIDE DEF M
  <2> QED
    BY <1>2, <2>1, <2>3, <2>4, KeptGrows
<1>9. kept'[row] = y /\ \A r \in Row : r # row => kept'[r] = kept[r]
  <2>1. CASE Stronger(E[i])
    <3>1. y = <<E[i]>>
      BY <1>7, <2>1 DEF Stronger
    <3> QED
      BY <1>1, <2>1, <3>1
  <2>2. CASE ~Stronger(E[i])
    <3>1. y = kept[row]
      BY <1>7, <2>2 DEF Stronger
    <3> QED
      BY <1>1, <2>2, <3>1
  <2> QED
    BY <2>1, <2>2
<1>10. kept' = [r \in Row |-> kept'[r]]
  OBVIOUS
<1>11. score' \in [Row -> Nat] /\ score'[row] = NewScore(E[i]) /\ \A r \in Row : r # row => score'[r] = score[r]
  BY <1>1, <1>6
<1> HIDE DEF row, M
<1>12. ASSUME NEW r \in Row
       PROVE  score'[r] = SumOf(E, Mine(E, P \cup {i}, r)) /\ Strongest(E, Mine(E, P \cup {i}, r), kept'[r])
  <2>1. CASE r = row
    BY <1>2, <1>6, <1>8, <1>9, <1>11, <2>1
  <2>2. CASE r # row
    BY <1>3, <1>9, <1>11, <2>2
  <2> QED
    BY <2>1, <2>2
<1> QED
  BY <1>10, <1>11, <1>12

LEMMA StepFuse ==
  ASSUME FuseInv, [FusionNext]_fusionVars
  PROVE  FuseInv'
<1>1. PICK E : E = Everything
  OBVIOUS
<1>2. E \in Seq(Cand) /\ lists \in Lists /\ FuseOf(E)
  BY <1>1, CandidatesType DEF FuseInv, Everything
<1>3. lists' = lists
  BY DEF FusionNext, Fuse, Sort, fusionVars
<1>4. E = Everything'
  BY <1>1, <1>3 DEF Everything
<1> SUFFICES FuseOf(E)'
  BY <1>2, <1>3, <1>4 DEF FuseInv
<1>5. CASE UNCHANGED <<bucket, rank, score, kept>>
  BY <1>2, <1>5 DEF FuseOf
<1>6. CASE Fuse
  <2> DEFINE G == GroupBySource(E)
  <2>1. PICK b : b = Len(G) - Len(bucket)
    OBVIOUS
  <2>2. /\ bucket \in Seq(Seq(Cand)) /\ b \in Nat
        /\ \A k \in DOMAIN bucket : bucket[k] = G[b + k]
        /\ score \in [Row -> Nat] /\ kept = [r \in Row |-> kept[r]]
        /\ \A r \in Row : /\ score[r] = SumOf(E, Mine(E, Read(E, b, rank), r))
                          /\ Strongest(E, Mine(E, Read(E, b, rank), r), kept[r])
    BY <1>2, <2>1 DEF FuseOf
  <2>3. bucket # <<>> /\ rank \in DOMAIN bucket[1]
    BY <1>2, <1>6 DEF Fuse, FuseOf
  <2>4. G \in Seq(Seq(Cand)) /\ DOMAIN G = 1..Len(G) /\ Len(G) \in Nat /\ \A k \in DOMAIN G : 1 \in DOMAIN G[k]
    BY <1>2, BucketsOf
  <2> HIDE DEF G
  <2>5. Len(bucket) \in Nat \ {0} /\ DOMAIN bucket = 1..Len(bucket)
    BY <2>2, <2>3
  <2>6. b + 1 \in DOMAIN G /\ bucket[1] = G[b + 1]
    <3>1. 1 \in DOMAIN bucket
      BY <2>5
    <3>2. bucket[1] = G[b + 1]
      BY <2>2, <3>1
    <3>3. b + Len(bucket) = Len(G)
      BY <2>1, <2>4, <2>5
    <3>4. b + 1 \in 1..Len(G)
      BY <2>2, <2>4, <2>5, <3>3
    <3> QED
      BY <2>4, <3>2, <3>4
  <2>7. PICK i \in DOMAIN E :
            /\ G[b + 1][rank] = E[i]
            /\ RankIn(E, i) = rank
            /\ i \notin Read(E, b, rank)
            /\ Read(E, b, rank + 1) = Read(E, b, rank) \cup {i}
            /\ rank = Len(G[b + 1]) => Read(E, b + 1, 1) = Read(E, b, rank + 1)
            /\ \A j \in Read(E, b, rank) : E[j].source = E[i].source => j < i
    BY <1>2, <2>2, <2>3, <2>6, ReadsNext DEF G
  <2>8. Current = E[i]
    BY <2>6, <2>7 DEF Current
  <2>9. Read(E, b, rank) \in SUBSET DOMAIN E
    BY DEF Read
  <2>10. /\ score' \in [Row -> Nat] /\ kept' = [r \in Row |-> kept'[r]]
         /\ \A r \in Row : /\ score'[r] = SumOf(E, Mine(E, Read(E, b, rank) \cup {i}, r))
                           /\ Strongest(E, Mine(E, Read(E, b, rank) \cup {i}, r), kept'[r])
    <3>1. /\ score' = [score EXCEPT ![E[i].row] = NewScore(E[i])]
          /\ kept' = IF Stronger(E[i]) THEN [kept EXCEPT ![E[i].row] = <<E[i]>>] ELSE kept
      BY <1>6, <2>8 DEF Fuse
    <3>2. PICK P : P = Read(E, b, rank)
      OBVIOUS
    <3> QED
      BY <1>2, <2>2, <2>7, <2>9, <3>1, FuseRow
  <2>11. bucket[1] \in Seq(Cand) /\ rank \in Nat /\ rank <= Len(bucket[1]) /\ Len(bucket[1]) \in Nat
    <3>1. bucket[1] \in Seq(Cand)
      BY <2>2, <2>5
    <3> QED
      BY <2>3, <3>1
  <2>12. CASE rank < Len(bucket[1])
    <3>1. rank' = rank + 1 /\ bucket' = bucket
      BY <1>6, <2>12 DEF Fuse
    <3>2. rank' \in DOMAIN bucket'[1]
      BY <2>11, <2>12, <3>1
    <3>3. Read(E, b, rank') = Read(E, b, rank) \cup {i} /\ b = Len(G) - Len(bucket')
      BY <2>1, <2>7, <3>1
    <3>4. \A r \in Row : /\ score'[r] = SumOf(E, Mine(E, Read(E, b, rank'), r))
                         /\ Strongest(E, Mine(E, Read(E, b, rank'), r), kept'[r])
      BY <2>10, <3>3
    <3> QED
      BY <2>2, <2>10, <3>1, <3>2, <3>3, <3>4 DEF FuseOf, G
  <2>13. CASE ~(rank < Len(bucket[1]))
    <3>1. rank' = 1 /\ bucket' = Tail(bucket) /\ rank = Len(bucket[1])
      BY <1>6, <2>11, <2>13 DEF Fuse
    <3>2. /\ bucket' \in Seq(Seq(Cand)) /\ Len(bucket') = Len(bucket) - 1
          /\ \A k \in DOMAIN bucket' : k \in Nat /\ k + 1 \in DOMAIN bucket /\ bucket'[k] = bucket[k + 1]
      BY <2>2, <2>3, <3>1
    <3>3. PICK d \in Nat : d = b + 1
      BY <2>2
    <3>4. d = Len(G) - Len(bucket')
      BY <2>1, <2>4, <2>5, <3>2, <3>3
    <3>5. ASSUME NEW k \in DOMAIN bucket' PROVE bucket'[k] = G[d + k]
      <4>1. k \in Nat /\ k + 1 \in DOMAIN bucket /\ bucket'[k] = bucket[k + 1]
        BY <3>2
      <4>2. bucket[k + 1] = G[b + (k + 1)]
        BY <2>2, <4>1
      <4>3. b + (k + 1) = d + k
        BY <2>2, <3>3, <4>1
      <4> QED
        BY <4>1, <4>2, <4>3
    <3>6. bucket' = <<>> \/ rank' \in DOMAIN bucket'[1]
      <4> SUFFICES ASSUME bucket' # <<>> PROVE 1 \in DOMAIN bucket'[1]
        BY <3>1
      <4>1. Len(bucket') \in Nat \ {0} /\ 1 \in DOMAIN bucket'
        BY <3>2
      <4>2. d + 1 \in DOMAIN G
        BY <2>4, <3>4, <4>1
      <4> QED
        BY <2>4, <3>5, <4>1, <4>2
    <3>7. Read(E, d, rank') = Read(E, b, rank) \cup {i}
      BY <2>6, <2>7, <3>1, <3>3
    <3>8. \A r \in Row : /\ score'[r] = SumOf(E, Mine(E, Read(E, d, rank'), r))
                         /\ Strongest(E, Mine(E, Read(E, d, rank'), r), kept'[r])
      BY <2>10, <3>7
    <3> QED
      BY <2>10, <3>2, <3>4, <3>5, <3>6, <3>8 DEF FuseOf, G
  <2> QED
    BY <2>12, <2>13
<1> QED
  BY <1>5, <1>6 DEF FusionNext, Sort, fusionVars

\* When all was read, it says what the properties of Fusion say.
LEMMA RankParts ==
  ASSUME NEW E \in Seq(Cand), E = Everything, NEW i \in DOMAIN E
  PROVE  RankOf(i) = RankIn(E, i) /\ Part(i) = PartIn(E, i)
<1>1. DOMAIN E = 1..Len(E) /\ Len(E) \in Nat
  OBVIOUS
<1>2. PlacesOf(E, E[i].source) \cap (1..i) = {j \in 1..i : E[j].source = E[i].source}
  BY <1>1 DEF PlacesOf
<1>3. RankOf(i) = RankIn(E, i)
  BY <1>2 DEF RankOf, RankIn, Count
<1> QED
  BY <1>3 DEF Part, PartIn

LEMMA AllRead ==
  ASSUME FuseInv, bucket = <<>>, NEW E, E = Everything
  PROVE  /\ E \in Seq(Cand)
         /\ \A r \in Row : /\ Places(r) \in SUBSET DOMAIN E
                           /\ score[r] = SumOf(E, Places(r))
                           /\ Strongest(E, Places(r), kept[r])
<1>1. E \in Seq(Cand) /\ FuseOf(E)
  BY CandidatesType DEF FuseInv, Everything
<1>2. Len(GroupBySource(E)) \in Nat /\ Len(bucket) = 0
  BY <1>1, BucketsOf
<1>3. PICK b : b = Len(GroupBySource(E)) - Len(bucket)
  OBVIOUS
<1>4. Read(E, b, rank) = DOMAIN E
  BY <1>1, <1>2, <1>3, ReadsAll
<1>5. \A r \in Row : Mine(E, DOMAIN E, r) = Places(r) /\ Places(r) \in SUBSET DOMAIN E
  BY DEF Mine, Places
<1>6. \A r \in Row : /\ score[r] = SumOf(E, Mine(E, Read(E, b, rank), r))
                     /\ Strongest(E, Mine(E, Read(E, b, rank), r), kept[r])
  BY <1>1, <1>3 DEF FuseOf
<1> QED
  BY <1>1, <1>4, <1>5, <1>6

LEMMA FusedScores == FuseInv => ScoresAreSums
<1> SUFFICES ASSUME FuseInv, Done, NEW r \in Row
             PROVE  score[r] = SumFunction([i \in Places(r) |-> Part(i)])
  BY DEF ScoresAreSums
<1>1. PICK E : E = Everything
  OBVIOUS
<1>2. E \in Seq(Cand) /\ Places(r) \in SUBSET DOMAIN E /\ score[r] = SumOf(E, Places(r))
  BY <1>1, AllRead DEF Done
<1>3. \A i \in Places(r) : Part(i) = PartIn(E, i)
  BY <1>1, <1>2, RankParts
<1>4. [i \in Places(r) |-> Part(i)] = [i \in Places(r) |-> PartIn(E, i)]
  BY <1>3
<1> QED
  BY <1>2, <1>4 DEF SumOf

LEMMA FusedKeeps == FuseInv => KeepsTheStrongest
<1> SUFFICES ASSUME FuseInv, Done, NEW r \in Found, NEW j \in Places(r)
             PROVE  \/ Weight[Everything[j].source] < Weight[kept[r][1].source]
                    \/ Everything[j].source = kept[r][1].source /\ Everything[j].run >= kept[r][1].run
  BY DEF KeepsTheStrongest
<1>1. PICK E : E = Everything
  OBVIOUS
<1>2. r \in Row
  BY DEF Found
<1>3. E \in Seq(Cand) /\ Places(r) \in SUBSET DOMAIN E /\ Strongest(E, Places(r), kept[r])
  BY <1>1, <1>2, AllRead DEF Done
<1>4. PICK i \in Places(r) :
         /\ kept[r] = <<E[i]>>
         /\ \A k \in Places(r) : \/ Weight[E[k].source] < Weight[E[i].source]
                                 \/ E[k].source = E[i].source /\ i <= k
  BY <1>3 DEF Strongest
<1>5. kept[r][1] = E[i]
  BY <1>4
<1>6. ASSUME E[j].source = E[i].source, i <= j PROVE E[j].run >= E[i].run
  <2>1. E = Candidates(lists) /\ lists \in Lists /\ i \in DOMAIN E /\ j \in DOMAIN E
    BY <1>1, <1>3 DEF Everything, FuseInv
  <2>2. E[i].run <= E[j].run
    BY <1>6, <2>1, CandidatesType
  <2>3. E[i].run \in Nat /\ E[j].run \in Nat
    <3>1. E[i] \in Cand /\ E[j] \in Cand
      BY <1>3, <2>1
    <3> QED
      BY <3>1 DEF Cand
  <2> QED
    BY <2>2, <2>3
<1> QED
  BY <1>1, <1>4, <1>5, <1>6

----------------------------------------------------------------------------
\* The order.  FirstPlace is the place at which a row is first read, bucket by bucket.

First(R, r) == CHOOSE i \in DOMAIN R : R[i].row = r /\ \A j \in 1..(i - 1) : R[j].row # r

LEMMA FirstIsLeast ==
  ASSUME NEW R \in Seq(Cand), NEW r, NEW i \in DOMAIN R, R[i].row = r
  PROVE  /\ First(R, r) \in DOMAIN R /\ R[First(R, r)].row = r
         /\ First(R, r) <= i
<1> DEFINE T == {j \in DOMAIN R : R[j].row = r}
<1>1. DOMAIN R = 1..Len(R) /\ Len(R) \in Nat
  OBVIOUS
<1>2. T \in SUBSET Nat /\ i \in T
  BY <1>1
<1>3. PICK n \in T : \A m \in T : n <= m
  <2>1. T # {}
    BY <1>2
  <2> HIDE DEF T
  <2> QED
    BY <1>2, <2>1, Least
<1>4. n \in DOMAIN R /\ R[n].row = r /\ \A j \in 1..(n - 1) : R[j].row # r
  <2>1. n \in 1..Len(R) /\ R[n].row = r
    BY <1>1
  <2>2. ASSUME NEW j \in 1..(n - 1), R[j].row = r PROVE FALSE
    <3>1. j \in DOMAIN R /\ j < n
      BY <1>1, <2>1
    <3>2. n <= j
      BY <1>3, <2>2, <3>1
    <3> QED
      BY <1>1, <2>1, <3>1, <3>2
  <2> QED
    BY <1>1, <2>1, <2>2
<1>5. /\ First(R, r) \in DOMAIN R /\ R[First(R, r)].row = r
      /\ \A j \in 1..(First(R, r) - 1) : R[j].row # r
  <2> HIDE DEF T
  <2> QED
    BY <1>4 DEF First
<1>6. First(R, r) <= i
  <2> DEFINE f == First(R, r)
  <2>1. f \in 1..Len(R) /\ i \in 1..Len(R) /\ \A j \in 1..(f - 1) : R[j].row # r
    BY <1>1, <1>5
  <2> HIDE DEF f, T
  <2>2. ~(i < f)
    <3> SUFFICES ASSUME i < f PROVE FALSE
      OBVIOUS
    <3>1. i \in 1..(f - 1)
      BY <2>1
    <3> QED
      BY <2>1, <3>1
  <2>3. f <= i
    BY <2>1, <2>2
  <2> QED
    BY <2>3 DEF f
<1> QED
  BY <1>5, <1>6

\* The place p of the reading R is the place i of E: w[p]-th of the o[p]-th bucket.
Stands(o, w, E, p, i) ==
    /\ o[p] \in DOMAIN GroupBySource(E) /\ Src(E)[o[p]] = E[i].source
    /\ w[p] = RankIn(E, i)

Reads(o, w, R, E) ==
    /\ R \in Seq(Cand)
    /\ \A p \in DOMAIN R : \E i \in DOMAIN E : R[p] = E[i] /\ Stands(o, w, E, p, i)
    /\ \A i \in DOMAIN E : \E p \in DOMAIN R : R[p] = E[i] /\ Stands(o, w, E, p, i)
    /\ \A p, q \in DOMAIN R : p < q => o[p] < o[q] \/ (o[p] = o[q] /\ w[p] < w[q])

LEMMA Reading ==
  ASSUME NEW E \in Seq(Cand)
  PROVE  \E o, w : Reads(o, w, FlattenSeq(GroupBySource(E)), E)
<1> DEFINE G == GroupBySource(E)
           R == FlattenSeq(G)
           src == Src(E)
<1>1. Groups(src, E)
  BY SrcGroups
<1>2. /\ G \in Seq(Seq(Cand)) /\ DOMAIN G = 1..Len(G)
      /\ src \in [DOMAIN G -> DOMAIN Weight]
      /\ \A k \in DOMAIN G : G[k] = OfSource(E, src[k])
      /\ \A i \in DOMAIN E : \E k \in DOMAIN G : src[k] = E[i].source
  BY <1>1 DEF Groups
<1> HIDE DEF G, src
<1>3. R \in Seq(Cand) /\ \E o, w : Origins(o, w, R, G, Len(G))
  BY <1>2, Flattens
<1> HIDE DEF R
<1>4. PICK o, w : Origins(o, w, R, G, Len(G))
  BY <1>3
<1>5. ASSUME NEW p \in DOMAIN R
      PROVE  \E i \in DOMAIN E : R[p] = E[i] /\ o[p] \in DOMAIN G /\ src[o[p]] = E[i].source /\ w[p] = RankIn(E, i)
  <2>1. o[p] \in DOMAIN G /\ w[p] \in DOMAIN G[o[p]] /\ R[p] = G[o[p]][w[p]]
    BY <1>2, <1>4 DEF Origins
  <2>2. G[o[p]] = OfSource(E, src[o[p]])
    BY <1>2, <2>1
  <2>3. PICK i \in PlacesOf(E, src[o[p]]) : w[p] = RankIn(E, i)
    BY <2>1, <2>2, OfSourceType
  <2>4. R[p] = E[i]
    BY <2>1, <2>2, <2>3, OfSourceType
  <2> QED
    BY <2>1, <2>3, <2>4 DEF PlacesOf
<1>6. ASSUME NEW i \in DOMAIN E
      PROVE  \E p \in DOMAIN R : R[p] = E[i] /\ o[p] \in DOMAIN G /\ src[o[p]] = E[i].source /\ w[p] = RankIn(E, i)
  <2>1. PICK k \in DOMAIN G : src[k] = E[i].source
    BY <1>2
  <2>2. i \in PlacesOf(E, src[k]) /\ G[k] = OfSource(E, src[k])
    BY <1>2, <2>1 DEF PlacesOf
  <2>3. RankIn(E, i) \in DOMAIN G[k] /\ G[k][RankIn(E, i)] = E[i]
    BY <2>2, OfSourceType
  <2>4. PICK p \in DOMAIN R : o[p] = k /\ w[p] = RankIn(E, i)
    BY <1>2, <1>4, <2>3 DEF Origins
  <2>5. R[p] = G[k][RankIn(E, i)]
    BY <1>4, <2>4 DEF Origins
  <2> QED
    BY <2>1, <2>3, <2>4, <2>5
<1>7. Reads(o, w, R, E)
  <2>1. \A p, q \in DOMAIN R : p < q => o[p] < o[q] \/ (o[p] = o[q] /\ w[p] < w[q])
    BY <1>4 DEF Origins
  <2> QED
    BY <1>3, <1>5, <1>6, <2>1 DEF Reads, Stands, G, src
<1> QED
  BY <1>7 DEF R, G

\* The first place of a row, known by the places of E it comes from.
LEMMA FirstRead ==
  ASSUME NEW E \in Seq(Cand), NEW R, R = FlattenSeq(GroupBySource(E)),
         NEW r, NEW i \in DOMAIN E, E[i].row = r
  PROVE  /\ R \in Seq(Cand) /\ First(R, r) \in DOMAIN R /\ R[First(R, r)].row = r
<1>1. PICK o, w : Reads(o, w, R, E)
  BY Reading
<1>2. PICK p \in DOMAIN R : R[p] = E[i]
  BY <1>1 DEF Reads
<1>3. R \in Seq(Cand) /\ R[p].row = r
  BY <1>1, <1>2 DEF Reads
<1> QED
  BY <1>2, <1>3, FirstIsLeast

\* A row that has, for every place of another, an earlier one of the same source is read first.
LEMMA FirstOfTwo ==
  ASSUME NEW E \in Seq(Cand), NEW R, R = FlattenSeq(GroupBySource(E)),
         NEW a, NEW b, NEW l \in DOMAIN E, E[l].row = b,
         \A i \in DOMAIN E : E[i].row = b =>
            \E j \in DOMAIN E : E[j].row = a /\ E[j].source = E[i].source /\ j < i
  PROVE  First(R, a) < First(R, b)
<1>1. PICK o, w : Reads(o, w, R, E)
  BY Reading
<1>2. R \in Seq(Cand) /\ First(R, b) \in DOMAIN R /\ R[First(R, b)].row = b
  BY FirstRead
<1>3. PICK p \in DOMAIN R : p = First(R, b) /\ R[p].row = b
  BY <1>2
<1>4. PICK i \in DOMAIN E : R[p] = E[i] /\ Stands(o, w, E, p, i)
  BY <1>1 DEF Reads
<1>5. PICK j \in DOMAIN E : E[j].row = a /\ E[j].source = E[i].source /\ j < i
  BY <1>3, <1>4
<1>6. PICK q \in DOMAIN R : R[q] = E[j] /\ Stands(o, w, E, q, j)
  BY <1>1 DEF Reads
<1>7. o[q] = o[p]
  <2>1. Groups(Src(E), E)
    BY SrcGroups
  <2> QED
    BY <1>4, <1>5, <1>6, <2>1 DEF Stands, Groups
<1>8. RankIn(E, j) < RankIn(E, i) /\ RankIn(E, i) \in Nat /\ RankIn(E, j) \in Nat
  <2>1. i \in PlacesOf(E, E[i].source) /\ i \in Nat /\ j \in Nat
    BY DEF PlacesOf
  <2>2. RankIn(E, j) = Count(PlacesOf(E, E[i].source), j) /\ RankIn(E, i) = Count(PlacesOf(E, E[i].source), i)
    BY <1>5 DEF RankIn
  <2>3. RankIn(E, j) < RankIn(E, i)
    BY <1>5, <2>1, <2>2, CountOrders
  <2> QED
    BY <2>3, PartType
<1>9. w[q] < w[p] /\ w[p] \in Nat /\ w[q] \in Nat /\ o[p] \in Nat
  <2>1. w[p] = RankIn(E, i) /\ w[q] = RankIn(E, j) /\ o[p] \in DOMAIN GroupBySource(E)
    BY <1>4, <1>6 DEF Stands
  <2> QED
    BY <1>8, <2>1, BucketsOf
<1>10. q < p
  <2>1. p \in Nat /\ q \in Nat
    BY <1>2
  <2>2. ~(p < q)
    <3>1. p < q => o[p] < o[q] \/ (o[p] = o[q] /\ w[p] < w[q])
      BY <1>1 DEF Reads
    <3> QED
      BY <1>7, <1>9, <3>1
  <2>3. p # q
    BY <1>9
  <2> QED
    BY <2>1, <2>2, <2>3
<1>11. First(R, a) \in DOMAIN R /\ First(R, a) <= q
  <2>1. R[q].row = a
    BY <1>5, <1>6
  <2> QED
    BY <1>2, <2>1, FirstIsLeast
<1>12. First(R, a) \in Nat /\ p \in Nat /\ q \in Nat
  BY <1>2, <1>11
<1> QED
  BY <1>3, <1>10, <1>11, <1>12

\* The rows found are those that have a place, and there are finitely many.
LEMMA FoundRows ==
  ASSUME FuseInv, bucket = <<>>, NEW E, E = Everything
  PROVE  /\ E \in Seq(Cand)
         /\ \A r : r \in Found <=> r \in Row /\ \E i \in DOMAIN E : E[i].row = r
         /\ score \in [Row -> Nat]
<1>1. /\ E \in Seq(Cand) /\ FuseOf(E)
      /\ \A r \in Row : Strongest(E, Places(r), kept[r])
  BY AllRead DEF FuseInv
<1>2. \A r \in Row : Places(r) = {} <=> kept[r] = <<>>
  BY <1>1 DEF Strongest
<1>3. \A r : Places(r) # {} <=> \E i \in DOMAIN E : E[i].row = r
  BY DEF Places
<1>4. score \in [Row -> Nat]
  BY <1>1 DEF FuseOf
<1> QED
  BY <1>1, <1>2, <1>3, <1>4 DEF Found

LEMMA FirstPlaces ==
  ASSUME FuseInv, bucket = <<>>
  PROVE  /\ \A r \in Found : FirstPlace(r) \in Nat
         /\ \A q, r \in Found : FirstPlace(q) = FirstPlace(r) => q = r
         /\ IsFiniteSet(Found)
<1>1. PICK E : E = Everything
  OBVIOUS
<1> DEFINE R == FlattenSeq(GroupBySource(E))
<1>2. \A r : FirstPlace(r) = First(R, r)
  BY <1>1 DEF FirstPlace, First, Everything
<1>3. \A r \in Found : R \in Seq(Cand) /\ First(R, r) \in DOMAIN R /\ R[First(R, r)].row = r
  <2>1. ASSUME NEW r \in Found
        PROVE  R \in Seq(Cand) /\ First(R, r) \in DOMAIN R /\ R[First(R, r)].row = r
    <3>1. E \in Seq(Cand) /\ \E i \in DOMAIN E : E[i].row = r
      BY <1>1, FoundRows
    <3>2. PICK Q : Q = R
      OBVIOUS
    <3>3. Q \in Seq(Cand) /\ First(Q, r) \in DOMAIN Q /\ Q[First(Q, r)].row = r
      BY <3>1, <3>2, FirstRead
    <3> QED
      BY <3>2, <3>3
  <2> QED
    BY <2>1
<1> HIDE DEF R
<1>4. \A r \in Found : FirstPlace(r) \in 1..Len(R) /\ Len(R) \in Nat
  BY <1>2, <1>3
<1>5. \A q, r \in Found : FirstPlace(q) = FirstPlace(r) => q = r
  BY <1>2, <1>3
<1>6. IsFiniteSet(Found)
  <2>1. CASE Found = {}
    BY <2>1, FS_EmptySet
  <2>2. CASE Found # {}
    <3>1. Len(R) \in Nat /\ IsFiniteSet(1..Len(R))
      BY <1>4, <2>2, FS_Interval
    <3> DEFINE f == [r \in Found |-> FirstPlace(r)]
    <3>2. f \in [Found -> 1..Len(R)] /\ \A q, r \in Found : f[q] = f[r] => q = r
      BY <1>4, <1>5
    <3> HIDE DEF f
    <3>3. PICK g \in Injection(Found, 1..Len(R)) : TRUE
      BY <3>2 DEF Injection, IsInjective
    <3> QED
      BY <3>1, <3>3, FS_Injection
  <2> QED
    BY <2>1, <2>2
<1> QED
  BY <1>4, <1>5, <1>6

\* Both sorts together give a strict order of the rows found.
Earlier == [r \in Found |-> {q \in Found : Before(q, r)}]

LEMMA BeforeOrders ==
  ASSUME FuseInv, bucket = <<>>
  PROVE  IsFiniteSet(Found) /\ Ordered(Earlier, Found)
<1>1. /\ \A r \in Found : FirstPlace(r) \in Nat
      /\ \A q, r \in Found : FirstPlace(q) = FirstPlace(r) => q = r
      /\ IsFiniteSet(Found)
  BY FirstPlaces
<1>2. \A r \in Found : score[r] \in Nat
  <2>1. score \in [Row -> Nat]
    BY FoundRows
  <2> QED
    BY <2>1 DEF Found
<1>3. ASSUME NEW x \in Found PROVE ~Before(x, x)
  BY <1>1, <1>2 DEF Before
<1>4. ASSUME NEW x \in Found, NEW y \in Found, x # y PROVE Before(x, y) \/ Before(y, x)
  <2>1. FirstPlace(x) # FirstPlace(y)
    BY <1>1, <1>4
  <2>2. FirstPlace(x) < FirstPlace(y) \/ FirstPlace(y) < FirstPlace(x)
    BY <1>1, <2>1
  <2> QED
    BY <1>2, <2>2 DEF Before
<1>5. ASSUME NEW x \in Found, NEW y \in Found, NEW z \in Found, Before(x, y), Before(y, z)
      PROVE  Before(x, z)
  <2>1. /\ FirstPlace(x) \in Nat /\ FirstPlace(y) \in Nat /\ FirstPlace(z) \in Nat
        /\ score[x] \in Nat /\ score[y] \in Nat /\ score[z] \in Nat
    BY <1>1, <1>2
  <2> QED
    BY <1>5, <2>1 DEF Before
<1>6. \A x \in Found : Earlier[x] = {q \in Found : Before(q, x)}
  BY DEF Earlier
<1>7. Ordered(Earlier, Found)
  BY <1>3, <1>4, <1>5, <1>6 DEF Ordered
<1> QED
  BY <1>1, <1>7

\* Once sorted, a row stands behind those that are before it.
InOrder ==
    /\ order \in Seq(Row)
    /\ Len(order) = Cardinality(Found)
    /\ \A n \in DOMAIN order : order[n] \in Found /\ Cardinality(Earlier[order[n]]) = n - 1

Ordering == order = <<>> \/ (bucket = <<>> /\ InOrder)

LEMMA Sorting ==
  ASSUME FuseInv, Sort
  PROVE  InOrder'
<1>1. IsFiniteSet(Found) /\ Ordered(Earlier, Found) /\ Cardinality(Found) \in Nat
  BY BeforeOrders, FS_CardinalityType DEF Sort
<1> DEFINE N == Cardinality(Found)
           at(n) == CHOOSE r \in Found : Cardinality({q \in Found : Before(q, r)}) = n - 1
<1>2. Found' = Found /\ Earlier' = Earlier
  BY DEF Sort, Found, Earlier, Before, FirstPlace
<1>3. ASSUME NEW n \in 1..N PROVE at(n) \in Found /\ Cardinality(Earlier[at(n)]) = n - 1
  <2>1. n - 1 \in 0..(N - 1)
    BY <1>1
  <2>2. PICK r \in Found : Cardinality(Earlier[r]) = n - 1
    BY <1>1, <2>1, PlacesTaken
  <2>3. \E q \in Found : Cardinality({p \in Found : Before(p, q)}) = n - 1
    BY <2>2 DEF Earlier
  <2> QED
    BY <2>3 DEF Earlier
<1>4. order' = [n \in 1..N |-> at(n)]
  BY DEF Sort
<1> HIDE DEF at, N
<1>5. N \in Nat /\ \A n \in 1..N : at(n) \in Row
  BY <1>1, <1>3 DEF Found, N
<1>6. order' \in Seq(Row) /\ Len(order') = N /\ DOMAIN order' = 1..N /\ \A n \in 1..N : order'[n] = at(n)
  BY <1>4, <1>5
<1>7. \A n \in DOMAIN order' : order'[n] \in Found /\ Cardinality(Earlier[order'[n]]) = n - 1
  BY <1>3, <1>6
<1> QED
  BY <1>2, <1>6, <1>7 DEF InOrder, N

LEMMA StepOrdering ==
  ASSUME FuseInv, Ordering, [FusionNext]_fusionVars
  PROVE  Ordering'
<1>1. CASE Fuse
  BY <1>1 DEF Fuse, Ordering
<1>2. CASE Sort
  <2>1. bucket' = <<>>
    BY <1>2 DEF Sort
  <2> QED
    BY <1>2, <2>1, Sorting DEF Ordering
<1>3. CASE UNCHANGED fusionVars
  <2>1. Found' = Found /\ Earlier' = Earlier
    BY <1>3 DEF fusionVars, Found, Earlier, Before, FirstPlace
  <2>2. InOrder' = InOrder
    BY <1>3, <2>1 DEF fusionVars, InOrder
  <2> QED
    BY <1>3, <2>2 DEF fusionVars, Ordering
<1> QED
  BY <1>1, <1>2, <1>3 DEF FusionNext

----------------------------------------------------------------------------
\* A row that dominates another has a higher score, or the same and is read first: each
\* place of the other has an earlier one of its own.

At(r, s) == {j \in Places(r) : Everything[j].source = s}

\* The n-th place of b in a bucket goes with the n-th of a.
Ahead(a, b, i, j) ==
    /\ Everything[j].source = Everything[i].source
    /\ j < i
    /\ Cardinality(PlacesBefore(a, j)) = Cardinality(PlacesBefore(b, i))

LEMMA PlacesCounted ==
  ASSUME Everything \in Seq(Cand), NEW r, NEW i \in DOMAIN Everything
  PROVE  /\ i \in Nat \ {0} /\ i - 1 \in Nat
         /\ Cardinality(PlacesBefore(r, i)) = Count(At(r, Everything[i].source), i - 1)
<1>1. i \in 1..Len(Everything) /\ Len(Everything) \in Nat /\ DOMAIN Everything = 1..Len(Everything)
  OBVIOUS
<1>2. \A j \in Places(r) : j \in Nat \ {0}
  BY <1>1 DEF Places
<1>3. PlacesBefore(r, i) = At(r, Everything[i].source) \cap (1..(i - 1))
  BY <1>1, <1>2 DEF PlacesBefore, At
<1> QED
  BY <1>1, <1>3 DEF Count

LEMMA PlacesAhead ==
  ASSUME Everything \in Seq(Cand), NEW a, NEW b, Dominates(a, b), NEW i \in Places(b)
  PROVE  \E j \in Places(a) : Ahead(a, b, i, j)
<1> DEFINE s == Everything[i].source
           S == At(a, s)
           m == Cardinality(PlacesBefore(b, i))
<1>1. i \in DOMAIN Everything
  BY DEF Places
<1>2. i \in Nat /\ i - 1 \in Nat /\ m = Count(At(b, s), i - 1) /\ Cardinality(PlacesBefore(a, i)) = Count(S, i - 1)
  BY <1>1, PlacesCounted
<1>3. m < Count(S, i - 1)
  <2>1. Cardinality(PlacesBefore(a, i)) > m
    BY DEF Dominates
  <2>2. m \in Nat /\ Count(S, i - 1) \in Nat
    BY <1>2, CountGrows
  <2> QED
    BY <1>2, <2>1, <2>2
<1>4. m \in Nat
  BY <1>2, CountGrows
<1> HIDE DEF m, S
<1>5. PICK j \in S : j \in 1..(i - 1) /\ Count(S, j - 1) = m
  BY <1>2, <1>3, <1>4, CountTakes
<1>6. j \in Places(a) /\ Everything[j].source = s /\ j \in DOMAIN Everything
  BY DEF S, At, Places
<1>7. Cardinality(PlacesBefore(a, j)) = Count(S, j - 1)
  BY <1>6, PlacesCounted DEF S
<1>8. j < i
  BY <1>2, <1>5
<1> QED
  BY <1>5, <1>6, <1>7, <1>8 DEF Ahead, m

LEMMA OwnPlaces ==
  ASSUME Everything \in Seq(Cand), NEW a, NEW b, NEW i \in Places(b), NEW k \in Places(b), NEW j,
         Ahead(a, b, i, j), Ahead(a, b, k, j)
  PROVE  i = k
<1> DEFINE S == At(b, Everything[j].source)
<1>1. /\ i \in DOMAIN Everything /\ k \in DOMAIN Everything
      /\ Everything[i].source = Everything[j].source /\ Everything[k].source = Everything[j].source
  BY DEF Places, Ahead
<1>2. /\ i \in Nat /\ i - 1 \in Nat /\ k \in Nat /\ k - 1 \in Nat
      /\ Count(S, i - 1) = Count(S, k - 1)
  BY <1>1, PlacesCounted DEF Ahead
<1>3. i \in S /\ k \in S
  BY <1>1 DEF At
<1> HIDE DEF S
<1>4. ASSUME NEW x \in S, NEW y \in S, x \in Nat, x - 1 \in Nat, y - 1 \in Nat, x < y
      PROVE  Count(S, x - 1) < Count(S, y - 1)
  <2>1. x - 1 < x /\ x <= y - 1
    BY <1>4
  <2>2. Count(S, x - 1) < Count(S, x)
    BY <1>4, <2>1, CountOrders
  <2>3. Count(S, x) <= Count(S, y - 1)
    BY <1>4, <2>1, CountOrders
  <2>4. Count(S, x - 1) \in Nat /\ Count(S, x) \in Nat /\ Count(S, y - 1) \in Nat
    BY <1>4, CountGrows
  <2> QED
    BY <2>2, <2>3, <2>4
<1>5. Count(S, i - 1) \in Nat
  BY <1>2, CountGrows
<1> QED
  BY <1>2, <1>3, <1>4, <1>5

LEMMA AheadGivesMore ==
  ASSUME NEW E \in Seq(Cand), NEW i \in DOMAIN E, NEW j \in DOMAIN E,
         E[j].source = E[i].source, j < i
  PROVE  PartIn(E, i) <= PartIn(E, j)
<1>1. RankIn(E, j) <= RankIn(E, i) /\ RankIn(E, i) \in Nat /\ RankIn(E, j) \in Nat \ {0}
  <2>1. i \in Nat /\ j \in Nat /\ j <= i
    OBVIOUS
  <2>2. RankIn(E, j) = Count(PlacesOf(E, E[i].source), j) /\ RankIn(E, i) = Count(PlacesOf(E, E[i].source), i)
    BY DEF RankIn
  <2> QED
    BY <2>1, <2>2, CountOrders, PartType
<1>2. Weight[E[i].source] \in Nat /\ Common \in Nat /\ K \in Nat
  BY CandAt, FusionAssumption
<1>3. PICK x \in Nat : x = Weight[E[i].source] * Common
  BY <1>2
<1>4. PICK d \in Nat \ {0} : d = K + RankIn(E, j)
  BY <1>1, <1>2
<1>5. PICK e \in Nat : e = K + RankIn(E, i)
  BY <1>1, <1>2
<1>6. d <= e
  BY <1>1, <1>2, <1>4, <1>5
<1>7. x \div e <= x \div d
  BY <1>6, Divides
<1> QED
  BY <1>3, <1>4, <1>5, <1>7 DEF PartIn

LEMMA DominatesScores ==
  ASSUME FuseInv, bucket = <<>>, NEW a \in Row, NEW b \in Row, Dominates(a, b)
  PROVE  score[b] <= score[a]
<1>1. PICK E : E = Everything
  OBVIOUS
<1>2. /\ E \in Seq(Cand)
      /\ Places(a) \in SUBSET DOMAIN E /\ score[a] = SumOf(E, Places(a))
      /\ Places(b) \in SUBSET DOMAIN E /\ score[b] = SumOf(E, Places(b))
  BY <1>1, AllRead
<1> DEFINE D == Places(b)
           C == Places(a)
           h == [i \in D |-> CHOOSE j \in C : Ahead(a, b, i, j)]
           f == [i \in D |-> PartIn(E, i)]
           g == [j \in C |-> PartIn(E, j)]
<1>3. IsFiniteSet(D) /\ IsFiniteSet(C)
  <2>1. DOMAIN E = 1..Len(E) /\ Len(E) \in Nat
    BY <1>2
  <2>2. IsFiniteSet(DOMAIN E)
    BY <2>1, FS_Interval
  <2> QED
    BY <1>2, <2>2, FS_Subset
<1>4. f \in [D -> Nat] /\ g \in [C -> Nat]
  BY <1>2, PartType
<1>5. ASSUME NEW i \in D PROVE h[i] \in C /\ Ahead(a, b, i, h[i])
  <2>1. \E j \in C : Ahead(a, b, i, j)
    BY <1>1, <1>2, PlacesAhead
  <2> QED
    BY <2>1
<1>6. (\A i \in D : f[i] = PartIn(E, i)) /\ (\A j \in C : g[j] = PartIn(E, j))
  OBVIOUS
<1>7. SumFunction(f) = score[b] /\ SumFunction(g) = score[a]
  BY <1>2 DEF SumOf
<1> HIDE DEF h, f, g, D, C
<1>8. SendsTo(h, D, f, C, g)
  <2>1. ASSUME NEW i \in D PROVE h[i] \in C /\ f[i] <= g[h[i]]
    <3>1. h[i] \in C /\ Ahead(a, b, i, h[i])
      BY <1>5
    <3>2. i \in DOMAIN E /\ h[i] \in DOMAIN E /\ E[h[i]].source = E[i].source /\ h[i] < i
      BY <1>1, <1>2, <3>1 DEF Ahead, C, D
    <3>3. PartIn(E, i) <= PartIn(E, h[i])
      BY <1>2, <3>2, AheadGivesMore
    <3> QED
      BY <1>6, <3>1, <3>3
  <2>2. ASSUME NEW i \in D, NEW k \in D, h[i] = h[k] PROVE i = k
    <3>1. Ahead(a, b, i, h[i]) /\ Ahead(a, b, k, h[i])
      BY <1>5, <2>2
    <3> QED
      BY <1>1, <1>2, <3>1, OwnPlaces DEF D
  <2> QED
    BY <2>1, <2>2 DEF SendsTo
<1>9. SumFunction(f) <= SumFunction(g)
  BY <1>3, <1>4, <1>8, SumInjects
<1> QED
  BY <1>7, <1>9

LEMMA DominatesIsBefore ==
  ASSUME FuseInv, bucket = <<>>, NEW a \in Row, NEW b \in Found, Dominates(a, b),
         a \in Memories <=> b \in Memories
  PROVE  a \in Found /\ Before(a, b)
<1>1. PICK E : E = Everything
  OBVIOUS
<1>2. /\ E \in Seq(Cand) /\ b \in Row /\ score \in [Row -> Nat]
      /\ \A r : r \in Found <=> r \in Row /\ \E i \in DOMAIN E : E[i].row = r
  BY <1>1, FoundRows
<1>3. PICK l \in DOMAIN E : E[l].row = b
  BY <1>2
<1>4. ASSUME NEW i \in DOMAIN E, E[i].row = b
      PROVE  \E j \in DOMAIN E : E[j].row = a /\ E[j].source = E[i].source /\ j < i
  <2>1. i \in Places(b)
    BY <1>1, <1>4 DEF Places
  <2>2. PICK j \in Places(a) : Ahead(a, b, i, j)
    BY <1>1, <1>2, <2>1, PlacesAhead
  <2> QED
    BY <1>1, <2>2 DEF Ahead, Places
<1>5. a \in Found
  BY <1>2, <1>3, <1>4
<1>6. FirstPlace(a) < FirstPlace(b)
  <2>1. PICK R : R = FlattenSeq(GroupBySource(E))
    OBVIOUS
  <2>2. First(R, a) < First(R, b)
    BY <1>2, <1>3, <1>4, <2>1, FirstOfTwo
  <2>3. FirstPlace(a) = First(R, a) /\ FirstPlace(b) = First(R, b)
    BY <1>1, <2>1 DEF FirstPlace, First, Everything
  <2> QED
    BY <2>2, <2>3
<1>7. score[b] <= score[a] /\ score[a] \in Nat /\ score[b] \in Nat
  BY <1>2, DominatesScores
<1> QED
  BY <1>5, <1>6, <1>7 DEF Before

----------------------------------------------------------------------------
\* The whole answer.

\* The lines of one kind, in the order of the fused list.
KindPlaces(isMemory) == {i \in DOMAIN order : (order[i] \in Memories) = isMemory}

LEMMA OfKindType ==
  ASSUME order \in Seq(Row), NEW m \in BOOLEAN
  PROVE  /\ OfKind(m) \in Seq(Item)
         /\ \A i \in KindPlaces(m) : /\ Count(KindPlaces(m), i) \in DOMAIN OfKind(m)
                                     /\ OfKind(m)[Count(KindPlaces(m), i)] = Content[order[i]]
         /\ \A k \in DOMAIN OfKind(m) : \E i \in KindPlaces(m) : k = Count(KindPlaces(m), i)
<1> DEFINE S == KindPlaces(m)
           rows == Select(order, S)
<1>1. S \in SUBSET DOMAIN order
  BY DEF KindPlaces
<1>2. OfKind(m) = [i \in DOMAIN rows |-> Content[rows[i]]]
  BY DEF OfKind, KindPlaces
<1> HIDE DEF S
<1>3. /\ rows \in Seq(Row)
      /\ \A i \in S : Count(S, i) \in DOMAIN rows /\ rows[Count(S, i)] = order[i]
      /\ \A k \in DOMAIN rows : \E i \in S : k = Count(S, i)
  BY <1>1, Selects
<1> HIDE DEF rows
<1>4. DOMAIN rows = 1..Len(rows) /\ Len(rows) \in Nat /\ \A k \in DOMAIN rows : Content[rows[k]] \in Item
  <2>1. DOMAIN rows = 1..Len(rows) /\ Len(rows) \in Nat /\ \A k \in DOMAIN rows : rows[k] \in Row
    BY <1>3
  <2> QED
    BY <2>1, AnswerAssumption
<1>5. OfKind(m) \in Seq(Item)
  BY <1>2, <1>4
<1>6. DOMAIN OfKind(m) = DOMAIN rows /\ \A k \in DOMAIN rows : OfKind(m)[k] = Content[rows[k]]
  BY <1>2
<1> QED
  BY <1>3, <1>5, <1>6 DEF S

\* Until the fused list is handed over the assembler has not begun; afterwards it has
\* the rows found, in their order, and fusion is over.
Handing ==
    /\ FuseInv /\ Ordering
    /\ ~handed => Empty
    /\ handed => bucket = <<>> /\ InOrder /\ ranked[2] = OfKind(TRUE) /\ ranked[3] = OfKind(FALSE)

LEMMA InitHanding == AnswerInit => Handing
<1> SUFFICES ASSUME AnswerInit PROVE Handing
  OBVIOUS
<1>1. FuseInv
  BY InitFuse DEF AnswerInit
<1>2. order = <<>>
  BY DEF AnswerInit, FusionInit
<1> QED
  BY <1>1, <1>2 DEF AnswerInit, Handing, Ordering

\* What an answer step does to fusion and to the assembler.
LEMMA AnswerSteps ==
  ASSUME [AnswerNext]_answerVars
  PROVE  /\ [FusionNext]_fusionVars
         /\ \/ [Next]_vars /\ (FuseStep \/ UNCHANGED fusionVars) /\ handed' = handed
               /\ (FuseStep \/ ~handed => UNCHANGED vars)
            \/ HandOver
BY DEF AnswerNext, FuseStep, HandOver, AssembleStep, answerVars

LEMMA AllInOrder ==
  ASSUME FuseInv, Ordering, bucket = <<>>, Len(order) = Cardinality(Found)
  PROVE  InOrder
<1>1. CASE order = <<>>
  BY <1>1 DEF InOrder
<1> QED
  BY <1>1 DEF Ordering

LEMMA StepHanding ==
  ASSUME Handing, [AnswerNext]_answerVars
  PROVE  Handing'
<1>1. FuseInv' /\ Ordering'
  BY AnswerSteps, StepFuse, StepOrdering DEF Handing
<1>2. CASE HandOver
  <2>1. InOrder /\ bucket = <<>>
    BY <1>2, AllInOrder DEF HandOver, Handing
  <2>2. UNCHANGED fusionVars /\ handed' = TRUE
    BY <1>2 DEF HandOver
  <2>3. InOrder' /\ bucket' = <<>> /\ OfKind(TRUE)' = OfKind(TRUE) /\ OfKind(FALSE)' = OfKind(FALSE)
    <3>1. Found' = Found /\ Earlier' = Earlier
      BY <2>2 DEF fusionVars, Found, Earlier, Before, FirstPlace
    <3> QED
      BY <2>1, <2>2, <3>1 DEF fusionVars, InOrder, OfKind
  <2>4. ranked'[2] = OfKind(TRUE) /\ ranked'[3] = OfKind(FALSE)
    BY <1>2 DEF HandOver
  <2> QED
    BY <1>1, <2>2, <2>3, <2>4 DEF Handing
<1>3. CASE FuseStep
  <2>1. UNCHANGED <<vars, handed>> /\ FusionNext
    BY <1>3 DEF FuseStep
  <2>2. ASSUME ~handed PROVE Empty'
    <3>1. Empty
      BY <2>2 DEF Handing
    <3> QED
      BY <2>1, <3>1 DEF Empty, vars, arguments, text, CapOf, Share
  <2>3. ASSUME handed
        PROVE  bucket' = <<>> /\ InOrder' /\ ranked'[2] = OfKind(TRUE)' /\ ranked'[3] = OfKind(FALSE)'
    <3>1. bucket = <<>> /\ InOrder /\ ranked[2] = OfKind(TRUE) /\ ranked[3] = OfKind(FALSE)
      BY <2>3 DEF Handing
    <3>2. Sort
      BY <2>1, <3>1 DEF FusionNext, Fuse
    <3>3. InOrder' /\ bucket' = <<>> /\ Found' = Found /\ order = <<>>
      BY <3>1, <3>2, Sorting DEF Handing, Sort, Found
    <3>4. order' \in Seq(Row) /\ Len(order') = Len(order)
      BY <3>1, <3>3 DEF InOrder
    <3>5. order' = order
      BY <3>3, <3>4
    <3>6. OfKind(TRUE)' = OfKind(TRUE) /\ OfKind(FALSE)' = OfKind(FALSE)
      BY <3>5 DEF OfKind
    <3> QED
      BY <2>1, <3>1, <3>3, <3>6 DEF vars, arguments
  <2> QED
    BY <1>1, <2>1, <2>2, <2>3 DEF Handing
<1>4. CASE UNCHANGED fusionVars /\ handed' = handed /\ UNCHANGED arguments /\ (~handed => UNCHANGED vars)
  <2>1. bucket' = bucket /\ InOrder' = InOrder /\ OfKind(TRUE)' = OfKind(TRUE) /\ OfKind(FALSE)' = OfKind(FALSE)
    <3>1. Found' = Found /\ Earlier' = Earlier
      BY <1>4 DEF fusionVars, Found, Earlier, Before, FirstPlace
    <3> QED
      BY <1>4, <3>1 DEF fusionVars, InOrder, OfKind
  <2>2. ~handed => Empty'
    BY <1>4 DEF Handing, Empty, vars, arguments, text, CapOf, Share
  <2> QED
    BY <1>1, <1>4, <2>1, <2>2 DEF Handing, arguments
<1>5. [Next]_vars => UNCHANGED arguments
  BY DEF Next, Skip, AddLine, LeaveTier, vars
<1> QED
  BY <1>2, <1>3, <1>4, <1>5, AnswerSteps

\* Whatever the retrievers return, in whatever order: when all is read, a row's score is
\* the sum of its shares.
THEOREM FusionAddsUp == AnswerSpec => []ScoresAreSums
BY InitHanding, StepHanding, FusedScores, PTL DEF AnswerSpec, Handing

\* And what is kept of it comes from its strongest source, and there from the first run.
THEOREM FusionKeepsTheStrongest == AnswerSpec => []KeepsTheStrongest
BY InitHanding, StepHanding, FusedKeeps, PTL DEF AnswerSpec, Handing

----------------------------------------------------------------------------
\* The assembler, when its lists come from fusion.

LEMMA ThreeLists ==
  ASSUME NEW x \in Seq(Item), NEW y \in Seq(Item), NEW z \in Seq(Item)
  PROVE  <<x, y, z>> \in [1..3 -> Seq(Item)]
OBVIOUS

LEMMA GatesType ==
  ASSUME NEW given
  PROVE  Gates(given) \subseteq GateState
<1>1. \A p, o, m, t, e \in BOOLEAN : DecideGate(p, o, m, t, e) \in GateState
  BY DEF DecideGate, GateState
<1> SUFFICES ASSUME NEW g \in Gates(given) PROVE g \in GateState
  OBVIOUS
<1>2. PICK p \in BOOLEAN, o \in BOOLEAN, m \in BOOLEAN, t \in BOOLEAN, e \in BOOLEAN :
         g = DecideGate(p, o /\ p, m /\ given[2] # <<>>, t /\ given[3] # <<>>, e)
  BY DEF Gates
<1>3. /\ (o /\ p) \in BOOLEAN
      /\ (m /\ given[2] # <<>>) \in BOOLEAN /\ (t /\ given[3] # <<>>) \in BOOLEAN
  OBVIOUS
<1> QED
  BY <1>1, <1>2, <1>3

LEMMA HandsItems ==
  ASSUME Handing, Ledger, HandOver
  PROVE  /\ arguments' \in Arguments
         /\ Empty /\ UNCHANGED <<text, budget>>
<1>1. ranked \in [1..3 -> Seq(Item)] /\ budget \in Nat \ {0} /\ encoded \in BOOLEAN
  BY DEF Ledger, arguments, Arguments
<1>2. InOrder
  BY AllInOrder DEF HandOver, Handing
<1>3. OfKind(TRUE) \in Seq(Item) /\ OfKind(FALSE) \in Seq(Item)
  BY <1>2, OfKindType DEF InOrder
<1>4. ranked' = <<ranked[1], OfKind(TRUE), OfKind(FALSE)>> /\ gate' \in Gates(ranked')
  BY DEF HandOver
<1>5. ranked' \in [1..3 -> Seq(Item)]
  <2>1. ranked[1] \in Seq(Item)
    BY <1>1
  <2> QED
    BY <1>3, <1>4, <2>1, ThreeLists
<1>6. gate' \in GateState
  <2>1. PICK given : given = ranked'
    OBVIOUS
  <2>2. gate' \in Gates(given)
    BY <1>4, <2>1
  <2> QED
    BY <2>2, GatesType
<1>7. Empty /\ UNCHANGED <<text, budget, encoded>>
  BY DEF HandOver, Handing
<1> QED
  BY <1>1, <1>5, <1>6, <1>7 DEF arguments, Arguments

LEMMA AnswerInitLedger == AnswerInit => Ledger
<1> SUFFICES ASSUME AnswerInit PROVE Ledger
  OBVIOUS
<1>1. PICK q \in Questions : ranked = <<q.facts, <<>>, <<>>>> /\ budget = q.budget
  BY DEF AnswerInit
<1>2. q.facts \in Seq(Item) /\ q.budget \in Nat \ {0}
  BY AnswerAssumption, AssemblerAssumption
<1>3. ranked \in [1..3 -> Seq(Item)]
  <2>1. <<>> \in Seq(Item)
    OBVIOUS
  <2> QED
    BY <1>1, <1>2, <2>1, ThreeLists
<1>4. gate \in GateState /\ encoded \in BOOLEAN
  BY DEF AnswerInit, DecideGate, GateState
<1>5. arguments \in Arguments
  BY <1>1, <1>2, <1>3, <1>4 DEF arguments, Arguments
<1>6. cap \in Nat /\ cap <= budget /\ budget \in Nat
  BY <1>1, <1>2, CapBounded DEF AnswerInit, Empty
<1> QED
  BY <1>5, <1>6 DEF AnswerInit, Empty, Ledger

\* What the assembler's own steps keep, and is true of an empty context whatever its
\* arguments, is kept by all.
AnswerInv == Ledger /\ Apart /\ Shares /\ Cites

LEMMA EmptyInv == Empty /\ budget \in Nat => Apart /\ Shares /\ Cites
<1> SUFFICES ASSUME Empty, budget \in Nat PROVE Apart /\ Shares /\ Cites
  OBVIOUS
<1>1. \A t \in 1..3 : SectionTokens(t) = 0 /\ shown[t] = <<>>
  BY DEF Empty, SectionTokens
<1>2. tier = 1 /\ cap <= (2 * budget) \div 5 /\ used = 0 /\ citations = <<>>
  BY DEF Empty, CapOf, Share, Smaller
<1>3. Shares
  BY <1>1, <1>2 DEF Shares, TierShares
<1>4. Sourced = {}
  BY <1>1 DEF Sourced, LinesShown
<1>5. Cites
  BY <1>1, <1>2, <1>4, FS_EmptySet DEF Cites, CitationsFollowLines
<1>6. Apart
  BY <1>1 DEF Apart
<1> QED
  BY <1>3, <1>5, <1>6

LEMMA InitAnswerInv == AnswerInit => AnswerInv
<1> SUFFICES ASSUME AnswerInit PROVE AnswerInv
  OBVIOUS
<1>1. Ledger /\ Empty
  BY AnswerInitLedger DEF AnswerInit
<1> QED
  BY <1>1, EmptyInv DEF AnswerInv, Ledger, arguments, Arguments

LEMMA StepAnswerInv ==
  ASSUME Handing, AnswerInv, [AnswerNext]_answerVars
  PROVE  AnswerInv'
<1>1. CASE HandOver
  <2>1. /\ arguments' \in Arguments
        /\ Empty /\ UNCHANGED <<text, budget>> /\ budget \in Nat
    BY <1>1, HandsItems DEF AnswerInv, Ledger, arguments, Arguments
  <2>2. Empty'
    BY <2>1 DEF Empty, text, CapOf, Share
  <2>3. Ledger'
    <3>1. size = 0 /\ used = 0
      BY <2>1 DEF Empty
    <3> QED
      BY <2>1, <2>2, <3>1 DEF AnswerInv, Ledger, Empty, text, arguments, Arguments
  <2>4. Apart' /\ Shares' /\ Cites'
    <3>1. (budget \in Nat)'
      BY <2>1
    <3>2. Empty' /\ (budget \in Nat)' => Apart' /\ Shares' /\ Cites'
      BY EmptyInv, PTL
    <3> QED
      BY <2>2, <3>1, <3>2
  <2> QED
    BY <2>3, <2>4 DEF AnswerInv
<1>2. CASE [Next]_vars
  BY <1>2, StepLedger, StepApart, StepShares, StepCites DEF AnswerInv
<1> QED
  BY <1>1, <1>2, AnswerSteps

\* A recall from the retrievers to the context keeps what Assembler promises: whatever
\* they return, the answer fits into max_tokens, its tiers keep their shares, its
\* citations follow its lines, and no value is told twice.
THEOREM AnswerFits == AnswerSpec => [](WithinBudget /\ TierShares /\ CitationsFollowLines /\ NoValueTwice)
<1>1. AnswerInv => WithinBudget /\ TierShares /\ CitationsFollowLines /\ NoValueTwice
  BY LedgerBounds DEF AnswerInv, Shares, Cites, Apart, Told, NoValueTwice
<1> QED
  BY <1>1, InitHanding, StepHanding, InitAnswerInv, StepAnswerInv, PTL DEF AnswerSpec

----------------------------------------------------------------------------
\* A tier is cut at its end: up to some place of its ranking every line was told or
\* passed over as a known fact, and nothing from behind it was told.

Passed(t, x) == t = 2 /\ gate.tier1 /\ Told(x)

ToldUpTo(t, c) ==
    /\ \A p \in 1..c : Passed(t, ranked[t][p]) \/ \E i \in DOMAIN shown[t] : shown[t][i] = ranked[t][p]
    /\ \A i \in DOMAIN shown[t] : \E p \in 1..c : shown[t][i] = ranked[t][p]

Cut(t, c) ==
    /\ c \in 0..Len(ranked[t])
    /\ tier = t => c = next - 1
    /\ tier < t => c = 0
    /\ ToldUpTo(t, c)

Cuts == \A t \in 1..3 : \E c \in Nat : Cut(t, c)

LEMMA EmptyCuts ==
  Empty /\ arguments \in Arguments => Cuts
<1> SUFFICES ASSUME Empty, arguments \in Arguments,
                    NEW t \in 1..3
             PROVE  Cut(t, 0)
  BY DEF Cuts
<1>1. ranked[t] \in Seq(Item) /\ shown[t] = <<>> /\ tier = 1 /\ next = 1
  BY DEF Empty, arguments, Arguments
<1>2. ToldUpTo(t, 0)
  BY <1>1 DEF ToldUpTo
<1>3. 0 \in 0..Len(ranked[t])
  BY <1>1
<1> QED
  BY <1>1, <1>2, <1>3 DEF Cut

LEMMA StepCuts ==
  ASSUME Ledger, Cuts, [Next]_vars
  PROVE  Cuts'
<1>1. /\ tier \in 1..4 /\ next \in Nat \ {0} /\ shown \in [1..3 -> Seq(Item)]
      /\ ranked \in [1..3 -> Seq(Item)]
  BY DEF Ledger, arguments, Arguments
<1>2. UNCHANGED <<ranked, gate>>
  BY DEF Next, Skip, AddLine, LeaveTier, vars, arguments
<1>3. \A t, x : Passed(t, x)' <=> Passed(t, x)
  BY <1>2 DEF Passed, Told
<1> SUFFICES ASSUME NEW t \in 1..3 PROVE \E c \in Nat : Cut(t, c)'
  BY DEF Cuts
<1>4. PICK c \in Nat : Cut(t, c)
  BY DEF Cuts
<1>5. /\ c \in 0..Len(ranked[t]) /\ (tier = t => c = next - 1) /\ (tier < t => c = 0)
      /\ \A p \in 1..c : Passed(t, ranked[t][p]) \/ \E i \in DOMAIN shown[t] : shown[t][i] = ranked[t][p]
      /\ \A i \in DOMAIN shown[t] : \E p \in 1..c : shown[t][i] = ranked[t][p]
  BY <1>4 DEF Cut, ToldUpTo
<1>6. CASE shown'[t] = shown[t] /\ (tier' = t => c = next' - 1) /\ (tier' < t => c = 0)
  BY <1>2, <1>3, <1>5, <1>6 DEF Cut, ToldUpTo
<1>7. CASE UNCHANGED vars
  BY <1>5, <1>6, <1>7 DEF vars, text
<1>8. CASE LeaveTier
  <2>1. shown' = shown /\ tier' = tier + 1 /\ next' = 1 /\ tier \in 1..3
    BY <1>1, <1>8 DEF LeaveTier
  <2>2. (tier' = t => c = next' - 1) /\ (tier' < t => c = 0)
    BY <1>5, <2>1
  <2> QED
    BY <1>6, <2>1, <2>2
<1>9. CASE (Skip \/ AddLine) /\ tier # t
  <2>1. shown'[t] = shown[t] /\ tier' = tier
    BY <1>1, <1>9 DEF Skip, AddLine
  <2> QED
    BY <1>5, <1>6, <1>9, <2>1
<1>10. CASE (Skip \/ AddLine) /\ tier = t
  <2>1. /\ c = next - 1 /\ next' = next + 1 /\ tier' = tier
        /\ next <= Len(ranked[t]) /\ Line = ranked[t][next]
    BY <1>5, <1>10 DEF Skip, AddLine, Pending, Line
  <2>2. PICK d \in Nat : d = c + 1
    OBVIOUS
  <2>3. /\ d = next /\ d = next' - 1 /\ d \in 0..Len(ranked[t])
        /\ \A p \in 1..d : p \in 1..c \/ p = next
        /\ \A p \in 1..c : p \in 1..d
        /\ next \in 1..d
    BY <1>1, <2>1, <2>2
  <2>4. CASE Skip
    <3>1. shown' = shown /\ Passed(t, ranked[t][next])
      BY <1>10, <2>1, <2>4 DEF Skip, Known, Passed, Told
    <3>2. ToldUpTo(t, d)'
      <4>1. \A p \in 1..d : Passed(t, ranked[t][p]) \/ \E i \in DOMAIN shown[t] : shown[t][i] = ranked[t][p]
        BY <1>5, <2>3, <3>1
      <4>2. \A i \in DOMAIN shown[t] : \E p \in 1..d : shown[t][i] = ranked[t][p]
        BY <1>5, <2>3
      <4> QED
        BY <1>2, <1>3, <3>1, <4>1, <4>2 DEF ToldUpTo
    <3> QED
      BY <1>2, <1>10, <2>1, <2>3, <3>2 DEF Cut
  <2>5. CASE AddLine
    <3>1. Line \in Item
      BY <2>5, LineType DEF AddLine
    <3> DEFINE n == Len(shown[t]) + 1
    <3>2. shown'[t] = Append(shown[t], Line)
      BY <1>1, <1>10, <2>5 DEF AddLine
    <3>3. /\ n \in DOMAIN shown'[t] /\ shown'[t][n] = ranked[t][next]
          /\ \A i \in DOMAIN shown[t] : i \in DOMAIN shown'[t] /\ shown'[t][i] = shown[t][i]
          /\ \A i \in DOMAIN shown'[t] : i \in DOMAIN shown[t] \/ i = n
      <4>1. shown[t] \in Seq(Item)
        BY <1>1
      <4> QED
        BY <2>1, <3>1, <3>2, <4>1
    <3> HIDE DEF n
    <3>4. ToldUpTo(t, d)'
      <4>1. \A p \in 1..d : Passed(t, ranked[t][p]) \/ \E i \in DOMAIN shown'[t] : shown'[t][i] = ranked[t][p]
        BY <1>5, <2>3, <3>3
      <4>2. \A i \in DOMAIN shown'[t] : \E p \in 1..d : shown'[t][i] = ranked[t][p]
        BY <1>5, <2>3, <3>3
      <4> QED
        BY <1>2, <1>3, <4>1, <4>2 DEF ToldUpTo
    <3> QED
      BY <1>2, <1>10, <2>1, <2>3, <3>4 DEF Cut
  <2> QED
    BY <1>10, <2>4, <2>5
<1> QED
  BY <1>7, <1>8, <1>9, <1>10 DEF Next

LEMMA StepAnswerCuts ==
  ASSUME Handing, Ledger, Cuts, [AnswerNext]_answerVars
  PROVE  Cuts'
<1>1. CASE HandOver
  <2>1. Empty' /\ (arguments \in Arguments)'
    BY <1>1, HandsItems DEF Empty, text, CapOf, Share
  <2>2. Empty' /\ (arguments \in Arguments)' => Cuts'
    BY EmptyCuts, PTL
  <2> QED
    BY <2>1, <2>2
<1>2. CASE [Next]_vars
  BY <1>2, StepCuts
<1> QED
  BY <1>1, <1>2, AnswerSteps

\* Where the two meet: of two rows of a kind the one that is before the other has the
\* lower place in its tier.
LEMMA TiersInOrder ==
  ASSUME FuseInv, bucket = <<>>, InOrder,
         NEW m \in BOOLEAN, NEW a \in Found, NEW b \in Found, Before(a, b),
         (a \in Memories) = m, (b \in Memories) = m,
         NEW k \in DOMAIN OfKind(m), OfKind(m)[k].id = Content[b].id
  PROVE  \E p \in 1..k : OfKind(m)[p] = Content[a]
<1> DEFINE S == KindPlaces(m)
<1>1. /\ order \in Seq(Row) /\ Len(order) = Cardinality(Found)
      /\ \A n \in DOMAIN order : order[n] \in Found /\ Cardinality(Earlier[order[n]]) = n - 1
  BY DEF InOrder
<1>2. /\ \A i \in S : Count(S, i) \in DOMAIN OfKind(m) /\ OfKind(m)[Count(S, i)] = Content[order[i]]
      /\ \A j \in DOMAIN OfKind(m) : \E i \in S : j = Count(S, i)
      /\ OfKind(m) \in Seq(Item)
  BY <1>1, OfKindType
<1>3. IsFiniteSet(Found) /\ Ordered(Earlier, Found) /\ Cardinality(Found) \in Nat
  BY BeforeOrders, FS_CardinalityType
<1>4. /\ \A x \in Found : Cardinality(Earlier[x]) \in 0..(Cardinality(Found) - 1)
      /\ \A x, y \in Found : x \in Earlier[y] => Cardinality(Earlier[x]) < Cardinality(Earlier[y])
      /\ \A x, y \in Found : Cardinality(Earlier[x]) = Cardinality(Earlier[y]) => x = y
  BY <1>3, PlacesTaken
<1>5. PICK i \in S : k = Count(S, i)
  BY <1>2
<1>6. i \in DOMAIN order /\ i \in Nat /\ (order[i] \in Memories) = m
  BY <1>1 DEF KindPlaces
<1>7. order[i] = b
  <2>1. Content[order[i]].id = Content[b].id
    BY <1>2, <1>5
  <2>2. order[i] \in Row /\ b \in Row
    BY <1>1, <1>6 DEF Found
  <2> QED
    BY <1>6, <2>1, <2>2, AnswerAssumption
<1>8. PICK n : n = Cardinality(Earlier[a]) + 1
  OBVIOUS
<1>9. n \in DOMAIN order /\ n \in Nat /\ n - 1 = Cardinality(Earlier[a])
  <2>1. Cardinality(Earlier[a]) \in 0..(Cardinality(Found) - 1)
    BY <1>4
  <2>2. DOMAIN order = 1..Cardinality(Found)
    BY <1>1
  <2> QED
    BY <1>3, <1>8, <2>1, <2>2
<1>10. order[n] = a
  BY <1>1, <1>4, <1>9
<1>11. n < i
  <2>1. a \in Earlier[b]
    BY DEF Earlier
  <2>2. Cardinality(Earlier[a]) < Cardinality(Earlier[b])
    BY <1>4, <2>1
  <2>3. Cardinality(Earlier[b]) = i - 1
    BY <1>1, <1>6, <1>7
  <2> QED
    BY <1>6, <1>9, <2>2, <2>3
<1>12. n \in S
  BY <1>9, <1>10 DEF KindPlaces
<1> HIDE DEF S
<1>13. Count(S, n) < Count(S, i) /\ Count(S, n) \in DOMAIN OfKind(m) /\ OfKind(m)[Count(S, n)] = Content[a]
  BY <1>2, <1>6, <1>9, <1>10, <1>11, <1>12, CountOrders
<1>14. DOMAIN OfKind(m) = 1..Len(OfKind(m)) /\ Len(OfKind(m)) \in Nat
  BY <1>2
<1>15. Count(S, n) \in 1..k
  BY <1>5, <1>13, <1>14
<1> QED
  BY <1>13, <1>15

LEMMA NothingWorse ==
  ASSUME Handing, Ledger, Cuts
  PROVE  NothingWorseIsTold
<1> SUFFICES ASSUME tier = 4, NEW a \in Row, NEW b \in Row, a \in Memories <=> b \in Memories,
                    NEW t, t = IF b \in Memories THEN 2 ELSE 3,
                    Tells(t, b), ~Tells(t, a), t = 2 => ~KnownFact(a), Dominates(a, b)
             PROVE  FALSE
  BY DEF NothingWorseIsTold
<1>1. handed
  BY DEF Handing, Empty
<1>2. FuseInv /\ bucket = <<>> /\ InOrder /\ ranked[2] = OfKind(TRUE) /\ ranked[3] = OfKind(FALSE)
  BY <1>1 DEF Handing
<1>3. \E m \in BOOLEAN : /\ (a \in Memories) = m /\ (b \in Memories) = m
                          /\ t \in 1..3 /\ ranked[t] = OfKind(m)
  <2>1. CASE b \in Memories
    <3>1. t \in 1..3 /\ ranked[t] = OfKind(TRUE)
      <4>1. t = 2
        BY <2>1
      <4>2. t \in 1..3
        BY <4>1
      <4>3. ranked[2] = OfKind(TRUE)
        BY <1>2
      <4>4. ranked[t] = ranked[2]
        BY <4>1
      <4> QED
        BY <4>2, <4>3, <4>4
    <3>2. (a \in Memories) = TRUE
      BY <2>1
    <3>3. (b \in Memories) = TRUE
      BY <2>1
    <3> WITNESS TRUE \in BOOLEAN
    <3> QED
      BY <3>1, <3>2, <3>3
  <2>2. CASE b \notin Memories
    <3>1. t \in 1..3 /\ ranked[t] = OfKind(FALSE)
      <4>1. t = 3
        BY <2>2
      <4>2. t \in 1..3
        BY <4>1
      <4>3. ranked[3] = OfKind(FALSE)
        BY <1>2
      <4>4. ranked[t] = ranked[3]
        BY <4>1
      <4> QED
        BY <4>2, <4>3, <4>4
    <3>2. (a \in Memories) = FALSE
      BY <2>2
    <3>3. (b \in Memories) = FALSE
      BY <2>2
    <3> WITNESS FALSE \in BOOLEAN
    <3> QED
      BY <3>1, <3>2, <3>3
  <2> QED
    BY <2>1, <2>2
<1>4. PICK m \in BOOLEAN : /\ (a \in Memories) = m /\ (b \in Memories) = m
                           /\ t \in 1..3 /\ ranked[t] = OfKind(m)
  BY <1>3
<1>5. PICK c \in Nat : Cut(t, c)
  BY <1>4 DEF Cuts
<1>6. PICK i \in DOMAIN shown[t] : shown[t][i].id = Content[b].id
  BY DEF Tells
<1>7. PICK k \in 1..c : shown[t][i] = ranked[t][k]
  BY <1>5, <1>6 DEF Cut, ToldUpTo
<1>8. c \in 0..Len(ranked[t]) /\ ranked[t] \in Seq(Item)
  BY <1>4, <1>5 DEF Cut, Ledger, arguments, Arguments
<1>9. k \in DOMAIN OfKind(m) /\ OfKind(m)[k].id = Content[b].id
  BY <1>4, <1>6, <1>7, <1>8
<1>10. b \in Found
  <2>1. order \in Seq(Row) /\ \A n \in DOMAIN order : order[n] \in Found
    BY <1>2 DEF InOrder
  <2>2. PICK n \in KindPlaces(m) : k = Count(KindPlaces(m), n)
    BY <1>9, <2>1, OfKindType
  <2>3. OfKind(m)[k] = Content[order[n]]
    BY <2>1, <2>2, OfKindType
  <2>4. n \in DOMAIN order /\ (order[n] \in Memories) = m /\ order[n] \in Found
    BY <2>1, <2>2 DEF KindPlaces
  <2>5. order[n] = b
    BY <1>4, <1>9, <2>3, <2>4, AnswerAssumption DEF Found
  <2> QED
    BY <2>4, <2>5
<1>11. a \in Found /\ Before(a, b)
  BY <1>2, <1>10, DominatesIsBefore
<1>12. PICK p \in 1..k : OfKind(m)[p] = Content[a]
  BY <1>2, <1>4, <1>9, <1>10, <1>11, TiersInOrder
<1>13. p \in 1..c /\ ranked[t][p] = Content[a]
  BY <1>4, <1>12
<1>14. Passed(t, Content[a]) \/ \E j \in DOMAIN shown[t] : shown[t][j] = Content[a]
  BY <1>5, <1>13 DEF Cut, ToldUpTo
<1>15. CASE Passed(t, Content[a])
  BY <1>15 DEF Passed, Told, KnownFact
<1>16. CASE \E j \in DOMAIN shown[t] : shown[t][j] = Content[a]
  BY <1>16 DEF Tells
<1> QED
  BY <1>14, <1>15, <1>16

\* From the retrievers to the context, for any lists, budget, facts and gate: no row is
\* told while another of its kind, which every retriever that found the first ranks
\* higher, is left out, unless that one's value is a known fact of tier 1.
THEOREM WorseIsNeverTold == AnswerSpec => []NothingWorseIsTold
<1>1. AnswerInit => Cuts
  BY AnswerInitLedger, EmptyCuts DEF AnswerInit, Ledger
<1> QED
  BY <1>1, InitHanding, StepHanding, InitAnswerInv, StepAnswerInv, StepAnswerCuts, NothingWorse, PTL
     DEF AnswerSpec, AnswerInv
=============================================================================
