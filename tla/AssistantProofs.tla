--------------------------- MODULE AssistantProofs --------------------------
(***************************************************************************)
(* What Assistant promises of grounded answers, of the daily quota and of  *)
(* the audit log, for any documents, questions, limits, pool and cap.      *)
(***************************************************************************)
EXTENDS Assistant, FiniteSetTheorems, WellFoundedInduction, TLAPS

(***************************************************************************)
(* The longest run of a set of dates.                                      *)
(***************************************************************************)
LEMMA GreatestNatural ==
    ASSUME NEW m \in Nat, NEW S \in SUBSET (0..m), S # {}
    PROVE  \E x \in S : \A y \in S : y <= x
  <1> DEFINE below == {m - x : x \in S}
  <1>1. below \in SUBSET Nat /\ below # {}
    <2>1. \A x \in S : m - x \in Nat
      OBVIOUS
    <2>2. PICK x : x \in S
      OBVIOUS
    <2>3. m - x \in below
      BY <2>2
    <2> QED
      BY <2>1, <2>3
  <1>2. IsWellFoundedOn(OpToRel(<, Nat), Nat)
    BY NatLessThanWellFounded
  <1>3. PICK z \in below : \A y \in below : ~(<<y, z>> \in OpToRel(<, Nat))
    BY <1>1, <1>2, WFMin
  <1>4. \A y \in below : ~(y < z)
    BY <1>1, <1>3 DEF OpToRel
  <1>5. PICK x \in S : z = m - x
    OBVIOUS
  <1>6. \A y \in S : ~(m - y < m - x)
    BY <1>4, <1>5
  <1> QED
    BY <1>6

Runs(days) == {n \in 1..MaxDay : \E d \in days : d..(d + n - 1) \subseteq days}

LEMMA RunIs ==
    ASSUME NEW days
    PROVE  /\ Run(days) \in 0..MaxDay
           /\ Run(days) = 0 \/ Run(days) \in Runs(days)
           /\ \A n \in Runs(days) : n <= Run(days)
  <1>1. MaxDay \in Nat /\ Runs(days) \subseteq 1..MaxDay
    BY AssistantAssumption DEF Runs
  <1>2. CASE Runs(days) = {}
    <2>1. Run(days) = 0
      BY <1>2 DEF Run, Runs
    <2> QED
      BY <1>1, <1>2, <2>1
  <1>3. CASE Runs(days) # {}
    <2>1. PICK x \in Runs(days) : \A y \in Runs(days) : y <= x
      <3>1. Runs(days) \in SUBSET (0..MaxDay)
        BY <1>1
      <3> QED
        BY <1>1, <1>3, <3>1, GreatestNatural
    <2>2. Run(days) = CHOOSE n \in Runs(days) : \A k \in Runs(days) : k <= n
      BY <1>3 DEF Run, Runs
    <2>3. Run(days) \in Runs(days) /\ \A y \in Runs(days) : y <= Run(days)
      BY <2>1, <2>2
    <2> QED
      BY <1>1, <2>3
  <1> QED
    BY <1>2, <1>3

\* The part of a run that a range cuts out is no longer than the run.
LEMMA CutRunIsShorter ==
    ASSUME NEW days, NEW range
    PROVE  Run(days \cap range) <= Run(days)
  <1>1. Runs(days \cap range) \subseteq Runs(days)
    BY DEF Runs
  <1>2. /\ Run(days \cap range) = 0 \/ Run(days \cap range) \in Runs(days)
        /\ Run(days) \in 0..MaxDay /\ \A n \in Runs(days) : n <= Run(days)
    BY <1>1, RunIs
  <1> QED
    BY <1>2, AssistantAssumption

LEMMA FactsOfHold ==
    ASSUME NEW days, NEW range
    PROVE  FactsOf(days, range) \in Facts /\ FactsOf(days, range).run <= FactsOf(days, range).whole
  <1>1. /\ Run(days \cap range) \in 0..MaxDay /\ Run(days) \in 0..MaxDay
        /\ Run(days \cap range) <= Run(days)
    BY RunIs, CutRunIsShorter
  <1> QED
    BY <1>1, AssistantAssumption DEF FactsOf, NoFacts, Facts

(***************************************************************************)
(* The invariant.                                                          *)
(***************************************************************************)
Statuses == {"none", "indexing", "ready", "failed", "deleted"}

\* What a search can find is ready, and stays ready until it is deleted.
LibraryInv ==
    /\ status \in [Docs -> Statuses]
    /\ index \subseteq Docs /\ \A d \in index : status[d] = "ready"
    /\ cited \in [Questions -> SUBSET Docs]
    /\ \A q \in Questions, d \in Docs : d \in cited[q] => status[d] \in {"ready", "deleted"}

\* A run inside the range is no longer than the owner's.
FactsHold == \A q \in Questions : facts[q].run <= facts[q].whole

\* A unit is consumed for a call that is still to be made.
PaidToCall == \A q \in paid : at[q] \in {"classify", "embed", "generate"}

\* The audit log is written at the end, and who is not authorized gets no further.
AuditedAtTheEnd ==
    \A q \in Questions : at[q] # "done" => audit[q] = {} /\ told[q] # "unauthorized"

QuestionsInv ==
    /\ TypeOK /\ IsFiniteSet(pool) /\ IsFiniteSet(paid)
    /\ FactsHold /\ PaidToCall /\ AuditedAtTheEnd
    /\ AnswersAreGrounded /\ CallsWithinCap /\ AuditTellsOutcome

AssistantInv == LibraryInv /\ QuestionsInv

LEMMA InitAssistantInv == AssistantInit => AssistantInv
  <1> SUFFICES ASSUME AssistantInit PROVE AssistantInv
    OBVIOUS
  <1> USE DEF AssistantInit, Init
  <1>1. LibraryInv
    BY DEF LibraryInv, Statuses
  <1>2. IsFiniteSet({}) /\ Cardinality({}) = 0
    BY FS_EmptySet
  <1>3. TypeOK
    BY <1>2, AssistantAssumption
    DEF TypeOK, Nodes, Kinds, Intents, Facts, NoFacts, Results
  <1>4. FactsHold /\ PaidToCall /\ AuditedAtTheEnd
    BY DEF FactsHold, PaidToCall, AuditedAtTheEnd, NoFacts
  <1>5. AnswersAreGrounded /\ CallsWithinCap /\ AuditTellsOutcome
    BY <1>2, AssistantAssumption DEF AnswersAreGrounded, CallsWithinCap, AuditTellsOutcome
  <1> QED
    BY <1>1, <1>2, <1>3, <1>4, <1>5 DEF AssistantInv, QuestionsInv

\* The quota pays for the calls: one made with a unit that was consumed for it, or none.
Spends(q) ==
    /\ used' = used
    /\ made' = made \/ (q \in paid /\ made' = made + 1)

LEMMA SpendsWithinCap ==
    ASSUME QuestionsInv, NEW q \in Questions, Spends(q), paid' = paid \ {q}
    PROVE  /\ CallsWithinCap' /\ used' \in 0..Cap /\ made' \in 0..Cap
           /\ paid' \subseteq Questions /\ IsFiniteSet(paid')
  <1>1. /\ IsFiniteSet(paid) /\ used \in 0..Cap /\ made \in 0..Cap /\ Cap \in Nat
        /\ made + Cardinality(paid) <= used /\ Cardinality(paid) \in Nat
    BY FS_CardinalityType, AssistantAssumption DEF QuestionsInv, TypeOK, CallsWithinCap
  <1>2. /\ IsFiniteSet(paid') /\ Cardinality(paid') \in Nat
        /\ Cardinality(paid') = IF q \in paid THEN Cardinality(paid) - 1 ELSE Cardinality(paid)
    BY <1>1, FS_RemoveElement, FS_CardinalityType
  <1>3. CallsWithinCap' /\ used' \in 0..Cap /\ made' \in 0..Cap
    BY <1>1, <1>2 DEF Spends, CallsWithinCap
  <1>4. paid' \subseteq Questions
    BY DEF QuestionsInv, TypeOK
  <1> QED
    BY <1>2, <1>3, <1>4

\* Handling ends with a result: nothing of what was read is kept.
LEMMA ResultKeeps ==
    ASSUME AssistantInv, NEW q \in Questions, NEW r \in Results \ {"unauthorized"}, at[q] # "done",
           Result(q, r), Spends(q)
    PROVE  AssistantInv'
  <1> USE DEF Result, Forget, docVars, settings
  <1>1. LibraryInv'
    BY DEF AssistantInv, LibraryInv
  <1>2. /\ CallsWithinCap' /\ used' \in 0..Cap /\ made' \in 0..Cap
        /\ paid' \subseteq Questions /\ IsFiniteSet(paid')
    BY SpendsWithinCap DEF AssistantInv
  <1>3. TypeOK'
    BY <1>2, AssistantAssumption DEF AssistantInv, QuestionsInv, TypeOK, Nodes, Intents, Facts, NoFacts
  <1>4. FactsHold' /\ PaidToCall' /\ AuditedAtTheEnd'
    BY DEF AssistantInv, QuestionsInv, TypeOK, FactsHold, PaidToCall, AuditedAtTheEnd, NoFacts
  <1>5. AnswersAreGrounded'
    BY DEF AssistantInv, QuestionsInv, TypeOK, AnswersAreGrounded, LibraryInv, Judging
  <1>6. AuditTellsOutcome'
    BY DEF AssistantInv, QuestionsInv, TypeOK, AuditTellsOutcome, Tool
  <1> QED
    BY <1>1, <1>2, <1>3, <1>4, <1>5, <1>6 DEF AssistantInv, QuestionsInv

\* The question goes to the node of its intent.
LEMMA GoToKeeps ==
    ASSUME AssistantInv, NEW q \in Questions, NEW i \in Intents, at[q] \in {"route", "classify"},
           GoTo(q, i), Spends(q)
    PROVE  AssistantInv'
  <1> USE DEF GoTo, libraryVars, docVars, settings
  <1>1. LibraryInv'
    BY DEF AssistantInv, LibraryInv
  <1>2. /\ CallsWithinCap' /\ used' \in 0..Cap /\ made' \in 0..Cap
        /\ paid' \subseteq Questions /\ IsFiniteSet(paid')
    BY SpendsWithinCap DEF AssistantInv
  <1>3. Following(i) \in {"embed", "facts", "validate"}
    BY DEF Following
  <1>4. TypeOK'
    BY <1>2, <1>3 DEF AssistantInv, QuestionsInv, TypeOK, Nodes
  <1>5. FactsHold' /\ PaidToCall' /\ AuditedAtTheEnd'
    BY <1>3 DEF AssistantInv, QuestionsInv, TypeOK, FactsHold, PaidToCall, AuditedAtTheEnd
  <1>6. AnswersAreGrounded'
    BY <1>3 DEF AssistantInv, QuestionsInv, TypeOK, AnswersAreGrounded, Judging
  <1>7. AuditTellsOutcome'
    BY <1>3 DEF AssistantInv, QuestionsInv, TypeOK, AuditTellsOutcome, Tool
  <1> QED
    BY <1>1, <1>2, <1>4, <1>5, <1>6, <1>7 DEF AssistantInv, QuestionsInv

LEMMA AskKeeps ==
    ASSUME AssistantInv, NEW q \in Questions, NEW k \in Kinds, Ask(q, k) \/ AskUnauthorized(q, k)
    PROVE  AssistantInv'
  <1> USE DEF Ask, AskUnauthorized, Move, libraryVars, docVars, settings
  <1>1. LibraryInv'
    BY DEF AssistantInv, LibraryInv
  <1>2. TypeOK'
    BY DEF AssistantInv, QuestionsInv, TypeOK, Nodes, Results, Outcomes
  <1>3. FactsHold' /\ PaidToCall' /\ AuditedAtTheEnd'
    BY DEF AssistantInv, QuestionsInv, TypeOK, FactsHold, PaidToCall, AuditedAtTheEnd
  <1>4. AnswersAreGrounded' /\ CallsWithinCap'
    BY DEF AssistantInv, QuestionsInv, TypeOK, AnswersAreGrounded, Judging, CallsWithinCap
  <1>5. AuditTellsOutcome'
    BY DEF AssistantInv, QuestionsInv, TypeOK, AuditTellsOutcome, AuditedAtTheEnd, Tool,
           Outcomes
  <1>6. IsFiniteSet(pool') /\ IsFiniteSet(paid')
    BY DEF AssistantInv, QuestionsInv
  <1> QED
    BY <1>1, <1>2, <1>3, <1>4, <1>5, <1>6 DEF AssistantInv, QuestionsInv

LEMMA EnterKeeps ==
    ASSUME AssistantInv, NEW q \in Questions, Enter(q)
    PROVE  AssistantInv'
  <1> USE DEF Enter, Move, libraryVars, docVars, settings
  <1>1. LibraryInv'
    BY DEF AssistantInv, LibraryInv
  <1>2. FirstNode(kind[q]) \in {"facts", "embed", "route"}
    BY DEF FirstNode
  <1>3. IsFiniteSet(pool') /\ Cardinality(pool') <= spare'
    <2>1. IsFiniteSet(pool) /\ Cardinality(pool) \in Nat /\ spare \in Nat
      BY FS_CardinalityType, AssistantAssumption DEF AssistantInv, QuestionsInv, TypeOK
    <2>2. /\ IsFiniteSet(pool \cup {q})
          /\ Cardinality(pool \cup {q}) \in {Cardinality(pool), Cardinality(pool) + 1}
      BY <2>1, FS_AddElement
    <2> QED
      BY <2>1, <2>2
  <1>4. TypeOK'
    BY <1>2, <1>3 DEF AssistantInv, QuestionsInv, TypeOK, Nodes
  <1>5. FactsHold' /\ PaidToCall' /\ AuditedAtTheEnd'
    BY <1>2 DEF AssistantInv, QuestionsInv, TypeOK, FactsHold, PaidToCall, AuditedAtTheEnd
  <1>6. AnswersAreGrounded' /\ CallsWithinCap'
    BY <1>2 DEF AssistantInv, QuestionsInv, TypeOK, AnswersAreGrounded, Judging, CallsWithinCap
  <1>7. AuditTellsOutcome'
    BY <1>2 DEF AssistantInv, QuestionsInv, TypeOK, AuditTellsOutcome, Tool
  <1>8. IsFiniteSet(paid')
    BY DEF AssistantInv, QuestionsInv
  <1> QED
    BY <1>1, <1>3, <1>4, <1>5, <1>6, <1>7, <1>8 DEF AssistantInv, QuestionsInv

\* The transaction has ended, and the audit log gets its one line.
LEMMA LeaveKeeps ==
    ASSUME AssistantInv, NEW q \in Questions, Leave(q) \/ LeaveCancelled(q)
    PROVE  AssistantInv'
  <1> USE DEF Leave, LeaveCancelled, Move, libraryVars, docVars, settings
  <1>1. PICK r \in Results :
            /\ at[q] = "leave" /\ at' = [at EXCEPT ![q] = "done"]
            /\ r # "unauthorized"
            /\ told' = [told EXCEPT ![q] = r] /\ pool' = pool \ {q}
            /\ \/ audit' = [audit EXCEPT ![q] = IF Tool(q) THEN @ \cup {Logged(r)} ELSE @]
               \/ r = "cancelled" /\ UNCHANGED audit
    <2>1. told[q] \in Results /\ (at[q] # "done" => told[q] # "unauthorized")
      BY DEF AssistantInv, QuestionsInv, TypeOK, AuditedAtTheEnd
    <2> QED
      BY <2>1 DEF Results
  <1>2. UNCHANGED <<status, file, index, cited, key, spare, kind, intent, paid, facts, limits,
                    used, made>>
    OBVIOUS
  <1> USE <1>1, <1>2
  <1> HIDE DEF Leave, LeaveCancelled
  <1>3. LibraryInv'
    BY DEF AssistantInv, LibraryInv
  <1>4. IsFiniteSet(pool') /\ Cardinality(pool') <= spare'
    <2>1. IsFiniteSet(pool) /\ Cardinality(pool) \in Nat /\ Cardinality(pool) <= spare /\ spare \in Nat
      BY FS_CardinalityType, AssistantAssumption DEF AssistantInv, QuestionsInv, TypeOK
    <2>2. /\ IsFiniteSet(pool \ {q})
          /\ Cardinality(pool \ {q}) \in {Cardinality(pool), Cardinality(pool) - 1}
      BY <2>1, FS_RemoveElement
    <2> QED
      BY <2>1, <2>2
  <1>5. TypeOK'
    <2>1. audit' \in [Questions -> SUBSET Outcomes]
      <3>1. Logged(r) \in Outcomes
        BY DEF Logged, Outcomes
      <3> QED
        BY <3>1 DEF AssistantInv, QuestionsInv, TypeOK
    <2> QED
      BY <1>4, <2>1 DEF AssistantInv, QuestionsInv, TypeOK, Nodes
  <1>6. FactsHold' /\ PaidToCall' /\ AuditedAtTheEnd'
    BY DEF AssistantInv, QuestionsInv, TypeOK, FactsHold, PaidToCall, AuditedAtTheEnd
  <1>7. AnswersAreGrounded' /\ CallsWithinCap'
    BY DEF AssistantInv, QuestionsInv, TypeOK, AnswersAreGrounded, Judging, CallsWithinCap
  <1>8. AuditTellsOutcome'
    <2>1. \A p \in Questions \ {q} :
            audit'[p] = audit[p] /\ told'[p] = told[p] /\ at'[p] = at[p]
      BY DEF AssistantInv, QuestionsInv, TypeOK
    <2>2. audit[q] = {} /\ told[q] # "unauthorized" /\ told'[q] = r
      BY DEF AssistantInv, QuestionsInv, TypeOK, AuditedAtTheEnd
    <2>3. Tool(q) /\ r # "cancelled" => audit'[q] = {Logged(r)}
      BY <2>2 DEF AssistantInv, QuestionsInv, TypeOK
    <2>4. Logged(r) \in Outcomes /\ Logged(r) # "unauthorized"
            /\ (Logged(r) = "success") = (r \in {"answered", "refused"})
      BY DEF Logged, Outcomes
    <2>5. \A p \in Questions : Tool(p)' = Tool(p)
      BY DEF Tool
    <2> QED
      BY <2>1, <2>2, <2>3, <2>4, <2>5 DEF AssistantInv, QuestionsInv, AuditTellsOutcome
  <1>9. IsFiniteSet(paid')
    BY DEF AssistantInv, QuestionsInv
  <1> QED
    BY <1>3, <1>4, <1>5, <1>6, <1>7, <1>8, <1>9 DEF AssistantInv, QuestionsInv

\* A unit of the day is consumed before the call.
LEMMA PayKeeps ==
    ASSUME AssistantInv, NEW q \in Questions, Pay(q)
    PROVE  AssistantInv'
  <1> USE DEF Pay, Waiting, libraryVars, docVars, settings
  <1>1. LibraryInv'
    BY DEF AssistantInv, LibraryInv
  <1>2. IsFiniteSet(paid') /\ CallsWithinCap' /\ used' \in 0..Cap
    <2>1. /\ IsFiniteSet(paid) /\ Cardinality(paid) \in Nat /\ made \in Nat
          /\ used \in 0..Cap /\ Cap \in Nat /\ made + Cardinality(paid) <= used
      BY FS_CardinalityType, AssistantAssumption
      DEF AssistantInv, QuestionsInv, TypeOK, CallsWithinCap
    <2>2. IsFiniteSet(paid') /\ Cardinality(paid') = Cardinality(paid) + 1
      BY <2>1, FS_AddElement
    <2> QED
      BY <2>1, <2>2 DEF CallsWithinCap
  <1>3. TypeOK'
    BY <1>2 DEF AssistantInv, QuestionsInv, TypeOK
  <1>4. FactsHold' /\ PaidToCall' /\ AuditedAtTheEnd'
    BY DEF AssistantInv, QuestionsInv, TypeOK, FactsHold, PaidToCall, AuditedAtTheEnd
  <1>5. AnswersAreGrounded' /\ AuditTellsOutcome'
    BY DEF AssistantInv, QuestionsInv, AnswersAreGrounded, Judging, AuditTellsOutcome, Tool
  <1>6. IsFiniteSet(pool')
    BY DEF AssistantInv, QuestionsInv
  <1> QED
    BY <1>1, <1>2, <1>3, <1>4, <1>5, <1>6 DEF AssistantInv, QuestionsInv

LEMMA RouteKeeps ==
    ASSUME AssistantInv, NEW q \in Questions, NEW t \in Topics, RouteIntent(q, t)
    PROVE  AssistantInv'
  <1> USE DEF RouteIntent
  <1>1. CASE t = "unclear" /\ key
    <2>1. /\ at[q] = "route" /\ at' = [at EXCEPT ![q] = "classify"]
          /\ UNCHANGED <<status, index, cited, key, spare, kind, intent, paid, facts, limits, told,
                         audit, pool, used, made>>
      BY <1>1 DEF libraryVars, docVars, settings
    <2>2. LibraryInv'
      BY <2>1 DEF AssistantInv, LibraryInv
    <2>3. TypeOK' /\ IsFiniteSet(pool') /\ IsFiniteSet(paid')
      BY <2>1 DEF AssistantInv, QuestionsInv, TypeOK, Nodes
    <2>4. FactsHold' /\ PaidToCall' /\ AuditedAtTheEnd'
      BY <2>1 DEF AssistantInv, QuestionsInv, TypeOK, FactsHold, PaidToCall, AuditedAtTheEnd
    <2>5. AnswersAreGrounded' /\ CallsWithinCap' /\ AuditTellsOutcome'
      BY <2>1 DEF AssistantInv, QuestionsInv, TypeOK, AnswersAreGrounded, Judging, CallsWithinCap,
                  AuditTellsOutcome, Tool
    <2> QED
      BY <2>2, <2>3, <2>4, <2>5 DEF AssistantInv, QuestionsInv
  <1>2. CASE ~(t = "unclear" /\ key)
    <2>1. PICK i \in Intents : GoTo(q, i)
      BY <1>2 DEF RouteOf, Topics, Intents
    <2>2. at[q] = "route" /\ Spends(q)
      BY <2>1 DEF GoTo, Spends
    <2> QED
      BY <2>1, <2>2, GoToKeeps
  <1> QED
    BY <1>1, <1>2

LEMMA LoadScheduleFactsKeeps ==
    ASSUME AssistantInv, NEW q \in Questions, LoadScheduleFacts(q)
    PROVE  AssistantInv'
  <1> USE DEF LoadScheduleFacts
  <1>1. PICK f \in Facts, n \in {"embed", "validate"} :
            /\ at[q] = "facts" /\ at' = [at EXCEPT ![q] = n]
            /\ facts' = [facts EXCEPT ![q] = f] /\ f.run <= f.whole
    <2>1. PICK days \in SUBSET (1..MaxDay), a, b \in 1..MaxDay :
              facts' = [facts EXCEPT ![q] = FactsOf(days, a..b)]
      OBVIOUS
    <2> QED
      BY <2>1, FactsOfHold
  <1>2. UNCHANGED <<status, index, cited, key, spare, kind, intent, paid, limits, told, audit, pool,
                    used, made>>
    BY DEF libraryVars, docVars, settings
  <1> USE <1>1, <1>2
  <1> HIDE DEF LoadScheduleFacts
  <1>3. LibraryInv'
    BY DEF AssistantInv, LibraryInv
  <1>4. TypeOK' /\ IsFiniteSet(pool') /\ IsFiniteSet(paid')
    BY DEF AssistantInv, QuestionsInv, TypeOK, Nodes
  <1>5. FactsHold' /\ PaidToCall' /\ AuditedAtTheEnd'
    BY DEF AssistantInv, QuestionsInv, TypeOK, FactsHold, PaidToCall, AuditedAtTheEnd
  <1>6. AnswersAreGrounded' /\ CallsWithinCap' /\ AuditTellsOutcome'
    BY DEF AssistantInv, QuestionsInv, TypeOK, AnswersAreGrounded, Judging, CallsWithinCap,
           AuditTellsOutcome, Tool
  <1> QED
    BY <1>3, <1>4, <1>5, <1>6 DEF AssistantInv, QuestionsInv

LEMMA EmbeddedKeeps ==
    ASSUME AssistantInv, NEW q \in Questions, Embedded(q)
    PROVE  AssistantInv'
  <1> USE DEF Embedded, Called
  <1>1. UNCHANGED <<status, index, cited, key, spare, kind, intent, facts, limits, told, audit, pool,
                    used>>
    BY DEF libraryVars, docVars, settings
  <1>2. /\ CallsWithinCap' /\ used' \in 0..Cap /\ made' \in 0..Cap
        /\ paid' \subseteq Questions /\ IsFiniteSet(paid')
    BY SpendsWithinCap DEF AssistantInv, Spends
  <1>3. LibraryInv'
    BY <1>1 DEF AssistantInv, LibraryInv
  <1>4. TypeOK' /\ IsFiniteSet(pool')
    BY <1>1, <1>2 DEF AssistantInv, QuestionsInv, TypeOK, Nodes
  <1>5. FactsHold' /\ PaidToCall' /\ AuditedAtTheEnd'
    BY <1>1 DEF AssistantInv, QuestionsInv, TypeOK, FactsHold, PaidToCall, AuditedAtTheEnd
  <1>6. AnswersAreGrounded' /\ AuditTellsOutcome'
    BY <1>1 DEF AssistantInv, QuestionsInv, TypeOK, AnswersAreGrounded, Judging,
                AuditTellsOutcome, Tool
  <1> QED
    BY <1>2, <1>3, <1>4, <1>5, <1>6 DEF AssistantInv, QuestionsInv

\* The evidence is found among what is ready at that moment.
LEMMA PolicyQueryKeeps ==
    ASSUME AssistantInv, NEW q \in Questions, PolicyQuery(q)
    PROVE  AssistantInv'
  <1> USE DEF PolicyQuery, Cite
  <1>1. PICK found \in SUBSET index : cited' = [cited EXCEPT ![q] = found]
    OBVIOUS
  <1>2. PICK stated \in SUBSET Limits : limits' = [limits EXCEPT ![q] = stated]
    OBVIOUS
  <1>3. /\ at[q] = "retrieve" /\ at' = [at EXCEPT ![q] = "validate"]
        /\ UNCHANGED <<status, index, key, spare, kind, intent, paid, facts, told, audit, pool,
                       used, made>>
    BY DEF docVars, settings
  <1> USE <1>1, <1>2, <1>3
  <1> HIDE DEF PolicyQuery, Cite
  <1>4. LibraryInv'
    BY DEF AssistantInv, LibraryInv
  <1>5. TypeOK' /\ IsFiniteSet(pool') /\ IsFiniteSet(paid')
    BY DEF AssistantInv, QuestionsInv, TypeOK, Nodes
  <1>6. FactsHold' /\ PaidToCall' /\ AuditedAtTheEnd'
    BY DEF AssistantInv, QuestionsInv, TypeOK, FactsHold, PaidToCall, AuditedAtTheEnd
  <1>7. AnswersAreGrounded' /\ CallsWithinCap' /\ AuditTellsOutcome'
    BY DEF AssistantInv, QuestionsInv, TypeOK, LibraryInv, AnswersAreGrounded, Judging,
           CallsWithinCap, AuditTellsOutcome, Tool
  <1> QED
    BY <1>4, <1>5, <1>6, <1>7 DEF AssistantInv, QuestionsInv

\* Only evidence that validate_evidence has let through goes to Gemini.
LEMMA ComposeWithModelKeeps ==
    ASSUME AssistantInv, NEW q \in Questions, ComposeWithModel(q)
    PROVE  AssistantInv'
  <1> USE DEF ComposeWithModel, Move
  <1>1. /\ at[q] = "validate" /\ at' = [at EXCEPT ![q] = "generate"]
        /\ UNCHANGED <<status, index, cited, key, spare, kind, intent, paid, facts, limits, told,
                       audit, pool, used, made>>
    BY DEF libraryVars, docVars, settings
  <1>2. /\ cited[q] # {}
        /\ intent[q] = "hybrid" => facts[q].worked /\ Cardinality(limits[q]) = 1
    BY DEF Valid, Outcome
  <1> USE <1>1, <1>2
  <1> HIDE DEF ComposeWithModel
  <1>3. LibraryInv'
    BY DEF AssistantInv, LibraryInv
  <1>4. TypeOK' /\ IsFiniteSet(pool') /\ IsFiniteSet(paid')
    BY DEF AssistantInv, QuestionsInv, TypeOK, Nodes
  <1>5. FactsHold' /\ PaidToCall' /\ AuditedAtTheEnd'
    BY DEF AssistantInv, QuestionsInv, TypeOK, FactsHold, PaidToCall, AuditedAtTheEnd
  <1>6. AnswersAreGrounded'
    BY DEF AssistantInv, QuestionsInv, TypeOK, LibraryInv, AnswersAreGrounded, Judging
  <1>7. CallsWithinCap' /\ AuditTellsOutcome'
    BY DEF AssistantInv, QuestionsInv, TypeOK, CallsWithinCap, AuditTellsOutcome, Tool
  <1> QED
    BY <1>3, <1>4, <1>5, <1>6, <1>7 DEF AssistantInv, QuestionsInv

\* Documents come and go under a question that cites them.
LEMMA DocumentsKeep ==
    ASSUME AssistantInv, DocumentStep, UNCHANGED <<cited, settings, questionVars, pool, used, made>>
    PROVE  AssistantInv'
  <1>1. UNCHANGED <<cited, key, spare, at, kind, intent, paid, facts, limits, told, audit, pool,
                    used, made>>
    BY DEF settings, questionVars
  <1>2. PICK d \in Docs : (\E f \in Files : Store(d, f)) \/ Publish(d) \/ GiveUp(d) \/ Remove(d)
    BY DEF DocumentStep
  <1>3. /\ status' \in [Docs -> Statuses] /\ index' \subseteq Docs
        /\ \A e \in index' : status'[e] = "ready"
        /\ \A e \in Docs : status[e] \in {"ready", "deleted"} => status'[e] \in {"ready", "deleted"}
    BY <1>2 DEF Store, Publish, GiveUp, Remove, Held, AssistantInv, LibraryInv, Statuses
  <1>4. LibraryInv'
    BY <1>1, <1>3 DEF AssistantInv, LibraryInv
  <1>5. TypeOK' /\ IsFiniteSet(pool') /\ IsFiniteSet(paid')
    BY <1>1 DEF AssistantInv, QuestionsInv, TypeOK
  <1>6. FactsHold' /\ PaidToCall' /\ AuditedAtTheEnd' /\ CallsWithinCap' /\ AuditTellsOutcome'
    BY <1>1 DEF AssistantInv, QuestionsInv, FactsHold, PaidToCall, AuditedAtTheEnd, CallsWithinCap,
                AuditTellsOutcome, Tool
  <1>7. AnswersAreGrounded'
    BY <1>1, <1>4 DEF AssistantInv, QuestionsInv, AnswersAreGrounded, Judging, LibraryInv
  <1> QED
    BY <1>4, <1>5, <1>6, <1>7 DEF AssistantInv, QuestionsInv

\* The steps that end with a result.
LEMMA ResultsKeep ==
    ASSUME AssistantInv, NEW q \in Questions,
           \/ EnterTimeout(q) \/ PayRefused(q) \/ CallFails(q) \/ ReturnFacts(q) \/ FactsFail(q)
           \/ ReturnCitations(q) \/ ComposeDirectly(q) \/ Generated(q)
    PROVE  AssistantInv'
  <1>1. at[q] # "done"
    BY DEF EnterTimeout, PayRefused, Waiting, CallFails, Called, ReturnFacts, FactsFail, Raise,
           ReturnCitations, ComposeDirectly, Generated, AssistantInv, QuestionsInv, PaidToCall
  <1>2. Spends(q)
    BY DEF EnterTimeout, PayRefused, CallFails, Called, ReturnFacts, FactsFail, Raise,
           ReturnCitations, ComposeDirectly, Generated, Spends
  <1>3. \E r \in {"error", "answered", "refused"} : Result(q, r)
    BY DEF EnterTimeout, PayRefused, CallFails, ReturnFacts, FactsFail, Raise,
           ReturnCitations, ComposeDirectly, Generated
  <1> QED
    BY <1>1, <1>2, <1>3, ResultKeeps DEF Results

LEMMA NextAssistantInv == AssistantInv /\ [AssistantNext]_vars => AssistantInv'
  <1> SUFFICES ASSUME AssistantInv, [AssistantNext]_vars PROVE AssistantInv'
    OBVIOUS
  <1>1. ASSUME NEW q \in Questions, NEW k \in Kinds, Ask(q, k) \/ AskUnauthorized(q, k)
        PROVE  AssistantInv'
    BY <1>1, AskKeeps
  <1>2. ASSUME NEW q \in Questions, QuestionStep(q)
        PROVE  AssistantInv'
    <2>1. CASE \/ Enter(q) \/ Leave(q) \/ LeaveCancelled(q) \/ Pay(q)
               \/ LoadScheduleFacts(q) \/ Embedded(q) \/ PolicyQuery(q) \/ ComposeWithModel(q)
      BY <2>1, EnterKeeps, LeaveKeeps, PayKeeps, LoadScheduleFactsKeeps, EmbeddedKeeps,
         PolicyQueryKeeps, ComposeWithModelKeeps
    <2>2. CASE \/ EnterTimeout(q) \/ PayRefused(q) \/ CallFails(q) \/ ReturnFacts(q)
               \/ FactsFail(q) \/ ReturnCitations(q) \/ ComposeDirectly(q) \/ Generated(q)
      BY <2>2, ResultsKeep
    <2>3. ASSUME NEW t \in Topics, RouteIntent(q, t) PROVE AssistantInv'
      BY <2>3, RouteKeeps
    <2>4. ASSUME NEW i \in Intents \ {"none"}, Classified(q, i) PROVE AssistantInv'
      <3>1. at[q] = "classify" /\ GoTo(q, i) /\ Spends(q)
        BY <2>4 DEF Classified, Called, GoTo, Spends
      <3> QED
        BY <3>1, GoToKeeps
    <2> QED
      BY <1>2, <2>1, <2>2, <2>3, <2>4 DEF QuestionStep
  <1>3. CASE DocumentStep /\ UNCHANGED <<cited, settings, questionVars, pool, used, made>>
    BY <1>3, DocumentsKeep
  <1>4. CASE UNCHANGED vars
    <2>1. UNCHANGED <<status, index, cited, key, spare, at, kind, intent, paid, facts, limits, told,
                      audit, pool, used, made>>
      BY <1>4 DEF vars, libraryVars, docVars, settings, questionVars
    <2> QED
      BY <2>1 DEF AssistantInv, LibraryInv, QuestionsInv, TypeOK, FactsHold, PaidToCall,
                  AuditedAtTheEnd, AnswersAreGrounded, Judging, CallsWithinCap,
                  AuditTellsOutcome, Tool
  <1> QED
    BY <1>1, <1>2, <1>3, <1>4 DEF AssistantNext

LEMMA AssistantInvariance == AssistantSpec => []AssistantInv
  BY InitAssistantInv, NextAssistantInv, PTL DEF AssistantSpec

(***************************************************************************)
(* The theorems.                                                           *)
(***************************************************************************)

\* The values of the assistant have their types; in particular the questions that hold
\* a connection are never more than the pool leaves them.
THEOREM AssistantTypeCorrect == AssistantSpec => []TypeOK
  <1>1. AssistantInv => TypeOK
    BY DEF AssistantInv, QuestionsInv
  <1> QED
    BY <1>1, AssistantInvariance, PTL

\* Whatever is deleted while a question is handled, Gemini composes answers only from
\* chunks of documents that were ready, and judges compliance only by one limit.
THEOREM GeminiSeesEvidence == AssistantSpec => []AnswersAreGrounded
  <1>1. AssistantInv => AnswersAreGrounded
    BY DEF AssistantInv, QuestionsInv
  <1> QED
    BY <1>1, AssistantInvariance, PTL

\* evaluate_consecutive_days accuses nobody who keeps the limit, although the shifts
\* it looks at are cut out of the owner's.
THEOREM AccusationsHold == AssistantSpec => []ViolationsAreReal
  <1>1. ASSUME AssistantInv PROVE ViolationsAreReal
    <2> SUFFICES ASSUME NEW q \in Questions, Outcome(facts[q], limits[q]) = "non_compliant",
                        NEW n \in limits[q]
                 PROVE  facts[q].whole > n
      BY DEF ViolationsAreReal
    <2>1. /\ limits[q] \subseteq Limits /\ facts[q] \in Facts /\ facts[q].run <= facts[q].whole
      BY <1>1 DEF AssistantInv, QuestionsInv, TypeOK, FactsHold
    <2>2. IsFiniteSet(limits[q]) /\ n \in Nat
      BY <2>1, AssistantAssumption, FS_Subset
    <2>3. Cardinality(limits[q]) = 1 /\ \E m \in limits[q] : facts[q].run > m
      BY DEF Outcome
    <2>4. facts[q].run > n
      BY <2>2, <2>3, FS_Singleton
    <2> QED
      BY <2>1, <2>2, <2>4, AssistantAssumption DEF Facts
  <1> QED
    BY <1>1, AssistantInvariance, PTL

\* consume_gemini_request pays before every call, so that no interleaving of questions
\* and no failure makes more calls in a day than the cap.
THEOREM QuotaCoversCalls == AssistantSpec => []CallsWithinCap
  <1>1. AssistantInv => CallsWithinCap
    BY DEF AssistantInv, QuestionsInv
  <1> QED
    BY <1>1, AssistantInvariance, PTL

\* The MCP server writes its line after the transaction has ended: it says what the
\* asker was told, also when the end of the transaction fails.
THEOREM AuditIsTrue == AssistantSpec => []AuditTellsOutcome
  <1>1. AssistantInv => AuditTellsOutcome
    BY DEF AssistantInv, QuestionsInv
  <1> QED
    BY <1>1, AssistantInvariance, PTL

(***************************************************************************)
(* The composition with Documents, which Policies implements.              *)
(***************************************************************************)
LEMMA QuestionsCiteOrForget ==
    ASSUME NEW q \in Questions, QuestionStep(q)
    PROVE  Cite(q) \/ Forget(q) \/ UNCHANGED libraryVars
  <1>1. CASE \/ EnterTimeout(q) \/ PayRefused(q) \/ CallFails(q) \/ ReturnFacts(q)
             \/ FactsFail(q) \/ ReturnCitations(q) \/ ComposeDirectly(q) \/ Generated(q)
    BY <1>1 DEF EnterTimeout, PayRefused, CallFails, ReturnFacts, FactsFail, Raise,
                ReturnCitations, ComposeDirectly, Generated, Result
  <1>2. CASE \/ Enter(q) \/ Leave(q) \/ LeaveCancelled(q) \/ Pay(q)
             \/ LoadScheduleFacts(q) \/ Embedded(q) \/ ComposeWithModel(q)
    BY <1>2 DEF Enter, Leave, LeaveCancelled, Pay, LoadScheduleFacts, Embedded, ComposeWithModel
  <1>3. CASE PolicyQuery(q)
    BY <1>3 DEF PolicyQuery
  <1>4. CASE \E t \in Topics : RouteIntent(q, t)
    BY <1>4 DEF RouteIntent, GoTo
  <1>5. CASE \E i \in Intents \ {"none"} : Classified(q, i)
    BY <1>5 DEF Classified, GoTo
  <1> QED
    BY <1>1, <1>2, <1>3, <1>4, <1>5 DEF QuestionStep

\* The graph and the tools only read the library: beside them it does what Documents
\* allows, which is what Policies is proved to do, and evidence is looked up in one search.
THEOREM QuestionsOnlyRead == AssistantSpec => Safety
  <1>1. AssistantInit => Init
    BY DEF AssistantInit
  <1>2. ASSUME [AssistantNext]_vars PROVE [Next]_libraryVars
    <2>1. ASSUME NEW q \in Questions, NEW k \in Kinds, Ask(q, k) \/ AskUnauthorized(q, k)
          PROVE  UNCHANGED libraryVars
      BY <2>1 DEF Ask, AskUnauthorized
    <2>2. ASSUME NEW q \in Questions, QuestionStep(q) PROVE [Next]_libraryVars
      BY <2>2, QuestionsCiteOrForget DEF Next
    <2>3. CASE DocumentStep /\ UNCHANGED <<cited, settings, questionVars, pool, used, made>>
      BY <2>3 DEF Next
    <2>4. CASE UNCHANGED vars
      BY <2>4 DEF vars
    <2> QED
      BY <1>2, <2>1, <2>2, <2>3, <2>4 DEF AssistantNext
  <1> QED
    BY <1>1, <1>2, PTL DEF AssistantSpec, Safety
=============================================================================
