----------------------------- MODULE Assistant ------------------------------
(***************************************************************************)
(* Questions about shifts and policies: POST /assistant/query, whose graph *)
(* routes, collects, evaluates, validates and composes, and the read-only  *)
(* tools of the MCP server, one of which runs the same graph.              *)
(*                                                                         *)
(* A question keeps its transaction, and with it one of the pooled         *)
(* connections, while Gemini classifies, embeds and answers.  Before every *)
(* call it pays one unit of the application's daily quota, in a            *)
(* transaction of its own over a connection that is not pooled.  Documents *)
(* come and go meanwhile (module Documents), and shifts change, so that    *)
(* facts are read as any set of dates.                                     *)
(*                                                                         *)
(* Texts are abstracted to what the graph makes of them: a topic, and the  *)
(* limits on consecutive days that the regular expressions find.           *)
(***************************************************************************)
EXTENDS Documents, Integers, FiniteSets

CONSTANTS
    PoolSize,  \* database_pool_size; max_overflow is 0
    Cap,       \* gemini_daily_request_cap; the model is of one day
    MaxDay,    \* bound: the dates with shifts are among 1..MaxDay
    Limits     \* limits on consecutive days that documents state

ASSUME AssistantAssumption ==
    /\ PoolSize \in Nat \ {0}
    /\ Cap \in Nat
    /\ MaxDay \in Nat \ {0}
    /\ Limits \subseteq Nat /\ IsFiniteSet(Limits)

VARIABLES
    key,     \* settings.gemini_api_key is set
    at,      \* question: the node its handling has reached
    kind,    \* question: the endpoint or tool that was asked
    intent,  \* question: what route_intent said
    paid,    \* question: the quota has granted the call that it is about to make
    facts,   \* question: schedule facts it has read
    limits,  \* question: limits found in its evidence
    told,    \* question: what the asker was told
    audit,   \* question: outcomes in the audit log of the MCP server
    spare,   \* pooled connections that other requests leave
    pool,    \* questions that hold a pooled connection
    used,    \* app_daily_quotas.used of gemini_request
    made     \* calls made to Gemini

questionVars == <<at, kind, intent, paid, facts, limits, told, audit>>
settings == <<key, spare>>
vars == <<libraryVars, settings, questionVars, pool, used, made>>

\* query is the REST endpoint; analyze runs the same graph as an MCP tool;
\* search is search_work_policy; hours stands for the four tools without Gemini.
Kinds == {"query", "analyze", "search", "hours"}
Intents == {"none", "schedule", "policy", "hybrid", "unsupported"}
Topics == {"blocked", "schedule", "policy", "both", "other", "unclear"}
Nodes == {"idle", "enter", "route", "classify", "facts", "embed", "retrieve",
          "validate", "generate", "leave", "done"}
Results == {"none", "answered", "refused", "error", "unauthorized", "cancelled"}
Outcomes == {"success", "unauthorized", "error"}

\* The longest run inside the range of the question and, for the properties
\* only, the longest run of all the owner's dates at that time.
Facts == [worked: BOOLEAN, run: 0..MaxDay, whole: 0..MaxDay]
NoFacts == [worked |-> FALSE, run |-> 0, whole |-> 0]

TypeOK ==
    /\ key \in BOOLEAN
    /\ at \in [Questions -> Nodes]
    /\ kind \in [Questions -> Kinds]
    /\ intent \in [Questions -> Intents]
    /\ paid \subseteq Questions
    /\ facts \in [Questions -> Facts]
    /\ limits \in [Questions -> SUBSET Limits]
    /\ told \in [Questions -> Results]
    /\ audit \in [Questions -> SUBSET Outcomes]
    /\ pool \subseteq Questions
    /\ spare \in 1..PoolSize
    /\ Cardinality(pool) <= spare
    /\ used \in 0..Cap
    /\ made \in 0..Cap

AssistantInit ==
    /\ Init
    /\ key \in BOOLEAN
    /\ spare \in 1..PoolSize
    /\ at = [q \in Questions |-> "idle"]
    /\ kind = [q \in Questions |-> "query"]
    /\ intent = [q \in Questions |-> "none"]
    /\ paid = {}
    /\ facts = [q \in Questions |-> NoFacts]
    /\ limits = [q \in Questions |-> {}]
    /\ told = [q \in Questions |-> "none"]
    /\ audit = [q \in Questions |-> {}]
    /\ pool = {}
    /\ used = 0
    /\ made = 0

Tool(q) == kind[q] # "query"

-----------------------------------------------------------------------------
(* Coming in and going out. *)

Move(q, from, to) == at[q] = from /\ at' = [at EXCEPT ![q] = to]

\* The token is verified, or not: then only the MCP server writes its audit log.
Ask(q, k) ==
    /\ Move(q, "idle", "enter")
    /\ kind' = [kind EXCEPT ![q] = k]
    /\ UNCHANGED <<libraryVars, settings, intent, paid, facts, limits, told, audit,
                   pool, used, made>>

AskUnauthorized(q, k) ==
    /\ Move(q, "idle", "done")
    /\ kind' = [kind EXCEPT ![q] = k]
    /\ told' = [told EXCEPT ![q] = "unauthorized"]
    /\ audit' = [audit EXCEPT ![q] = IF k = "query" THEN {} ELSE {"unauthorized"}]
    /\ UNCHANGED <<libraryVars, settings, intent, paid, facts, limits, pool, used, made>>

FirstNode(k) ==
    CASE k = "hours" -> "facts"
      [] k = "search" -> "embed"
      [] OTHER -> "route"

\* What if the pool could overflow.
EnterOverflow(q) ==
    /\ Move(q, "enter", FirstNode(kind[q]))
    /\ pool' = pool \cup {q}
    /\ UNCHANGED <<libraryVars, settings, kind, intent, paid, facts, limits, told, audit,
                   used, made>>

\* user_connection, or _run_sync in its thread: a connection of the pool.
Enter(q) ==
    /\ Move(q, "enter", FirstNode(kind[q]))
    /\ Cardinality(pool) < spare
    /\ pool' = pool \cup {q}
    /\ UNCHANGED <<libraryVars, settings, kind, intent, paid, facts, limits, told, audit,
                   used, made>>

\* The handler returns or raises with this result and drops what it had read;
\* its transaction is still open.
Result(q, r) ==
    /\ at' = [at EXCEPT ![q] = "leave"]
    /\ told' = [told EXCEPT ![q] = r]
    /\ paid' = paid \ {q}
    /\ intent' = [intent EXCEPT ![q] = "none"]
    /\ facts' = [facts EXCEPT ![q] = NoFacts]
    /\ limits' = [limits EXCEPT ![q] = {}]
    /\ Forget(q)
    /\ UNCHANGED <<settings, kind, audit, pool>>

\* invoke logs the code of an exception; what is returned is a success, a
\* refusal too.
Logged(r) == IF r \in {"answered", "refused"} THEN "success" ELSE "error"

\* What if the audit were written before the transaction has ended.
LeaveAuditedEarly(q) ==
    \E r \in {told[q], "error"} :
        /\ Move(q, "leave", "done")
        /\ told' = [told EXCEPT ![q] = r]
        /\ audit' = [audit EXCEPT ![q] = IF Tool(q) THEN @ \cup {Logged(told[q])} ELSE @]
        /\ pool' = pool \ {q}
        /\ UNCHANGED <<libraryVars, settings, kind, intent, paid, facts, limits, used, made>>

\* The transaction ends, which may itself fail, and gives the connection back;
\* the MCP server then writes the one line of its audit log.
Leave(q) ==
    \E r \in {told[q], "error"} :
        /\ Move(q, "leave", "done")
        /\ told' = [told EXCEPT ![q] = r]
        /\ audit' = [audit EXCEPT ![q] = IF Tool(q) THEN @ \cup {Logged(r)} ELSE @]
        /\ pool' = pool \ {q}
        /\ UNCHANGED <<libraryVars, settings, kind, intent, paid, facts, limits, used, made>>

\* A cancelled tool call: its thread goes on to the end, but nothing is audited,
\* because invoke catches Exception and a cancellation is none.
LeaveCancelled(q) ==
    /\ Tool(q)
    /\ Move(q, "leave", "done")
    /\ told' = [told EXCEPT ![q] = "cancelled"]
    /\ pool' = pool \ {q}
    /\ UNCHANGED <<libraryVars, settings, kind, intent, paid, facts, limits, audit, used, made>>

\* The wait for the pool has a limit.
EnterTimeout(q) ==
    /\ at[q] = "enter"
    /\ Cardinality(pool) >= spare
    /\ Result(q, "error")
    /\ UNCHANGED <<used, made>>

Raise(q, node) ==
    /\ at[q] = node
    /\ Result(q, "error")
    /\ UNCHANGED <<used, made>>

-----------------------------------------------------------------------------
(* Gemini. *)

Waiting(q) == at[q] \in {"classify", "embed", "generate"} /\ q \notin paid

\* What if the quota were consumed over a connection of the same pool.
PayPooled(q) ==
    /\ Waiting(q)
    /\ key
    /\ used < Cap
    /\ Cardinality(pool) < spare
    /\ used' = used + 1
    /\ paid' = paid \cup {q}
    /\ UNCHANGED <<libraryVars, settings, at, kind, intent, facts, limits, told, audit,
                   pool, made>>

\* What if the call were made before its unit was consumed.
PayLate(q) ==
    /\ Waiting(q)
    /\ key
    /\ paid' = paid \cup {q}
    /\ UNCHANGED <<libraryVars, settings, at, kind, intent, facts, limits, told, audit,
                   pool, used, made>>

\* before_request: consume_gemini_request, committed on its own.
Pay(q) ==
    /\ Waiting(q)
    /\ key
    /\ used < Cap
    /\ used' = used + 1
    /\ paid' = paid \cup {q}
    /\ UNCHANGED <<libraryVars, settings, at, kind, intent, facts, limits, told, audit,
                   pool, made>>

\* GEMINI_DAILY_CAP_EXCEEDED, or GEMINI_NOT_CONFIGURED without a key.
PayRefused(q) ==
    /\ Waiting(q)
    /\ used = Cap \/ ~key
    /\ Raise(q, at[q])

\* Gemini is called and answers, and the question goes on; or the call fails,
\* times out or answers what cannot be read: a GeminiRagError.
Called(q, node) ==
    /\ at[q] = node
    /\ q \in paid
    /\ made' = made + 1

CallFails(q) ==
    /\ Called(q, at[q])
    /\ Result(q, "error")
    /\ UNCHANGED used

-----------------------------------------------------------------------------
(* The nodes of the graph; the tools enter at the node that serves them. *)

Following(i) ==
    CASE i = "policy" -> "embed"
      [] i \in {"schedule", "hybrid"} -> "facts"
      [] OTHER -> "validate"

GoTo(q, i) ==
    /\ intent' = [intent EXCEPT ![q] = i]
    /\ at' = [at EXCEPT ![q] = Following(i)]
    /\ paid' = paid \ {q}
    /\ UNCHANGED <<libraryVars, settings, kind, facts, limits, told, audit, pool, used>>

\* deterministic_route: what the terms of the question say, if anything.
RouteOf(t) ==
    CASE t \in {"blocked", "other"} -> "unsupported"
      [] t = "both" -> "hybrid"
      [] OTHER -> t

\* Without a model there is no classifier, and an unclear question is refused.
RouteIntent(q, t) ==
    /\ at[q] = "route"
    /\ IF t = "unclear" /\ key
       THEN /\ at' = [at EXCEPT ![q] = "classify"]
            /\ UNCHANGED <<libraryVars, settings, kind, intent, paid, facts, limits, told,
                           audit, pool, used>>
       ELSE GoTo(q, IF t = "unclear" THEN "unsupported" ELSE RouteOf(t))
    /\ UNCHANGED made

Classified(q, i) ==
    /\ Called(q, "classify")
    /\ GoTo(q, i)

\* _longest_consecutive_run over a set of dates.
Run(days) ==
    LET runs == {n \in 1..MaxDay : \E d \in days : d..(d + n - 1) \subseteq days}
    IN  IF runs = {} THEN 0 ELSE CHOOSE n \in runs : \A m \in runs : m <= n

FactsOf(days, range) ==
    IF days \cap range = {} THEN NoFacts
    ELSE [worked |-> TRUE, run |-> Run(days \cap range), whole |-> Run(days)]

\* get_summary: the dates of the shifts in the range of the question.
LoadScheduleFacts(q) ==
    /\ at[q] = "facts"
    /\ kind[q] # "hours"
    /\ \E days \in SUBSET (1..MaxDay), a, b \in 1..MaxDay :
         /\ a <= b
         /\ facts' = [facts EXCEPT ![q] = FactsOf(days, a..b)]
    /\ at' = [at EXCEPT ![q] = IF intent[q] = "hybrid" THEN "embed" ELSE "validate"]
    /\ UNCHANGED <<libraryVars, settings, kind, intent, paid, limits, told, audit, pool,
                   used, made>>

\* The tools that return shifts, facts or a calendar as they are.
ReturnFacts(q) ==
    /\ at[q] = "facts"
    /\ kind[q] = "hours"
    /\ Result(q, "answered")
    /\ UNCHANGED <<used, made>>

\* No profile, a shift without a rate, a range that is refused.
FactsFail(q) == Raise(q, "facts")

Embedded(q) ==
    /\ Called(q, "embed")
    /\ at' = [at EXCEPT ![q] = "retrieve"]
    /\ paid' = paid \ {q}
    /\ UNCHANGED <<libraryVars, settings, kind, intent, facts, limits, told, audit, pool, used>>

\* The search and what evaluate_consecutive_days finds in its chunks: some of
\* the limits of the documents, as others may be in chunks that were not found.
PolicyQuery(q) ==
    /\ at[q] = "retrieve"
    /\ kind[q] # "search"
    /\ Cite(q)
    /\ \E stated \in SUBSET Limits :
         /\ cited'[q] = {} => stated = {}
         /\ limits' = [limits EXCEPT ![q] = stated]
    /\ at' = [at EXCEPT ![q] = "validate"]
    /\ UNCHANGED <<settings, kind, intent, paid, facts, told, audit, pool, used, made>>

\* search_work_policy returns the citations, or refuses without any.
ReturnCitations(q) ==
    /\ at[q] = "retrieve"
    /\ kind[q] = "search"
    /\ \E found \in SUBSET index :
         Result(q, IF found = {} THEN "refused" ELSE "answered")
    /\ UNCHANGED <<used, made>>

\* What if a run as long as the limit were a violation.
OutcomeStrict(f, stated) ==
    IF Cardinality(stated) # 1 \/ ~f.worked THEN "inconclusive"
    ELSE IF \E n \in stated : f.run >= n THEN "non_compliant" ELSE "compliant"

\* evaluate_consecutive_days: one limit, or no outcome.
Outcome(f, stated) ==
    IF Cardinality(stated) # 1 \/ ~f.worked THEN "inconclusive"
    ELSE IF \E n \in stated : f.run > n THEN "non_compliant" ELSE "compliant"

\* What if validate_evidence did not look at the evaluation.
ValidUnevaluated(q) ==
    CASE intent[q] = "schedule" -> TRUE
      [] intent[q] \in {"policy", "hybrid"} -> cited[q] # {}
      [] OTHER -> FALSE

\* validate_evidence.
Valid(q) ==
    CASE intent[q] = "schedule" -> TRUE
      [] intent[q] = "policy" -> cited[q] # {}
      [] intent[q] = "hybrid" ->
           cited[q] # {} /\ Outcome(facts[q], limits[q]) # "inconclusive"
      [] OTHER -> FALSE

\* compose_answer without a model: a refusal, or the facts in a sentence.
ComposeDirectly(q) ==
    /\ at[q] = "validate"
    /\ ~Valid(q) \/ intent[q] = "schedule"
    /\ Result(q, IF Valid(q) THEN "answered" ELSE "refused")
    /\ UNCHANGED <<used, made>>

\* ... and with one: the evidence goes to Gemini.
ComposeWithModel(q) ==
    /\ Valid(q)
    /\ intent[q] # "schedule"
    /\ Move(q, "validate", "generate")
    /\ UNCHANGED <<libraryVars, settings, kind, intent, paid, facts, limits, told, audit,
                   pool, used, made>>

Generated(q) ==
    /\ Called(q, "generate")
    /\ Result(q, "answered")
    /\ UNCHANGED used

-----------------------------------------------------------------------------

QuestionStep(q) ==
    \/ Enter(q) \/ EnterTimeout(q) \/ Leave(q) \/ LeaveCancelled(q)
    \/ Pay(q) \/ PayRefused(q) \/ CallFails(q)
    \/ \E t \in Topics : RouteIntent(q, t)
    \/ \E i \in Intents \ {"none"} : Classified(q, i)
    \/ LoadScheduleFacts(q) \/ ReturnFacts(q) \/ FactsFail(q)
    \/ Embedded(q) \/ PolicyQuery(q) \/ ReturnCitations(q)
    \/ ComposeDirectly(q) \/ ComposeWithModel(q) \/ Generated(q)

AssistantNext ==
    \/ \E q \in Questions :
         \/ \E k \in Kinds : Ask(q, k) \/ AskUnauthorized(q, k)
         \/ QuestionStep(q)
    \/ DocumentStep /\ UNCHANGED <<cited, settings, questionVars, pool, used, made>>

\* A question that has been asked is handled to its end.
AssistantSpec ==
    AssistantInit /\ [][AssistantNext]_vars /\ \A q \in Questions : WF_vars(QuestionStep(q))

-----------------------------------------------------------------------------
(* Properties. *)

Judging(q) == intent[q] = "hybrid" /\ at[q] = "generate"

\* Gemini writes an answer only from evidence, and about compliance only from
\* shifts that were worked and from the one limit that the evidence states.
AnswersAreGrounded ==
    \A q \in Questions : at[q] = "generate" =>
        /\ cited[q] # {}
        /\ \A d \in cited[q] : status[d] \in {"ready", "deleted"}
        /\ Judging(q) => facts[q].worked /\ Cardinality(limits[q]) = 1

\* Who is said to violate a limit does: a run inside the range is never longer
\* than the owner's real run.  (A run that the range cuts may go unnoticed.)
ViolationsAreReal ==
    \A q \in Questions :
        Judging(q) /\ Outcome(facts[q], limits[q]) = "non_compliant"
            => \A n \in limits[q] : facts[q].whole > n

\* The day's calls to Gemini, those under way included, have been paid for and
\* stay within the cap, also when the question fails after its call.
CallsWithinCap == made + Cardinality(paid) <= used /\ used <= Cap

\* The audit log has one line of a tool call that was not cancelled, and it
\* says success only of a call whose result, or refusal, the asker was given.
AuditTellsOutcome ==
    \A q \in Questions : at[q] = "done" /\ Tool(q) /\ told[q] # "cancelled" =>
        \E line \in Outcomes :
            /\ audit[q] = {line}
            /\ (line = "success") = (told[q] \in {"answered", "refused"})
            /\ (line = "unauthorized") = (told[q] = "unauthorized")

\* Questions that fill the pool still get to Gemini and come to an end.
QuestionsEnd == \A q \in Questions : at[q] = "enter" ~> at[q] = "done"
=============================================================================
