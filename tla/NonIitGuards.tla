---------------------------- MODULE NonIitGuards ----------------------------
(***************************************************************************)
(* The guard runner of guards-non-iit: per-session rate limit and budget,  *)
(* then the three HHH judges, which ask an evaluation provider, and the    *)
(* policy rules.                                                           *)
(***************************************************************************)
EXTENDS GuardFormulas

CONSTANTS
  Callers,  \* concurrent tool calls
  Sessions, \* session ids
  NonIitCfg,\* the plugin's parsed Config
  Scores    \* scores a model may return, in hundredths

VARIABLES
  event,       \* event[c]: the payload of c's tool call
  nonIit,      \* nonIit[c]: at which guard runGuards is, and what it has come to
  rate,        \* rateLimitCounters: session -> count, and whether its minute has passed
  budget,      \* budgetCounters: session -> spent, tokens
  evaluations  \* evaluations[c]: policy/evaluate events, in the order emitted

nonIitVars == <<nonIit, rate, budget>>

NonIitGUARDS == <<"hhh-harmless", "hhh-helpful", "hhh-honest", "policy-allowed">>

At(status, at, by) == [status |-> status, at |-> at, by |-> by]

NonIitInit ==
  /\ nonIit = [c \in Callers |-> At("idle", 0, "none")]
  /\ rate = [s \in Sessions |-> [count |-> 0, expired |-> TRUE]]
  /\ budget = [s \in Sessions |-> [spent |-> 0, tokens |-> 0]]

----------------------------------------------------------------------------
(* Rate limit and budget: synchronous, and by session. *)

\* Mutant: the counter is compared before it is incremented.
CompareFirst(s, tokens) ==
  LET count == (IF rate[s].expired THEN 0 ELSE rate[s].count) + 1
  IN [entry |-> [count |-> count, expired |-> FALSE],
      blocks |-> \/ count - 1 >= NonIitCfg.maxRequestsPerMinute
                 \/ tokens > NonIitCfg.maxTokensPerMinute]

\* The counter is incremented and then compared with >=.
RateLimit(s, tokens) ==
  LET count == (IF rate[s].expired THEN 0 ELSE rate[s].count) + 1
  IN [entry |-> [count |-> count, expired |-> FALSE],
      blocks |-> \/ count >= NonIitCfg.maxRequestsPerMinute
                 \/ tokens > NonIitCfg.maxTokensPerMinute]

\* The call is charged before it is judged, and stays charged when it is refused.
BudgetExhausted(s, cost, tokens) ==
  LET entry == [spent |-> budget[s].spent + cost, tokens |-> budget[s].tokens + tokens]
  IN [entry |-> entry,
      blocks |-> \/ entry.spent > NonIitCfg.maxSpendPerSession
                 \/ entry.tokens > NonIitCfg.maxTokensPerSession]

----------------------------------------------------------------------------
(* HHH and policy. *)

\* What a provider answers, by tier: local rules give a disposition and no score,
\* and so do a missing key and an HTTP error; an exception gives 0.8.
Answers ==
  IF NonIitCfg.tier = "local-rules" \/ (NonIitCfg.tier = "shared-org" /\ ~NonIitCfg.key)
    THEN [disposition : {"pass", "warn", "block"}, score : {Undefined}]
  ELSE IF ~NonIitCfg.key THEN {[disposition |-> "warn", score |-> Undefined]}
  ELSE {[disposition |-> "warn", score |-> Undefined], [disposition |-> "pass", score |-> 80]}
       \cup {[disposition |-> IF n >= 80 THEN "pass" ELSE IF n >= 50 THEN "warn" ELSE "block",
              score |-> n] : n \in Scores}

\* The guards read the score alone, and default a missing one to a passing value.
Hhh(guard, answer) ==
  CASE guard = "hhh-harmless" ->
         (IF OrElse(answer.score, 80) < NonIitCfg.harmlessBlockThreshold THEN "block"
          ELSE IF OrElse(answer.score, 80) < NonIitCfg.harmlessWarnThreshold THEN "warn"
          ELSE "pass")
    [] guard = "hhh-helpful" ->
         (IF OrElse(answer.score, 70) < NonIitCfg.minHelpfulScore THEN "warn" ELSE "pass")
    [] guard = "hhh-honest" ->
         (IF OrElse(answer.score, 70) < NonIitCfg.minHonestScore THEN "warn" ELSE "pass")

\* A rule's pattern is the set of tools it matches; an invalid one has none.
PolicyAllowed(ev) ==
  LET hit == {rule.action : rule \in {r \in NonIitCfg.rules : ev.tool \in r.matches}}
  IN IF "block" \in hit THEN "block" ELSE IF "warn" \in hit THEN "warn" ELSE "pass"

----------------------------------------------------------------------------
(* runGuards. *)

NonIitRefused(c, by) == [nonIit EXCEPT ![c] = At("refused", 0, by)]

Judging(c) == [nonIit EXCEPT ![c] = At("judging", 1, "none")]

\* The quotas of an event with a session; a call over one is refused without an
\* event, and the rate limit refuses before the budget is charged.
NonIitEnter(c) ==
  LET s == event[c].sessionId
      limit == RateLimit(s, OrElse(event[c].tokens, 0))
      quota == BudgetExhausted(s, OrElse(event[c].cost, 0), OrElse(event[c].tokens, 0))
  IN /\ nonIit[c].status = "idle"
     /\ IF s = Undefined THEN nonIit' = Judging(c) /\ UNCHANGED <<rate, budget>>
        ELSE /\ rate' = [rate EXCEPT ![s] = limit.entry]
             /\ IF limit.blocks
                  THEN nonIit' = NonIitRefused(c, "rate-limit") /\ UNCHANGED budget
                  ELSE /\ budget' = [budget EXCEPT ![s] = quota.entry]
                       /\ nonIit' = IF quota.blocks THEN NonIitRefused(c, "budget-exhausted")
                                    ELSE Judging(c)
     /\ UNCHANGED evaluations

\* A guard's answer: only a block stops, and is emitted before it is thrown.
NonIitAnswer(c, disposition) ==
  LET guard == NonIitGUARDS[nonIit[c].at] IN
  /\ nonIit' = IF disposition = "block" THEN NonIitRefused(c, guard)
               ELSE [nonIit EXCEPT ![c].at = @ + 1]
  /\ evaluations' = IF disposition # "block" THEN evaluations
                    ELSE [evaluations EXCEPT ![c] = Append(@, <<guard, "block">>)]
  /\ UNCHANGED <<rate, budget>>

\* An HHH guard; without an output of the assistant it asks nobody.
JudgeHhh(c) ==
  /\ nonIit[c].status = "judging" /\ nonIit[c].at < 4
  /\ IF ~event[c].outputs THEN NonIitAnswer(c, "pass")
     ELSE \E answer \in Answers : NonIitAnswer(c, Hhh(NonIitGUARDS[nonIit[c].at], answer))

JudgePolicy(c) ==
  /\ nonIit[c].status = "judging" /\ nonIit[c].at = 4
  /\ NonIitAnswer(c, PolicyAllowed(event[c]))

\* policy/evaluate with finalDisposition pass, then next.
NonIitPass(c) ==
  /\ nonIit[c].status = "judging" /\ nonIit[c].at > Len(NonIitGUARDS)
  /\ nonIit' = [nonIit EXCEPT ![c] = At("passed", 0, "none")]
  /\ evaluations' = [evaluations EXCEPT ![c] = Append(@, <<"guards-non-iit", "pass">>)]
  /\ UNCHANGED <<rate, budget>>

NonIitStep(c) == JudgeHhh(c) \/ JudgePolicy(c) \/ NonIitPass(c)

\* now > resetAt: the session's minute has passed.
MinuteEnds(s) ==
  /\ ~rate[s].expired
  /\ rate' = [rate EXCEPT ![s].expired = TRUE]
  /\ UNCHANGED <<nonIit, budget, evaluations>>
=============================================================================
