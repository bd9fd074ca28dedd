----------------------------- MODULE MCAgentRun -----------------------------
(***************************************************************************)
(* Instances of AgentRun for TLC: one configuration per shape of the graph *)
(* and per limit that can be hit.                                          *)
(***************************************************************************)
EXTENDS AgentRun, TLC

Base == [template |-> "none", tools |-> {"knowledge.search"}, feeds |-> 0,
         rssUrl |-> FALSE, reviewTarget |-> FALSE, maxSteps |-> 8,
         maxToolCalls |-> 5, maxTokens |-> NoLimit]

(* A knowledge chat: retrieval, skipped news, one model call. *)
Chat == Base

(* Two feeds use up the tool calls, so the usage step has none left. *)
Briefing == [Base EXCEPT !.template = "daily-news-briefing", !.feeds = 2,
                         !.tools = {"news.fetch_rss", "usage.summary"},
                         !.maxToolCalls = 2]

(* The usage step is the last the step budget allows. *)
TooFewSteps == [Base EXCEPT !.tools = {"knowledge.search", "usage.summary"},
                            !.maxSteps = 3]

Triage == [Base EXCEPT !.template = "gmail-triage", !.tools = {}, !.maxToolCalls = 3]

Reply == [Base EXCEPT !.template = "gmail-reply-assistant", !.tools = {}]

ReplyUpdate == [Reply EXCEPT !.reviewTarget = TRUE]

Repository == [Base EXCEPT !.template = "repository-researcher",
                           !.tools = {"github.list_repositories", "usage.summary"}]

(* A call uses 3 tokens: one more than the budget, and exactly the budget. *)
Budgeted == [Base EXCEPT !.maxTokens = 2]
JustEnough == [Base EXCEPT !.maxTokens = 3]

MCUnlimited == {Chat, Briefing, TooFewSteps, Triage, Reply, ReplyUpdate, Repository}
MCAll       == MCUnlimited \cup {Budgeted, JustEnough}
MCBudgeted  == {Budgeted}
MCChat      == {Chat}

WorkerSymmetry == Permutations(Workers)
=============================================================================
