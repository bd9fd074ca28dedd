--------------------------- MODULE AgentTemplates ---------------------------
(* The six agent templates: the agents they make, the setup they ask for    *)
(* and whether it is there, the workflow each is shown with in the editor,  *)
(* and the way a run takes through such a workflow once it has been saved - *)
(* with other node ids where the template's own are refused.                *)
EXTENDS Naturals, Sequences, FiniteSets

CONSTANT Null

Graph == INSTANCE WorkflowGraph

-----------------------------------------------------------------------------
(* DEFAULT_AGENT_TEMPLATES: budgets, tools and requirements.                *)

Needs(id, status) == [id |-> id, status |-> status]

template(maxSteps, maxToolCalls, enabledToolIds, requiredSetup) ==
    [maxSteps |-> maxSteps, maxToolCalls |-> maxToolCalls,
     enabledToolIds |-> enabledToolIds, requiredSetup |-> requiredSetup]

githubToolIds == {"github.list_repositories", "github.get_file", "github.search_code",
                  "github.list_issues", "github.list_pull_requests",
                  "github.get_pull_request"}

DEFAULT_AGENT_TEMPLATES ==
    [key \in {"knowledge-researcher", "daily-news-briefing", "gmail-triage",
              "gmail-reply-assistant", "usage-analyst", "repository-researcher"} |->
       CASE key = "knowledge-researcher" ->
              template(8, 4, {"knowledge.search"},
                       {Needs("knowledge.search", "READY"),
                        Needs("knowledge.documents", "NEEDS_SETUP")})
         [] key = "daily-news-briefing" ->
              template(8, 4, {"news.fetch_rss"},
                       {Needs("news.fetch_rss", "READY"),
                        Needs("tenant-news-feeds", "NEEDS_SETUP")})
         [] key = "gmail-triage" ->
              template(10, 6, {"gmail.search_threads", "gmail.get_thread"},
                       {Needs("gmail.oauth", "NEEDS_SETUP")})
         [] key = "gmail-reply-assistant" ->
              template(10, 6, {"gmail.get_thread", "gmail.create_draft", "gmail.update_draft"},
                       {Needs("gmail.oauth", "NEEDS_SETUP"), Needs("gmail.review", "READY")})
         [] key = "usage-analyst" ->
              template(6, 2, {"usage.summary"}, {Needs("usage.summary", "READY")})
         [] OTHER ->
              template(8, 4, githubToolIds, {Needs("github.installation", "NEEDS_SETUP")})]

Keys == DOMAIN DEFAULT_AGENT_TEMPLATES

-----------------------------------------------------------------------------
(* AgentsService: the state of the setup and the requirements' statuses.    *)
(* env holds which Gmail settings the process has; a connection has whether *)
(* it holds each token, when it expires, in minutes, and its status.        *)

isGmailRuntimeConfigured(env) == env.key /\ (env.oauth \/ env.devMock)

gmailSetupStatus(env, connection, now) ==
    IF ~isGmailRuntimeConfigured(env)
    THEN IF connection = Null THEN "NEEDS_SETUP" ELSE "MISCONFIGURED"
    ELSE IF /\ connection # Null
            /\ connection.refreshToken
            /\ connection.status = "CONNECTED"
            /\ connection.expiresAt = Null \/ connection.expiresAt > now
    THEN "READY" ELSE "NEEDS_SETUP"

AVAILABLE_TOOL_IDS ==
    {"knowledge.search", "news.fetch_rss", "usage.summary", "gmail.search_threads",
     "gmail.get_thread", "gmail.create_draft", "gmail.update_draft"} \cup githubToolIds

(* has: which of feeds, indexed documents and authorized repositories there *)
(* are.                                                                     *)
templateSetupState(env, connection, now, has) ==
    [gmail |-> gmailSetupStatus(env, connection, now),
     hasAuthorizedGithubRepositories |-> "repository" \in has,
     hasEnabledNewsFeeds |-> "feed" \in has,
     hasIndexedKnowledge |-> "document" \in has]

requirementStatus(templateKey, requirement, setup) ==
    LET When(ready) == IF ready THEN "READY" ELSE "NEEDS_SETUP"
    IN CASE requirement.status = "PLANNED"             -> "PLANNED"
         [] requirement.id \in AVAILABLE_TOOL_IDS      -> "READY"
         [] requirement.id = "gmail.oauth"             -> setup.gmail
         [] requirement.id = "tenant-news-feeds"       -> When(setup.hasEnabledNewsFeeds)
         [] requirement.id = "knowledge.documents"     -> When(setup.hasIndexedKnowledge)
         [] requirement.id = "github.installation"     -> When(setup.hasAuthorizedGithubRepositories)
         [] OTHER -> IF templateKey = "usage-analyst" THEN "READY" ELSE requirement.status

dynamicRequirements(key, setup) ==
    {[r EXCEPT !.status = requirementStatus(key, r, setup)] :
        r \in DEFAULT_AGENT_TEMPLATES[key].requiredSetup}

(* The worker's getAccessToken: the token it has for two minutes more, or a *)
(* new one from Google, which answers here.                                 *)
hasUsableAccessToken(connection, now) ==
    connection.accessToken /\ connection.expiresAt # Null /\ connection.expiresAt > now + 1

getAccessToken(env, connection, now) ==
    IF connection = Null THEN "not connected"
    ELSE IF ~connection.refreshToken THEN "not connected"
    ELSE IF hasUsableAccessToken(connection, now) THEN "stored"
    ELSE IF env.oauth THEN "refreshed" ELSE "not configured"

-----------------------------------------------------------------------------
(* The editor's workflows of the templates.                                 *)

Always == [type |-> "always", of |-> ""]
If(type, of) == [type |-> type, of |-> of]
Failed(id) == If("previousStep.failed", id)

Node(id, type) == [id |-> id, type |-> type]

edge(id, source, target, condition) ==
    [id |-> id, source |-> source, target |-> target, condition |-> condition]

startNode == Node("start", "start")
completeNode == Node("complete", "complete")

newsDefinition ==
    [nodes |-> <<startNode, Node("rss-input?", "condition"),
                 Node("fetch-request-feed", "news.fetch_rss"),
                 Node("enabled-feeds?", "condition"),
                 Node("fetch-enabled-feeds", "news.fetch_rss"), Node("missing-feeds", "fail"),
                 Node("generate-briefing", "llm.generate"), completeNode>>,
     edges |-> <<edge("start-to-rss-check", "start", "rss-input?", Always),
                 edge("rss-check-to-request-feed", "rss-input?", "fetch-request-feed",
                      If("field.exists", "run.rssUrl")),
                 edge("rss-check-to-feed-check", "rss-input?", "enabled-feeds?",
                      Failed("rss-input?")),
                 edge("feed-check-to-enabled-feeds", "enabled-feeds?", "fetch-enabled-feeds",
                      If("field.exists", "tenant.enabledFeeds")),
                 edge("feed-check-to-missing-feeds", "enabled-feeds?", "missing-feeds",
                      Failed("enabled-feeds?")),
                 edge("request-feed-to-generate", "fetch-request-feed", "generate-briefing", Always),
                 edge("enabled-feeds-to-generate", "fetch-enabled-feeds", "generate-briefing", Always),
                 edge("generate-to-complete", "generate-briefing", "complete", Always)>>]

(* One tool, one answer. *)
toolDefinition(id, tool, answer, ids, condition) ==
    [nodes |-> <<startNode, Node(id, tool), Node(answer, "llm.generate"), completeNode>>,
     edges |-> <<edge(ids[1], "start", id, condition), edge(ids[2], id, answer, Always),
                 edge("generate-to-complete", answer, "complete", Always)>>]

gmailCheck(id, target) ==
    <<edge("start-to-gmail-check", "start", "gmail-connected?", Always),
      edge(id, "gmail-connected?", target, If("connection.exists", "GMAIL")),
      edge("gmail-check-to-fail", "gmail-connected?", "missing-gmail", Failed("gmail-connected?"))>>

gmailTriageDefinition ==
    [nodes |-> <<startNode, Node("gmail-connected?", "condition"),
                 Node("search-threads", "gmail.search_threads"),
                 Node("read-thread", "gmail.get_thread"), Node("generate-summary", "llm.generate"),
                 Node("missing-gmail", "fail"), completeNode>>,
     edges |-> gmailCheck("gmail-check-to-search", "search-threads")
                 \o <<edge("search-to-read", "search-threads", "read-thread", Always),
                      edge("read-to-generate", "read-thread", "generate-summary", Always),
                      edge("generate-to-complete", "generate-summary", "complete", Always)>>]

gmailReplyDefinition ==
    [nodes |-> <<startNode, Node("gmail-connected?", "condition"),
                 Node("read-thread", "gmail.get_thread"), Node("generate-draft", "llm.generate"),
                 Node("create-draft", "gmail.create_draft"), Node("review-draft", "human.review"),
                 Node("missing-gmail", "fail"), completeNode>>,
     edges |-> gmailCheck("gmail-check-to-read", "read-thread")
                 \o <<edge("read-to-generate", "read-thread", "generate-draft", Always),
                      edge("generate-to-draft", "generate-draft", "create-draft", Always),
                      edge("draft-to-review", "create-draft", "review-draft", Always),
                      edge("review-to-complete", "review-draft", "complete", Always)>>]

workflowDefinitionForTemplate(key) ==
    CASE key = "daily-news-briefing"   -> newsDefinition
      [] key = "usage-analyst"         ->
           toolDefinition("summarize-usage", "usage.summary", "generate-analysis",
                          <<"start-to-usage", "usage-to-generate">>, Always)
      [] key = "repository-researcher" ->
           toolDefinition("list-repositories", "github.list_repositories", "generate-research",
                          <<"start-to-list-repositories", "list-repositories-to-generate">>,
                          If("tool.enabled", "github.list_repositories"))
      [] key = "gmail-triage"          -> gmailTriageDefinition
      [] key = "gmail-reply-assistant" -> gmailReplyDefinition
      [] OTHER                         ->
           toolDefinition("retrieve-knowledge", "knowledge.search", "generate-answer",
                          <<"start-to-retrieve", "retrieve-to-generate">>,
                          If("tool.enabled", "knowledge.search"))

previewTemplateForAgent(agent) ==
    IF agent.templateKey # Null THEN agent.templateKey
    ELSE IF "knowledge.search" \in agent.enabledToolIds THEN "custom-knowledge" ELSE Null

(* nodeIdSchema has no question marks. *)
nodeIdSchema(id) == id \notin {"rss-input?", "enabled-feeds?", "gmail-connected?"}

agentWorkflowDefinitionSchema(d) ==
    /\ \A n \in Graph!ToSet(d.nodes) : nodeIdSchema(n.id)
    /\ Graph!Accepted(d)

workflowToolIdForNode(node) ==
    {node.type} \cap {"knowledge.search", "news.fetch_rss", "usage.summary",
                      "gmail.search_threads", "gmail.get_thread", "gmail.create_draft",
                      "gmail.update_draft"}

-----------------------------------------------------------------------------
(* The compiler's routes through such a workflow.  A run has the tools of   *)
(* its snapshot, the fields of its input, and counts its outputs.           *)

guardedTools == AVAILABLE_TOOL_IDS

workflowFieldExists(field, input) ==
    \/ field = "tenant.enabledFeeds" /\ "newsFeedIds" \in input
    \/ field = "run.rssUrl" /\ "rssUrl" \in input

evaluateCondition(condition, state) ==
    CASE condition.type = "always"              -> TRUE
      [] condition.type = "tool.enabled"        -> condition.of \in state.tools
      [] condition.type = "connection.exists"   ->
           /\ condition.of = "GMAIL"
           /\ state.tools \cap {"gmail.search_threads", "gmail.get_thread",
                                "gmail.create_draft", "gmail.update_draft"} # {}
      [] condition.type = "field.exists"        -> workflowFieldExists(condition.of, state.input)
      [] condition.type = "previousStep.failed" -> state.outputs = 0
      [] OTHER                                  -> FALSE

(* The nodes met, and the last one's type unless the run ended there for    *)
(* want of a tool or of a route.                                            *)
Route(d, tools, input) ==
    LET TypeOf(id) == (CHOOSE n \in Graph!ToSet(d.nodes) : n.id = id).type
        Outputs(path) == Cardinality({i \in DOMAIN path : TypeOf(path[i]) \in guardedTools})
        Open(path) ==
            LET Holds(e) == /\ e.source = path[Len(path)]
                            /\ evaluateCondition(e.condition, [tools |-> tools, input |-> input,
                                                               outputs |-> Outputs(path)])
            IN SelectSeq(d.edges, Holds)
        End(path) == LET type == TypeOf(path[Len(path)])
                     IN IF type \in guardedTools \ tools THEN "disabled"
                        ELSE IF type \in {"complete", "fail"} THEN type
                        ELSE IF Open(path) = <<>> THEN "unroutable" ELSE Null
        from[k \in 1 .. Len(d.nodes)] ==
            IF k = 1 THEN <<"start">>
            ELSE LET met == from[k - 1]
                 IN IF End(met) # Null THEN met ELSE Append(met, Open(met)[1].target)
        path == from[Len(d.nodes)]
    IN [path |-> path, end |-> End(path)]

-----------------------------------------------------------------------------
(* What must hold of them.                                                  *)

(* Every template's workflow has the right shape, and uses the tools of its *)
(* template only; but the three that ask a question cannot be saved, since  *)
(* their nodes are named with a mark that nodeIdSchema does not take.       *)
TemplateIsSound(key) ==
    LET d == workflowDefinitionForTemplate(key)
        used == UNION {workflowToolIdForNode(n) : n \in Graph!ToSet(d.nodes)}
    IN /\ Graph!Accepted(d)
       /\ used \subseteq DEFAULT_AGENT_TEMPLATES[key].enabledToolIds
       /\ agentWorkflowDefinitionSchema(d)
            <=> key \notin {"daily-news-briefing", "gmail-triage", "gmail-reply-assistant"}

(* With its template's tools such a run completes whatever its input is -   *)
(* except a briefing that names neither a URL nor feeds, which fails even   *)
(* when the tenant has enabled feeds; with fewer tools it never completes   *)
(* past a tool it does not have.                                            *)
TemplateRuns(key, tools, input) ==
    LET d == workflowDefinitionForTemplate(key)
        run == Route(d, tools, input)
        TypeOf(id) == (CHOOSE n \in Graph!ToSet(d.nodes) : n.id = id).type
        all == DEFAULT_AGENT_TEMPLATES[key].enabledToolIds \subseteq tools
    IN /\ run.end = "complete" =>
            \A i \in DOMAIN run.path : TypeOf(run.path[i]) \in guardedTools =>
                                          TypeOf(run.path[i]) \in tools
       /\ all => run.end = IF key = "daily-news-briefing"
                              /\ input \cap {"rssUrl", "newsFeedIds"} = {}
                           THEN "fail" ELSE "complete"
       /\ run.end # Null

(* When Gmail is said to be ready and OAuth is configured, a run gets a     *)
(* token, in time or refreshed; and every template is ready for a tenant    *)
(* that has everything.                                                     *)
SetupIsTrue(env, connection, now, has) ==
    LET setup == templateSetupState(env, connection, now, has)
    IN /\ setup.gmail = "READY" /\ env.oauth
            => getAccessToken(env, connection, now) \in {"stored", "refreshed"}
       /\ \A key \in Keys :
             (\A r \in dynamicRequirements(key, setup) : r.status = "READY")
               <=> CASE key = "knowledge-researcher"  -> "document" \in has
                     [] key = "daily-news-briefing"   -> "feed" \in has
                     [] key = "repository-researcher" -> "repository" \in has
                     [] key = "usage-analyst"         -> TRUE
                     [] OTHER                         -> setup.gmail = "READY"
=============================================================================
