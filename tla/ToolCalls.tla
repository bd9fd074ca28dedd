----------------------------- MODULE ToolCalls -----------------------------
(* The tool registry of an agent run: which tools it holds under which      *)
(* configuration, what a call does and what it writes to the audit log, and *)
(* what the Gmail and GitHub tools call in which order.                     *)
EXTENDS Naturals, Sequences, FiniteSets

CONSTANTS
    Error,          \* what a step that throws returns
    Null,
    AuditLimit      \* maxPersistedPreviewLength

gmailTools == {"gmail.search_threads", "gmail.get_thread", "gmail.create_draft",
               "gmail.update_draft"}
githubTools == {"github.list_repositories", "github.get_file", "github.search_code",
                "github.list_issues", "github.list_pull_requests", "github.get_pull_request"}

(* processAgentRun: the tools of Gmail and GitHub need a token provider,    *)
(* or Gmail's mock.                                                         *)
Registered(gmail, github) ==
    {"knowledge.search", "news.fetch_rss", "usage.summary"}
      \cup (IF gmail \in {"mock", "configured"} THEN gmailTools ELSE {})
      \cup (IF github = "configured" THEN githubTools ELSE {})

list(tools, enabledToolIds) == enabledToolIds \cap tools

-----------------------------------------------------------------------------
(* What a tool does with a valid input: the calls it makes, in order, and   *)
(* its output or Error.  world says which of these calls succeed.           *)

Until(calls, world) ==
    LET Fails(k) == calls[k] \notin world
    IN IF \E k \in DOMAIN calls : Fails(k)
       THEN [calls |-> SubSeq(calls, 1, CHOOSE k \in DOMAIN calls :
                                            Fails(k) /\ \A l \in 1 .. k - 1 : ~Fails(l)),
             output |-> Error]
       ELSE [calls |-> calls, output |-> "output"]

(* The repository's authorization, then a token for it, then the request.   *)
githubTool(toolId, world) ==
    Until(IF toolId = "github.list_repositories" THEN <<"listRepositories">>
          ELSE <<"assertRepositoryAccess", "getAccessToken", "request">>, world)

(* GmailRestClient asks for a token before each of its requests; a search   *)
(* makes one for the list and one for each thread, here one thread.         *)
gmailTool(toolId, world) ==
    Until(IF toolId = "gmail.search_threads"
          THEN <<"getAccessToken", "list", "getAccessToken", "request">>
          ELSE <<"getAccessToken", "request">>, world)

execute(toolId, world) ==
    IF toolId \in githubTools THEN githubTool(toolId, world)
    ELSE IF toolId \in gmailTools THEN gmailTool(toolId, world)
    ELSE Until(<<"request">>, world)

-----------------------------------------------------------------------------
(* StaticToolRegistry.call.  auditFails says which of the call's entries    *)
(* the audit log does not take.  An entry of a completed call that is not   *)
(* taken brings the call to its catch block, which writes a second one.     *)

audit(status, errorCode) == [status |-> status, errorCode |-> errorCode]

call(tools, enabledToolIds, toolId, valid, world, auditFails) ==
    LET allowed == toolId \in list(tools, enabledToolIds)
        run == IF allowed /\ valid.input THEN execute(toolId, world)
               ELSE [calls |-> <<>>, output |-> Error]
        worked == run.output # Error /\ valid.output
        entries == IF ~allowed THEN <<audit("DENIED", "TOOL_NOT_ALLOWED")>>
                   ELSE IF ~worked THEN <<audit("FAILED", "TOOL_CALL_FAILED")>>
                   ELSE IF 1 \in auditFails
                   THEN <<audit("COMPLETED", Null), audit("FAILED", "TOOL_CALL_FAILED")>>
                   ELSE <<audit("COMPLETED", Null)>>
    IN [calls |-> run.calls,
        audits |-> {entries[i] : i \in DOMAIN entries \ auditFails},
        result |-> IF ~allowed /\ 1 \notin auditFails THEN "TOOL_NOT_ALLOWED"
                   ELSE IF worked /\ 1 \notin auditFails THEN run.output
                   ELSE Error]

(* PrismaToolAuditSink: what is kept of a payload.                          *)
safePreview(toolId, length) ==
    IF toolId \in gmailTools \cup githubTools THEN "redacted"
    ELSE IF length > AuditLimit THEN AuditLimit ELSE length

-----------------------------------------------------------------------------
(* GithubRestClient.listIssues: the API answers issues and pull requests    *)
(* together, a page of limit; the pull requests are left out afterwards.    *)
listIssues(answer, limit) ==
    LET page == SubSeq(answer, 1, IF Len(answer) < limit THEN Len(answer) ELSE limit)
        Issue(item) == ~item.pullRequest
    IN SelectSeq(page, Issue)

(* decodeContent and boundText: a file that is not base64 is empty.         *)
getFile(response, bound) ==
    IF response.encoding # "base64" THEN <<>>
    ELSE SubSeq(response.content, 1, IF Len(response.content) < bound THEN Len(response.content)
                                     ELSE bound)

-----------------------------------------------------------------------------
(* What must hold of them.                                                  *)

(* Nothing is called for a tool that the agent has not enabled, that its    *)
(* configuration does not register, or whose input is invalid; and what a   *)
(* call did is told to the caller unless the audit log fails.               *)
OnlyAllowedToolsRun(tools, enabledToolIds, toolId, valid, world, auditFails) ==
    LET told == call(tools, enabledToolIds, toolId, valid, world, auditFails)
    IN /\ told.calls # <<>> => toolId \in tools /\ toolId \in enabledToolIds /\ valid.input
       /\ auditFails = {} /\ valid.output /\ told.calls # <<>>
            => told.result = execute(toolId, world).output

(* A call has one entry in the audit log - none when the log fails for good *)
(* - and it says what the caller is told: also when a completed call's own  *)
(* entry is lost, and both say it failed although its effect stands.        *)
AuditAgrees(tools, enabledToolIds, toolId, valid, world, auditFails) ==
    LET told == call(tools, enabledToolIds, toolId, valid, world, auditFails)
        Entry == CASE told.result = "output"           -> "COMPLETED"
                   [] told.result = "TOOL_NOT_ALLOWED" -> "DENIED"
                   [] OTHER                            -> "FAILED"
    IN /\ Cardinality(told.audits) <= 1
       /\ auditFails = {} => told.audits # {}
       /\ \A entry \in told.audits : entry.status = Entry

(* No GitHub request is made, and no token fetched, for a repository that   *)
(* is not authorized.                                                       *)
RequestsAreAuthorized(toolId, world) ==
    LET calls == execute(toolId, world).calls
    IN toolId \in githubTools /\ "assertRepositoryAccess" \notin world
         => \A k \in DOMAIN calls : calls[k] \notin {"getAccessToken", "request"}

(* Filtering never returns more than was asked for, and every issue of the  *)
(* page; that a page full of pull requests shows no issue is left to the    *)
(* caller.                                                                  *)
IssuesOfThePage(answer, limit) ==
    LET issues == listIssues(answer, limit)
    IN /\ Len(issues) <= limit
       /\ \A i \in 1 .. (IF Len(answer) < limit THEN Len(answer) ELSE limit) :
             answer[i].pullRequest \/ \E k \in DOMAIN issues : issues[k] = answer[i]
=============================================================================
