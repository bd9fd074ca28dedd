---------------------------- MODULE MCAlgorithms ----------------------------
(* The pure algorithms, each checked over all small inputs: TLC evaluates   *)
(* the assumptions before it looks for states.                              *)
EXTENDS Naturals, Sequences, FiniteSets, TLC

CONSTANTS Thrown, Absent, Finished

LOCAL Strings(S, n) == UNION {[1 .. k -> S] : k \in 0 .. n}

Text == INSTANCE TextChunks WITH Error <- Thrown, Null <- Absent
Search == INSTANCE KnowledgeSearch WITH Error <- Thrown, Null <- Absent
News == INSTANCE NewsFeeds WITH FeedLimit <- 2, ItemLimit <- 3, Error <- Thrown, Null <- Absent
Score == INSTANCE GoldenScore WITH Null <- Absent
Stream == INSTANCE ModelStream WITH Done <- Finished, Error <- Thrown, Null <- Absent
Tools == INSTANCE ToolCalls WITH Error <- Thrown, Null <- Absent, AuditLimit <- 2
Templates == INSTANCE AgentTemplates WITH Null <- Absent
Layout == INSTANCE WorkflowLayout WITH Null <- Absent
Mail == INSTANCE GmailThreads WITH MessageLimit <- 3, ContextLimit <- 2, Error <- Thrown, Null <- Absent
Uploads == INSTANCE DocumentUploads WITH MaxBytes <- 2, NameLimit <- 3, Error <- Thrown
Rate == INSTANCE RateLimiter
Usage == INSTANCE UsageReport WITH PageSize <- 2, RecordLimit <- 4, Top <- 2, Null <- Absent

-----------------------------------------------------------------------------
(* Texts of up to six characters; up to six words, cut with every target    *)
(* and overlap up to seven; PDFs of up to two pages, with and without OCR.  *)
ASSUME TextsAreNormalized ==
    \A text \in Strings({"a", " ", "n", "r"}, 6) : Text!NormalizedOnce(text)

(* Chunks of any size, also when the overlap is as large as a chunk.        *)
ASSUME TextsAreChunked ==
    \A length \in 0 .. 6, target \in 1 .. 7, overlap \in 0 .. 7 :
       Text!ChunksCover([i \in 1 .. length |-> i], target, overlap)

OcrPages == {Thrown, <<>>, << <<"n", "a">> >>, << <<"b">>, <<" ", "c">> >>}

(* PDFs of up to two pages, some of which OCR cannot read.                  *)
ASSUME PdfsAreRead ==
    \A text \in {<<>>, <<"n", "a">>, <<"a", " ", "b">>}, pages \in Strings(OcrPages, 2),
       ocr \in {"ollama-vision-ocr", Absent}, minimum \in 0 .. 2, limit \in 1 .. 2 :
       Text!PagesAreRead([mimeType |-> "application/pdf", text |-> text, pages |-> pages], ocr,
           [ocrTextMinCharacters |-> minimum, ocrTextMinWords |-> minimum,
            ocrMaxPdfPages |-> limit])

(* Up to three texts whose vectors come in any order; four points of two    *)
(* documents and two tenants, some of which are replaced.                   *)
ASSUME VectorsAreOrdered ==
    \A n \in 0 .. 3 : \A order \in Permutations(1 .. n) :
       Search!VectorsFollowTexts([i \in 1 .. n |-> i], [i \in 1 .. n |-> order[i]])

Point(id, tenant, document, size) ==
    [id |-> id, tenantId |-> tenant, documentId |-> document, size |-> size]

OldPoints == {Point(1, "t", "d", 2), Point(2, "t", "d", 2), Point(3, "t", "e", 2),
              Point(4, "u", "d", 2)}

(* A reindexed document, with rows deleted or not indexed yet.              *)
ASSUME SearchesFindWhatIsIndexed ==
    \A old \in SUBSET OldPoints, size \in {2, 3}, limit \in 1 .. 3,
       documents \in SUBSET {"d", "e"}, indexed \in SUBSET {1, 3, 5} :
       LET new == {Point(1, "t", "d", size), Point(5, "t", "d", size)}
           rows == {[id |-> i, tenantId |-> IF i = 4 THEN "u" ELSE "t",
                     indexed |-> i \in indexed] : i \in 1 .. 5}
       IN Search!ReplacedPointsAreFound(old, new, rows, <<5, 3, 1, 4, 2>>, "t",
                                        documents, limit)

-----------------------------------------------------------------------------
(* Streams of up to five characters in two reads; up to three chunks.*)
ASSUME StreamsAreCutAnywhere ==
    \A text \in Strings({"a", ":", "n", "r"}, 5) :
       \A i \in 0 .. Len(text) : \A j \in {i, Len(text)} :
          Stream!ReadsDoNotMatter(<<SubSeq(text, 1, i), SubSeq(text, i + 1, j),
                                    SubSeq(text, j + 1, Len(text))>>)

Chunks == {Finished, Thrown}
    \cup [choices : {<<>>, <<[content |-> "a", finish |-> "none"]>>,
                     <<[content |-> Absent, finish |-> "stop"], [content |-> "b", finish |-> Absent]>>},
          usage : {Absent, 1, 2}]

(* Streams of up to three chunks, of which any may be the last or throw.    *)
ASSUME AnswersAreStored ==
    \A chunks \in Strings(Chunks, 3) : Stream!AnswerIsWhatWasShown(chunks)

-----------------------------------------------------------------------------
(* Cases of up to two phrases of each kind; up to the 75 expectations that  *)
(* createGoldenCaseSchema allows; conversations of up to three messages.    *)
ASSUME AnswersAreScored ==
    /\ \A facts, claims, sources \in Strings({"p", "q"}, 2), answer \in SUBSET {"p", "q"} :
          Score!ScoreIsFair([expectedFacts |-> facts, forbiddenClaims |-> claims,
                             expectedSources |-> sources], answer)
    /\ \A total \in 1 .. 75 : Score!OnlyFullScoresAreFull(total)
    /\ \A scores \in Strings({0, 500, 987, 1000}, 3) :
          Score!SummaryIsFair([i \in DOMAIN scores |->
                                  [passed |-> scores[i] = 1000, score |-> scores[i]]])
    /\ \A messages \in Strings([role : {"USER", "ASSISTANT"}, content : {{"p"}, {"q"}}], 3),
          run \in {Absent, [errorMessage |-> {}]} :
          Score!AnswerIsScored(run, <<[kind |-> "llm.generate", status |-> "FAILED",
                                       outputPreview |-> Absent]>>, messages)

-----------------------------------------------------------------------------
(* Three URLs, up to two rows, or three enabled and not, a web of redirects among four URLs.       *)
FeedRows == {[id |-> i, url |-> url, enabled |-> enabled, deleted |-> deleted, fetch |-> fetch] :
                i \in 1 .. 2, url \in {"u", "v", "w"}, enabled \in BOOLEAN,
                deleted \in BOOLEAN,
                fetch \in {News!Unfetched, [status |-> "COMPLETED", items |-> 1, errorCode |-> Absent]}}

FeedTables == {table \in UNION {{{}}, {{a} : a \in FeedRows},
                   {{a, b} : a, b \in FeedRows}} : 
                 News!RowsAreSound(table) /\ {row.id : row \in table} = 1 .. Cardinality(table)}

(* Any request on any such table leaves it sound.                           *)
ASSUME FeedsStaySound ==
    \A table \in FeedTables, id \in {1, 2}, url \in {"u", "v"} :
       News!RequestsKeepRowsSound(table, id, url, TRUE)

Answers == {Thrown, [redirect |-> FALSE, location |-> Absent]}
             \cup [redirect : {TRUE}, location : {Absent, 1, 2, 3, 4, 5}]

(* Redirects through up to five URLs, safe or not, in circles or not.       *)
ASSUME RedirectsAreBounded ==
    \A web \in [1 .. 2 -> [safe : BOOLEAN, answer : Answers]] : \A last \in Answers :
       News!FetchIsBounded(
           [u \in 1 .. 5 |-> IF u \in DOMAIN web THEN web[u]
                             ELSE [safe |-> TRUE,
                                   answer |-> IF u = 5 THEN last
                                              ELSE [redirect |-> TRUE, location |-> u + 1]]], 1)

(* Up to three enabled feeds of which any cannot be fetched, and a limit on *)
(* the calls.                                                               *)
ASSUME NewsIsRecorded ==
    \A enabled \in [1 .. 3 -> BOOLEAN], ids \in SUBSET {1, 2, 3}, callsLeft \in 0 .. 3,
       fetched \in [{"u", "v", "w"} -> {Thrown, <<>>, <<1, 2>>}] :
       News!FetchesAreRecorded(
           {[id |-> i, url |-> <<"u", "v", "w">>[i], enabled |-> enabled[i], deleted |-> FALSE,
             fetch |-> News!Unfetched] : i \in 1 .. 3}, ids, callsLeft, fetched)

-----------------------------------------------------------------------------
(* Every tool, enabled or not, under every configuration, with every set of *)
(* calls that succeed.                                                      *)
World == {"assertRepositoryAccess", "getAccessToken", "request", "list", "listRepositories"}

ToolIds == {"knowledge.search", "gmail.search_threads", "gmail.update_draft",
            "github.list_repositories", "github.get_file"}

(* Also when the audit entry of a call, or of its failure, is lost.         *)
ASSUME ToolsAreAudited ==
    \A gmail \in {"none", "mock", "configured"}, github \in {"none", "configured"},
       enabled \in {{}, ToolIds}, toolId \in ToolIds, world \in SUBSET World,
       valid \in [input : BOOLEAN, output : BOOLEAN], auditFails \in {{}, {1}, {1, 2}} :
       LET tools == Tools!Registered(gmail, github)
       IN /\ Tools!OnlyAllowedToolsRun(tools, enabled, toolId, valid, world, auditFails)
          /\ Tools!AuditAgrees(tools, enabled, toolId, valid, world, auditFails)
          /\ Tools!RequestsAreAuthorized(toolId, world)

(* Answers of up to three issues and pull requests.                         *)
ASSUME IssuesAreFiltered ==
    \A answer \in Strings([number : {1, 2}, pullRequest : BOOLEAN], 3), limit \in 1 .. 3 :
       Tools!IssuesOfThePage(answer, limit)

-----------------------------------------------------------------------------
(* Up to five rows of two runs over three days, newest first, and budgets   *)
(* around the two thresholds.                                               *)
UsageRow(i, run, hour) ==
    [id |-> i, runId |-> run, agentId |-> IF run = 1 THEN "g" ELSE "h",
     provider |-> "ollama", model |-> IF i % 2 = 0 THEN "m" ELSE "n",
     inputTokens |-> i, outputTokens |-> 1, costMicros |-> 0, latencyMs |-> 10 * i,
     retryCount |-> 0, createdAt |-> hour,
     run |-> [createdAt |-> run, config |-> [valid |-> run = 1, templateKey |-> "usage-analyst"],
              steps |-> <<[kind |-> "rag.retrieve", status |-> "COMPLETED", sources |-> run]>>]]

Hours == <<71, 49, 48, 47, 20, 1>>

UsageRows == {[i \in 1 .. n |-> UsageRow(i, owner[i], Hours[i + shift])] :
                 n \in 0 .. 5, shift \in {0, 1}, owner \in [1 .. 5 -> {1, 2}]}

(* Over pages of two rows, read until the limit of four.                    *)
ASSUME UsageAddsUp ==
    \A rows \in UsageRows :
       /\ \A period \in {"24h", "7d", "all"} :
             Usage!PagesJoin(rows, Usage!periodStart(period, 71))
       /\ \A period \in {"24h", "7d"} :
             Usage!GroupsAddUp(rows, period) /\ Usage!PeriodsHoldTheirRows(rows, period)

(* Totals around both thresholds of budgets that do not divide them.        *)
ASSUME BudgetsAreWatched ==
    \A total \in 0 .. 130, maxTokens \in {1, 3, 7, 100} : Usage!WarningsAreDue(total, maxTokens)

-----------------------------------------------------------------------------
(* The six templates' workflows.                                            *)
ASSUME TemplatesAreSound == \A key \in Templates!Keys : Templates!TemplateIsSound(key)

(* Runs with any of the template's tools and any input.                     *)
ASSUME TemplatesRun ==
    \A key \in Templates!Keys : \A input \in SUBSET {"rssUrl", "newsFeedIds"} :
       \A tools \in SUBSET Templates!DEFAULT_AGENT_TEMPLATES[key].enabledToolIds :
          Templates!TemplateRuns(key, tools, input)

Connections == {Absent} \cup
    [accessToken : BOOLEAN, refreshToken : BOOLEAN,
     status : {"CONNECTED", "DISCONNECTED", "EXPIRED"}, expiresAt : {Absent} \cup 0 .. 3]

(* Any process settings, connection and setup of the tenant.                *)
ASSUME SetupIsShown ==
    \A env \in [key : BOOLEAN, oauth : BOOLEAN, devMock : BOOLEAN],
       connection \in Connections, now \in 0 .. 1,
       has \in SUBSET {"feed", "document", "repository"} :
       Templates!SetupIsTrue(env, connection, now, has)

(* Workflows of up to five nodes that are joined forwards, those of up to   *)
(* four whose edges go anywhere, and those of the templates.                *)
Drawn(nodes, edges) ==
    [nodes |-> [i \in 1 .. nodes |->
                   [id |-> i, type |-> IF i = 1 THEN "start"
                                       ELSE IF i = nodes THEN "complete" ELSE "condition"]],
     edges |-> edges]

Joined(source, target, type) ==
    [source |-> source, target |-> target, condition |-> [type |-> type, of |-> ""]]

Types == <<"previousStep.failed", "always", "tool.enabled">>

(* Every node's edges in the order of their targets, or against it.         *)
InOrder(pairs, n, up) ==
    SelectSeq([i \in 1 .. n * n |->
                  LET s == ((i - 1) \div n) + 1
                      t == ((i - 1) % n) + 1
                  IN <<s, IF up THEN t ELSE n + 1 - t>>],
              LAMBDA p : p \in pairs)

DrawnFrom(pairs, n, up, shift) ==
    LET order == InOrder(pairs, n, up)
    IN Drawn(n, [i \in DOMAIN order |->
                    Joined(order[i][1], order[i][2], Types[((i + shift) % 3) + 1])])

(* Where each of them is drawn.                                             *)
ASSUME LayoutsAreReadable ==
    /\ \A pairs \in SUBSET {p \in (1 .. 5) \X (1 .. 5) : p[1] < p[2]} :
          \A up \in BOOLEAN, shift \in 0 .. 2 :
             Layout!LayoutIsReadable(DrawnFrom(pairs, 5, up, shift), TRUE)
    /\ \A pairs \in SUBSET ((1 .. 3) \X (1 .. 4)) :
          Layout!LayoutIsReadable(DrawnFrom(pairs, 4, TRUE, 0), FALSE)
    /\ \A key \in Templates!Keys :
          Layout!LayoutIsReadable(Templates!workflowDefinitionForTemplate(key), TRUE)

(* Every preset of the form, for an edge from any node.                     *)
ASSUME PresetsAreKept ==
    \A preset \in {"knowledge", "rss", "feeds", "gmail", "failure", "always"},
       sourceNodeId \in {"start", "generate-answer"} :
       Layout!PresetsAreKept(preset, sourceNodeId)

-----------------------------------------------------------------------------
(* Threads of up to four messages, one more than are read.                  *)
Senders == [angle : {Absent, "a"}, direct : {Absent, "b", "c"}]

MailMessages == [id : {1}, from : Senders, subject : [re : BOOLEAN, of : {"s"}], payload : {Absent}]

ASSUME RepliesAnswerLastRead ==
    \A messages \in Strings(MailMessages, 2), more \in {0, 1, 2},
       answer \in {<<>>, <<" ">>, <<"w", "n">>} :
       Mail!ReplyAnswersLastRead(messages \o [i \in 1 .. (IF messages = <<>> THEN 0 ELSE more) |->
           [messages[1] EXCEPT !.from.direct = "d"]], answer)

(* Budgets of up to five calls and up to four threads, some without an id.  *)
ASSUME TriagesAreBounded ==
    \A listed \in Strings({Absent, 1, 2}, 4), readable \in SUBSET {1, 2}, callsLeft \in 0 .. 5 :
       Mail!TriageIsBounded(callsLeft, listed, readable)

(* Three parts, plain or not, nested in each way.                           *)
Parts == [type : {"text/plain"}, data : {Absent, <<"a">>, <<"n", "b">>, <<" ">>}, parts : {<<>>}]
           \cup [type : {"text/html"}, data : {<<"h">>}, parts : {<<>>}]

Multi(parts) == [type |-> "multipart/mixed", data |-> Absent, parts |-> parts]

ASSUME PartsAreRead ==
    \A p, q, r \in Parts :
       LET Plain(part) == part.type = "text/plain" /\ part.data # Absent
           plain == SelectSeq(<<p, q, r>>, Plain)
           texts == [i \in DOMAIN plain |-> plain[i].data]
       IN \A payload \in {Multi(<<p, q, r>>), Multi(<<p, Multi(<<q, r>>)>>),
                          Multi(<<Multi(<<p, q>>), r>>)} : Mail!TextOfParts(payload, texts)

(* Subjects and bodies of up to three characters.                           *)
ASSUME RawMessagesAreReviewed ==
    \A subject \in Strings({"s", " ", "r", "n"}, 3), body \in Strings({"b", "r", "n"}, 3),
       cc \in {<<>>, << <<"c">>, <<"n", "d">> >>} :
       Mail!RawIsReviewed([to |-> << <<"t">> >>, cc |-> cc, subject |-> subject, body |-> body])

-----------------------------------------------------------------------------
(* Files of every type and content, with names of up to four characters.    *)
ASSUME AcceptedNamesStay ==
    \A name \in Strings({"a", "/", "c", " ", ".pdf", ".md"}, 4), size \in 0 .. 3,
       mimeType \in {"application/pdf", "text/markdown", "text/html"},
       content \in {"pdf", "text", "zero"} :
       Uploads!AcceptedNamesStay([name |-> name, size |-> size, mimeType |-> mimeType,
                                  content |-> content])

-----------------------------------------------------------------------------
(* Up to four requests of two clients in four instants, one of them exempt. *)
Requests == [key : {"c", "d"}, now : 0 .. 3, exempt : {FALSE}]
              \cup [key : {"c"}, now : {1}, exempt : {TRUE}]

ASSUME LimitIsKept ==
    \A requests \in {r \in Strings(Requests, 4) :
                       \A i, j \in DOMAIN r : i < j => r[i].now <= r[j].now} :
       \A limit \in 0 .. 2, windowMs \in 1 .. 3 :
          Rate!LimitIsKept([enabled |-> TRUE, limit |-> limit, windowMs |-> windowMs], requests)
=============================================================================
