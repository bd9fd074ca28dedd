---------------------------- MODULE UsageReport ----------------------------
(* The usage summary of a tenant: a pure function of its token-usage rows.  *)
(* A row is a record of ids and numbers; times are hours since some         *)
(* midnight, and a day has 24 of them.                                      *)
EXTENDS Integers, Sequences, FiniteSets, TLC

CONSTANTS
    PageSize,       \* usageSummaryPageSize
    RecordLimit,    \* usageSummaryRecordLimit
    Top,            \* how many runs and warnings are listed: 10
    Null

-----------------------------------------------------------------------------
(* Reading the rows, newest first, one page after the other.                *)

periodStart(period, now) ==
    CASE period = "24h" -> now - 24
      [] period = "7d"  -> now - 7 * 24
      [] period = "30d" -> now - 30 * 24
      [] period = "all" -> Null

SmallerOf(a, b) == IF a < b THEN a ELSE b

(* The page after the row that ended the last one.                          *)
listUsageRecords(rows, from) ==
    LET Wanted(row) == from = Null \/ row.createdAt >= from
        listing == SelectSeq(rows, Wanted)
        Page(read, take) ==
            SubSeq(listing, Len(read) + 1, SmallerOf(Len(read) + take, Len(listing)))
        more[k \in 0 .. RecordLimit] ==
            LET read == IF k = 0 THEN <<>> ELSE more[k - 1]
                take == SmallerOf(PageSize, RecordLimit - Len(read))
            IN read \o Page(read, take)
    IN more[RecordLimit \div PageSize]

-----------------------------------------------------------------------------
(* Totals, by whatever the rows are grouped by.                             *)

emptyTotals == [inputTokens |-> 0, outputTokens |-> 0, totalTokens |-> 0,
                costMicros |-> 0, latencyMs |-> 0, retryCount |-> 0]

addRecord(current, row) ==
    [inputTokens  |-> current.inputTokens + row.inputTokens,
     outputTokens |-> current.outputTokens + row.outputTokens,
     totalTokens  |-> current.inputTokens + row.inputTokens
                        + current.outputTokens + row.outputTokens,
     costMicros   |-> current.costMicros + row.costMicros,
     latencyMs    |-> current.latencyMs + row.latencyMs,
     retryCount   |-> current.retryCount + row.retryCount]

sum(records) ==
    LET upTo[k \in 0 .. Len(records)] ==
            IF k = 0 THEN emptyTotals ELSE addRecord(upTo[k - 1], records[k])
    IN upTo[Len(records)]

(* A Map from each key to the totals of its rows.                           *)
groupBy(records, Key(_)) ==
    [key \in {Key(records[i]) : i \in DOMAIN records} |->
        LET Its(row) == Key(row) = key IN sum(SelectSeq(records, Its))]

groupByAgent(records) == LET Key(row) == row.agentId IN groupBy(records, Key)

groupByProviderModel(records) ==
    LET Key(row) == <<row.provider, row.model>> IN groupBy(records, Key)

-----------------------------------------------------------------------------
(* Runs: what its steps and its configuration say, from the run's first row.*)

countToolCalls(steps) ==
    LET Call(step) == /\ step.status = "COMPLETED"
                      /\ step.kind \in {"rag.retrieve", "mcp.news", "mcp.gmail", "mcp.github",
                                        "usage.summary", "gmail.draft_review"}
    IN Len(SelectSeq(steps, Call))

(* sources stands for what the preview parses to: a list's length, or Null. *)
countRetrievalHits(steps) ==
    LET upTo[k \in 0 .. Len(steps)] ==
            IF k = 0 THEN 0
            ELSE LET step == steps[k]
                 IN IF step.kind # "rag.retrieve" \/ step.status # "COMPLETED"
                    THEN upTo[k - 1]
                    ELSE upTo[k - 1] + (IF step.sources = Null THEN 1 ELSE step.sources)
    IN upTo[Len(steps)]

runObservability(config) ==
    IF config.valid THEN config.templateKey
    ELSE IF config.templateKey \in {"knowledge-researcher", "daily-news-briefing",
               "gmail-triage", "gmail-reply-assistant", "usage-analyst"}
         THEN config.templateKey
         ELSE Null

groupByRun(records) ==
    LET Key(row) == row.runId
        totals == groupBy(records, Key)
        First(run) == CHOOSE row \in {records[i] : i \in DOMAIN records} : row.runId = run
        Run(id) == LET run == First(id).run
                   IN [runId |-> id, createdAt |-> run.createdAt,
                       templateKey |-> runObservability(run.config),
                       toolCallsUsed |-> countToolCalls(run.steps),
                       retrievalHitCount |-> countRetrievalHits(run.steps),
                       finalAnswerTokens |-> totals[id].outputTokens,
                       totalTokens |-> totals[id].totalTokens]
    IN [id \in DOMAIN totals |-> Run(id)]

-----------------------------------------------------------------------------
(* Periods: hours of the last day, else days.                               *)

bucketLength(period) == IF period = "24h" THEN 1 ELSE 24

bucketStart(time, period) == time - (time % bucketLength(period))

bucketEnd(start, period) == start + bucketLength(period)

groupByPeriod(records, period) ==
    LET Key(row) == bucketStart(row.createdAt, period)
        Runs(start) == {records[i].runId : i \in {j \in DOMAIN records : Key(records[j]) = start}}
        totals == groupBy(records, Key)
    IN [start \in DOMAIN totals |->
           [periodEnd |-> bucketEnd(start, period), runCount |-> Cardinality(Runs(start)),
            totals |-> totals[start]]]

-----------------------------------------------------------------------------
(* Lists and warnings.                                                      *)

FirstOf(n, list) == SubSeq(list, 1, SmallerOf(n, Len(list)))

byTokensDesc(left, right) == left.totalTokens > right.totalTokens

byRunCreatedAtDescThenTokens(left, right) ==
    \/ left.createdAt > right.createdAt
    \/ left.createdAt = right.createdAt /\ byTokensDesc(left, right)

Newest(runs) == FirstOf(Top, SortSeq(runs, byRunCreatedAtDescThenTokens))

(* Math.round of the percentage. *)
percentOf(part, whole) == (200 * part + whole) \div (2 * whole)

warningForRun(run, config) ==
    IF ~config.valid \/ config.maxTokens \in {Null, 0} THEN Null
    ELSE LET percentUsed == percentOf(run.totalTokens, config.maxTokens)
         IN IF percentUsed < 80 THEN Null
            ELSE [runId |-> run.runId, percentUsed |-> percentUsed,
                  level |-> IF percentUsed >= 100 THEN "OVER_BUDGET" ELSE "NEAR_BUDGET"]

budgetWarnings(runs, config) ==
    LET warnings == [i \in DOMAIN runs |-> warningForRun(runs[i], config[runs[i].runId])]
        Given(warning) == warning # Null
        MoreUsed(left, right) == left.percentUsed > right.percentUsed
    IN FirstOf(Top, SortSeq(SelectSeq(warnings, Given), MoreUsed))

-----------------------------------------------------------------------------
(* What must hold of the summary of any rows.                               *)

Total(groups, Part(_)) ==
    LET upTo[S \in SUBSET DOMAIN groups] ==
            IF S = {} THEN 0
            ELSE LET key == CHOOSE key \in S : TRUE
                 IN Part(groups[key]) + upTo[S \ {key}]
    IN upTo[DOMAIN groups]

(* The pages join to the newest rows of the period, none left out or read   *)
(* twice, up to the limit.                                                  *)
PagesJoin(rows, from) ==
    LET Wanted(row) == from = Null \/ row.createdAt >= from
    IN listUsageRecords(rows, from) = FirstOf(RecordLimit, SelectSeq(rows, Wanted))

(* Every grouping splits the same total: no token is counted twice or lost. *)
GroupsAddUp(records, period) ==
    LET Tokens(totals) == totals.totalTokens
        InPeriod(bucket) == bucket.totals.totalTokens
        total == sum(records).totalTokens
    IN /\ Total(groupByAgent(records), Tokens) = total
       /\ Total(groupByProviderModel(records), Tokens) = total
       /\ Total(groupByRun(records), Tokens) = total
       /\ Total(groupByPeriod(records, period), InPeriod) = total

(* Every row falls into its period, and a run is counted in a period once.  *)
PeriodsHoldTheirRows(records, period) ==
    LET buckets == groupByPeriod(records, period)
    IN \A i \in DOMAIN records :
          \E start \in DOMAIN buckets :
             /\ start <= records[i].createdAt /\ records[i].createdAt < buckets[start].periodEnd
             /\ buckets[start].runCount \in 1 .. Len(records)

(* A run over its budget is always warned about, and no run under 79 percent.*)
WarningsAreDue(total, maxTokens) ==
    LET warning == warningForRun([runId |-> 1, totalTokens |-> total],
                                 [valid |-> TRUE, maxTokens |-> maxTokens])
    IN /\ total >= maxTokens => warning # Null /\ warning.level = "OVER_BUDGET"
       /\ 100 * total < 79 * maxTokens => warning = Null
=============================================================================
