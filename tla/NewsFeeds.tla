----------------------------- MODULE NewsFeeds -----------------------------
(* The news feeds of a tenant: their rows, a feed's fetch over redirects,   *)
(* the items of an RSS or Atom document, the refresh the page asks for and  *)
(* the step mcp.news of an agent run.  Ids are numbers in order of          *)
(* creation.                                                                *)
EXTENDS Naturals, Sequences, FiniteSets, TLC

CONSTANTS
    FeedLimit,      \* how many enabled feeds are taken: 10
    ItemLimit,      \* how many items a refresh returns: 200
    Error,          \* what an operation that throws returns
    Null

-----------------------------------------------------------------------------
(* PrismaNewsFeedRepository.                                                *)

(* What the fetch columns say before the first fetch.                       *)
Unfetched == [status |-> "NEVER", items |-> Null, errorCode |-> Null]

InOrder(rows) ==
    LET ByAge(left, right) == left.id < right.id
        some == CHOOSE f \in [1 .. Cardinality(rows) -> rows] :
                   \A i, j \in DOMAIN f : i # j => f[i] # f[j]
    IN IF rows = {} THEN <<>> ELSE SortSeq(some, ByAge)

FirstOf(n, list) == SubSeq(list, 1, IF Len(list) < n THEN Len(list) ELSE n)

Live(rows) == {row \in rows : ~row.deleted}

listEnabled(rows, limit) == FirstOf(limit, InOrder({row \in Live(rows) : row.enabled}))

listByIds(rows, ids) == InOrder({row \in Live(rows) : row.id \in ids})

NewRow(id, url, enabled) ==
    [id |-> id, url |-> url, enabled |-> enabled, deleted |-> FALSE, fetch |-> Unfetched]

(* A deleted feed with this URL is revived as a new one under its old id.   *)
create(rows, url, enabled) ==
    LET existing == {row \in rows : row.url = url}
    IN IF existing \cap Live(rows) # {} THEN Error
       ELSE IF existing # {}
       THEN (rows \ existing) \cup {NewRow(row.id, url, enabled) : row \in existing}
       ELSE rows \cup {NewRow(Cardinality(rows) + 1, url, enabled)}

(* A URL that any other row has, a deleted one too, is refused; the fetch   *)
(* columns stay when the URL changes.                                       *)
update(rows, id, url, enabled) ==
    LET its == {row \in Live(rows) : row.id = id}
    IN IF its # {} /\ \E row \in rows \ its : row.url = url THEN Error
       ELSE (rows \ its) \cup {[row EXCEPT !.url = url, !.enabled = enabled] : row \in its}

delete(rows, id) ==
    LET its == {row \in Live(rows) : row.id = id}
    IN (rows \ its) \cup {[row EXCEPT !.deleted = TRUE, !.enabled = FALSE] : row \in its}

(* Whatever was fetched: the row as it is now.                              *)
recordFetch(rows, id, items, errorCode) ==
    LET its == {row \in Live(rows) : row.id = id}
        said == [status |-> IF items = Null THEN "FAILED" ELSE "COMPLETED",
                 items |-> items, errorCode |-> errorCode]
    IN (rows \ its) \cup {[row EXCEPT !.fetch = said] : row \in its}

-----------------------------------------------------------------------------
(* news.fetch_rss.  web says of each URL whether it may be asked, and what  *)
(* it answers: a redirect with its location or Null, a document, or Error.  *)

(* The URLs asked, and the answer or Error.                                 *)
safeFetch(web, url) ==
    LET hop[k \in 0 .. 4] ==
            IF k = 0 THEN [asked |-> <<>>, next |-> url, answer |-> Null]
            ELSE LET before == hop[k - 1]
                     asked == Append(before.asked, before.next)
                     answer == web[before.next].answer
                 IN IF before.answer # Null THEN before
                    ELSE IF ~web[before.next].safe THEN [before EXCEPT !.answer = Error]
                    ELSE IF answer = Error \/ answer.redirect = FALSE
                    THEN [before EXCEPT !.asked = asked, !.answer = answer]
                    ELSE IF answer.location = Null \/ k = 4
                    THEN [before EXCEPT !.asked = asked, !.answer = Error]
                    ELSE [before EXCEPT !.asked = asked, !.next = answer.location]
    IN hop[4]

toRssItem(node) ==
    [title |-> node.title, url |-> node.link, publishedAt |-> node.pubDate,
     summary |-> node.description]

toAtomItem(node) ==
    [title |-> node.title, url |-> node.link,
     publishedAt |-> IF node.updated = Null THEN node.published ELSE node.updated,
     summary |-> IF node.summary = Null THEN node.content ELSE node.summary]

(* An item without title, summary and URL is left out.                      *)
extractItems(document) ==
    LET Says(item) == {item.title, item.summary, item.url} # {Null}
        all == [i \in DOMAIN document.rss |-> toRssItem(document.rss[i])]
                 \o [i \in DOMAIN document.atom |-> toAtomItem(document.atom[i])]
    IN SelectSeq(all, Says)

fetchRss(web, url, limit) ==
    LET answer == safeFetch(web, url).answer
    IN IF answer = Error \/ ~answer.ok \/ answer.tooLarge THEN Error
       ELSE FirstOf(limit, extractItems(answer.document))

-----------------------------------------------------------------------------
(* NewsService.refresh and the step mcp.news; Fetched(url) is a list of     *)
(* items or Error.                                                          *)

(* The rows after the fetches of these feeds have been recorded.  (The step *)
(* records the code of the error it caught.)                                *)
Recorded(rows, feeds, fetched) ==
    LET after[k \in 0 .. Len(feeds)] ==
            IF k = 0 THEN rows
            ELSE IF fetched[feeds[k].url] = Error
            THEN recordFetch(after[k - 1], feeds[k].id, Null, "NEWS_FEED_FETCH_FAILED")
            ELSE recordFetch(after[k - 1], feeds[k].id, Len(fetched[feeds[k].url]), Null)
    IN after[Len(feeds)]

refresh(rows, fetched) ==
    LET feeds == listEnabled(rows, FeedLimit)
        Worked(feed) == fetched[feed.url] # Error
        worked == SelectSeq(feeds, Worked)
        items[k \in 0 .. Len(worked)] ==
            IF k = 0 THEN <<>> ELSE items[k - 1] \o fetched[worked[k].url]
    IN [rows |-> Recorded(rows, feeds, fetched), items |-> FirstOf(ItemLimit, items[Len(worked)]),
        fetchedFeedCount |-> Len(worked), failedFeedCount |-> Len(feeds) - Len(worked)]

selectedNewsFeeds(rows, newsFeedIds, templateKey) ==
    LET Enabled(feed) == feed.enabled
    IN IF newsFeedIds # {} THEN SelectSeq(listByIds(rows, newsFeedIds), Enabled)
       ELSE IF templateKey = "daily-news-briefing" THEN listEnabled(rows, FeedLimit)
       ELSE <<>>

(* As many feeds as the run has tool calls left, the others unmentioned.    *)
fetchConfiguredFeeds(rows, feeds, callsLeft, fetched) ==
    LET asked == FirstOf(callsLeft, feeds)
        Worked(feed) == fetched[feed.url] # Error
        Failed(feed) == fetched[feed.url] = Error
        result == [rows |-> Recorded(rows, asked, fetched), calls |-> Len(asked),
                   summaries |-> SelectSeq(asked, Worked), failures |-> SelectSeq(asked, Failed)]
    IN [result EXCEPT !.summaries = IF result.summaries = <<>> THEN Error ELSE @]

-----------------------------------------------------------------------------
(* What must hold of them.                                                  *)

(* No two rows share a URL, a deleted feed is not enabled, and the fetch    *)
(* columns agree with each other.                                           *)
RowsAreSound(rows) ==
    /\ \A a, b \in rows : a.url = b.url \/ a.id = b.id => a = b
    /\ \A row \in rows :
          /\ row.deleted => ~row.enabled
          /\ row.fetch.items # Null <=> row.fetch.status = "COMPLETED"
          /\ row.fetch.errorCode # Null <=> row.fetch.status = "FAILED"

(* Every request leaves sound rows sound: feeds are created again after     *)
(* they were deleted, renamed onto each other, and fetched late.            *)
RequestsKeepRowsSound(rows, id, url, enabled) ==
    RowsAreSound(rows) =>
      /\ \A after \in {create(rows, url, enabled), update(rows, id, url, enabled)} :
            after # Error => RowsAreSound(after)
      /\ RowsAreSound(delete(rows, id))
      /\ \A items \in {Null, 0, 2} :
            RowsAreSound(recordFetch(rows, id, items, IF items = Null THEN "FAILED" ELSE Null))
      /\ create(rows, url, enabled) # Error =>
            \E row \in Live(create(rows, url, enabled)) : row.url = url /\ row.fetch = Unfetched

(* A fetch asks at most four URLs, each of which it may ask, and returns    *)
(* what the last one answered.                                              *)
FetchIsBounded(web, url) ==
    LET fetch == safeFetch(web, url)
    IN /\ Len(fetch.asked) <= 4
       /\ \A i \in DOMAIN fetch.asked : web[fetch.asked[i]].safe
       /\ fetch.answer # Error =>
            /\ web[fetch.asked[Len(fetch.asked)]].answer = fetch.answer
            /\ ~fetch.answer.redirect

(* The step and the refresh record each feed they asked, as it went, and    *)
(* no other; the step stays within the run's tool calls and fails exactly   *)
(* when no feed answered.                                                   *)
FetchesAreRecorded(rows, ids, callsLeft, fetched) ==
    LET feeds == selectedNewsFeeds(rows, ids, "daily-news-briefing")
        step == fetchConfiguredFeeds(rows, feeds, callsLeft, fetched)
        page == refresh(rows, fetched)
        Right(before, after, asked) ==
            \A row \in before :
               LET now == CHOOSE r \in after : r.id = row.id
               IN IF row \notin {asked[i] : i \in DOMAIN asked} THEN now = row
                  ELSE now.fetch.status = IF fetched[row.url] = Error THEN "FAILED" ELSE "COMPLETED"
    IN /\ Right(rows, page.rows, listEnabled(rows, FeedLimit))
       /\ page.fetchedFeedCount + page.failedFeedCount <= FeedLimit
       /\ Right(rows, step.rows, FirstOf(callsLeft, feeds))
       /\ step.calls <= callsLeft
       /\ step.summaries = Error
            <=> \A i \in 1 .. step.calls : fetched[feeds[i].url] = Error
=============================================================================
