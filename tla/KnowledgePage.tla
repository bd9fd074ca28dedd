--------------------------- MODULE KnowledgePage ---------------------------
(* A search of the knowledge page: the page asks, the API looks for chunks  *)
(* and streams the answer a model gives from them, one event a line, while  *)
(* the user may upload, index again or delete documents, or leave.  How the *)
(* page cuts the stream into lines is in ModelStream.  A text is a sequence *)
(* of "w", a word, and "_", a blank; a query is its number.                 *)
EXTENDS Naturals, Sequences, FiniteSets

CONSTANTS
    Sources,        \* what a search may find
    MaxSearches,    \* bound on the searches
    MaxDeltas,      \* bound on the deltas of an answer
    MaxClears,      \* bound on the requests that clear the result
    MaxBreaks,      \* bound on broken connections and failures of the API
    Nothing

ASSUME KnowledgeBounds ==
    MaxSearches \in Nat /\ MaxDeltas \in Nat /\ MaxClears \in Nat /\ MaxBreaks \in Nat

(* What the page may show, and that nothing is not among it.                *)
Words == {"w", "_", "no context", "empty answer"}
Result == [query : Nat, answer : Seq(Words), results : Seq(Sources)]

ASSUME NothingAssumption == Nothing \notin Result

VARIABLES
    page,       \* what the page shows
    call,       \* the page's request at the API, and what it has sent
    searches,   \* the searches so far
    clears,     \* the times the result was cleared
    breaks      \* the failures so far

knowledgeVars == <<page, call, searches, clears, breaks>>

NoContext == <<"no context">>
EmptyAnswer == <<"empty answer">>

(* trim() *)
trimmed(text) ==
    LET words == {i \in DOMAIN text : text[i] # "_"}
        First == CHOOSE i \in words : \A j \in words : i <= j
        Last == CHOOSE i \in words : \A j \in words : j <= i
    IN IF words = {} THEN <<>> ELSE SubSeq(text, First, Last)

started(query, results) == [type |-> "started", query |-> query, results |-> results]
delta(text) == [type |-> "delta", text |-> text]
completed(answer) == [type |-> "completed", answer |-> answer]
error == [type |-> "error"]

(* What answerQuestionEvents ends with once the model has said text.        *)
finalAnswer(text) ==
    completed(IF trimmed(text) = <<>> THEN EmptyAnswer ELSE trimmed(text))

NewPage == [searching |-> FALSE, shown |-> Nothing, failed |-> FALSE]
NoCall == [at |-> "none", query |-> 0, found |-> <<>>, said |-> <<>>, sent |-> <<>>]

KnowledgeInit ==
    page = NewPage /\ call = NoCall /\ searches = 0 /\ clears = 0 /\ breaks = 0

-----------------------------------------------------------------------------
(* The API.                                                                 *)

Sends(event) == call.sent \o <<event>>

(* findSearchResults, then the first line.                                  *)
prepareSearchStream ==
    /\ call.at = "finding"
    /\ \E n \in 0 .. Cardinality(Sources) :
         \E results \in [1 .. n -> Sources] :
            /\ \A i, j \in 1 .. n : i # j => results[i] # results[j]
            /\ call' = [call EXCEPT !.at = "answering", !.found = results,
                                    !.sent = Sends(started(call.query, results))]
    /\ UNCHANGED <<page, searches, clears, breaks>>

(* The query cannot be embedded, or the vectors or the rows not be read.    *)
FindFails ==
    /\ call.at = "finding" /\ breaks < MaxBreaks
    /\ breaks' = breaks + 1
    /\ call' = [call EXCEPT !.at = "refused"]
    /\ UNCHANGED <<page, searches, clears>>

(* Without sources the model is not asked.                                  *)
AnswerWithoutContext ==
    /\ call.at = "answering" /\ call.found = <<>>
    /\ call' = [call EXCEPT !.at = "ended",
                            !.sent = @ \o <<delta(NoContext), completed(NoContext)>>]
    /\ UNCHANGED <<page, searches, clears, breaks>>

AnswerDelta ==
    /\ call.at = "answering" /\ call.found # <<>> /\ Len(call.said) < MaxDeltas
    /\ \E text \in {"w", "_"} :
         call' = [call EXCEPT !.said = Append(@, text), !.sent = Sends(delta(<<text>>))]
    /\ UNCHANGED <<page, searches, clears, breaks>>

AnswerCompleted ==
    /\ call.at = "answering" /\ call.found # <<>>
    /\ call' = [call EXCEPT !.at = "ended", !.sent = Sends(finalAnswer(call.said))]
    /\ UNCHANGED <<page, searches, clears, breaks>>

(* The model's stream throws: one line more, and the response ends.         *)
AnswerThrows ==
    /\ call.at = "answering" /\ call.found # <<>> /\ breaks < MaxBreaks
    /\ breaks' = breaks + 1
    /\ call' = [call EXCEPT !.at = "ended", !.sent = Sends(error)]
    /\ UNCHANGED <<page, searches, clears>>

(* The process or the connection ends: the page's read throws.              *)
ConnectionBreaks ==
    /\ call.at \in {"finding", "answering", "ended"} /\ breaks < MaxBreaks
    /\ breaks' = breaks + 1
    /\ call' = [call EXCEPT !.at = "broken"]
    /\ UNCHANGED <<page, searches, clears>>

-----------------------------------------------------------------------------
(* The page.                                                                *)

runSearch ==
    /\ ~page.searching /\ searches < MaxSearches
    /\ searches' = searches + 1
    /\ page' = [searching |-> TRUE, failed |-> FALSE,
                shown |-> [query |-> searches', answer |-> <<>>, results |-> <<>>]]
    /\ call' = [NoCall EXCEPT !.at = "finding", !.query = searches']
    /\ UNCHANGED <<clears, breaks>>

(* What is shown when nothing is: the stream goes on in a new result.       *)
Current == IF page.shown = Nothing
           THEN [query |-> searches, answer |-> <<>>, results |-> <<>>]
           ELSE page.shown

onEvent_KeepsText(event) ==
    CASE event.type = "started" ->
           [page EXCEPT !.shown = [query |-> event.query, answer |-> <<>>,
                                   results |-> event.results]]
      [] event.type = "delta" ->
           [page EXCEPT !.shown = [Current EXCEPT !.answer = @ \o event.text]]
      [] event.type = "completed" -> page
      [] OTHER -> [page EXCEPT !.failed = TRUE]

onEvent(event) ==
    CASE event.type = "started" ->
           [page EXCEPT !.shown = [query |-> event.query, answer |-> <<>>,
                                   results |-> event.results]]
      [] event.type = "delta" ->
           [page EXCEPT !.shown = [Current EXCEPT !.answer = @ \o event.text]]
      [] event.type = "completed" ->
           [page EXCEPT !.shown = [Current EXCEPT !.answer = event.answer]]
      [] OTHER -> [page EXCEPT !.failed = TRUE]

ReadEvent ==
    /\ page.searching /\ call.sent # <<>>
    /\ page' = onEvent(Head(call.sent))
    /\ call' = [call EXCEPT !.sent = Tail(@)]
    /\ UNCHANGED <<searches, clears, breaks>>

(* The response's end, its refusal or its break.                            *)
SearchEnds ==
    /\ page.searching
    /\ \/ call.at = "ended" /\ call.sent = <<>>
          /\ page' = [page EXCEPT !.searching = FALSE]
       \/ call.at \in {"refused", "broken"}
          /\ page' = [page EXCEPT !.searching = FALSE, !.failed = TRUE]
    /\ UNCHANGED <<call, searches, clears, breaks>>

(* An upload, a reindexing or a deletion is answered.                       *)
ClearResult ==
    /\ clears < MaxClears /\ page.shown # Nothing
    /\ clears' = clears + 1
    /\ page' = [page EXCEPT !.shown = Nothing]
    /\ UNCHANGED <<call, searches, breaks>>

(* The page is left, which aborts the request, and opened anew.             *)
Leave ==
    /\ page # NewPage
    /\ page' = NewPage /\ call' = NoCall
    /\ UNCHANGED <<searches, clears, breaks>>

KnowledgeNext ==
    \/ prepareSearchStream \/ FindFails \/ AnswerWithoutContext
    \/ AnswerDelta \/ AnswerCompleted \/ AnswerThrows \/ ConnectionBreaks
    \/ runSearch \/ ReadEvent \/ SearchEnds \/ ClearResult \/ Leave

KnowledgeSpec == KnowledgeInit /\ [][KnowledgeNext]_knowledgeVars

-----------------------------------------------------------------------------
(* The plain request: answerQuestion collects the same events.              *)

answerQuestion(results, said) ==
    IF results = <<>> THEN NoContext ELSE finalAnswer(said).answer

-----------------------------------------------------------------------------
(* A page that is not searching and shows no error shows the whole answer   *)
(* of its last search, the one the plain request would have given, however  *)
(* the events and what cleared the result were interleaved; and with it all *)
(* of its sources, or none when the result was cleared on the way.          *)
ShownAnswerIsWhole ==
    ~page.searching /\ ~page.failed /\ page.shown # Nothing
      => /\ page.shown.query = searches
         /\ page.shown.answer = answerQuestion(call.found, call.said)
         /\ page.shown.results \in {call.found, <<>>}
         /\ clears = 0 => page.shown.results = call.found
=============================================================================
