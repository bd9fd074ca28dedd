-------------------------- MODULE KnowledgeSearch --------------------------
(* The way from texts to vectors and from a query to chunks: the embedding  *)
(* provider's answer, the vector collection, and the search the API and the *)
(* tool knowledge.search make.  A vector is the text it stands for and its  *)
(* length; how near two vectors are is the order the store returns.         *)
EXTENDS Naturals, Sequences, FiniteSets, TLC

CONSTANTS
    Error,          \* what a call that throws returns
    Null

-----------------------------------------------------------------------------
(* OllamaOpenAiEmbeddingProvider.                                           *)

(* The items of an answer by their index; those without one count as 0, and *)
(* items of one index keep their order.                                     *)
ByIndex(items) ==
    LET Index(i) == IF items[i].index = Null THEN 0 ELSE items[i].index
        Before(i, j) == Index(i) < Index(j) \/ (Index(i) = Index(j) /\ i < j)
        order == SortSeq([i \in DOMAIN items |-> i], Before)
    IN [i \in DOMAIN items |-> items[order[i]].embedding]

(* answer: the items of a valid answer, or Error for a failed or invalid one*)
embed(texts, answer) ==
    IF texts = <<>> THEN <<>>
    ELSE IF answer = Error THEN Error
    ELSE IF Len(answer) # Len(texts) THEN Error
    ELSE ByIndex(answer)

-----------------------------------------------------------------------------
(* QdrantVectorStore.  The collection is Null until a first upsert creates  *)
(* it with the length of its vectors; a point of another length is refused. *)

ensureCollection(collection, size) ==
    IF collection = Null THEN [size |-> size, points |-> {}] ELSE collection

upsert(collection, points) ==
    IF points = {} THEN collection
    ELSE LET size == (CHOOSE p \in points : TRUE).size
             store == ensureCollection(collection, size)
             ids == {p.id : p \in points}
         IN IF \E p \in points : p.size # store.size THEN Error
            ELSE [store EXCEPT !.points = {p \in @ : p.id \notin ids} \cup points]

documentFilter(point, tenantId, documentId) ==
    point.tenantId = tenantId /\ point.documentId = documentId

deleteDocument(collection, tenantId, documentId) ==
    IF collection = Null THEN Null
    ELSE [collection EXCEPT
             !.points = {p \in @ : ~documentFilter(p, tenantId, documentId)}]

searchFilter(point, tenantId, documentIds) ==
    /\ point.tenantId = tenantId
    /\ documentIds # {} => point.documentId \in documentIds

(* Nearest first, at most limit; ranked stands for the order of nearness.   *)
search(collection, ranked, tenantId, documentIds, limit) ==
    IF collection = Null THEN <<>>
    ELSE LET Hit(id) == \E p \in collection.points :
                           p.id = id /\ searchFilter(p, tenantId, documentIds)
             hits == SelectSeq(ranked, Hit)
         IN SubSeq(hits, 1, IF Len(hits) < limit THEN Len(hits) ELSE limit)

-----------------------------------------------------------------------------
(* searchKnowledge: the hits whose chunks are rows of indexed documents.    *)

findIndexedChunksByIds(rows, tenantId, ids) ==
    {row \in rows : row.id \in ids /\ row.tenantId = tenantId /\ row.indexed}

searchKnowledge(vectors, collection, rows, ranked, tenantId, documentIds, limit) ==
    IF vectors = Error THEN Error
    ELSE IF vectors = <<>> THEN <<>>
    ELSE LET hits == search(collection, ranked, tenantId, documentIds, limit)
             chunks == findIndexedChunksByIds(rows, tenantId,
                           {hits[i] : i \in DOMAIN hits})
             Found(id) == \E chunk \in chunks : chunk.id = id
         IN SelectSeq(hits, Found)

-----------------------------------------------------------------------------
(* What must hold of them.                                                  *)

(* Whatever order the provider answers in, text i gets the vector of text   *)
(* i: by the index when the items carry one, by their order when none does. *)
(* answerOrder is a permutation of the positions.                           *)
VectorsFollowTexts(texts, answerOrder) ==
    LET indexed == [i \in DOMAIN texts |->
                       [index |-> answerOrder[i] - 1, embedding |-> texts[answerOrder[i]]]]
        plain == [i \in DOMAIN texts |-> [index |-> Null, embedding |-> texts[i]]]
    IN embed(texts, indexed) = texts /\ embed(texts, plain) = texts

(* A search returns, nearest first and at most limit, the points of indexed *)
(* documents among those asked for; and after a document's points have been *)
(* replaced - deleted and upserted again - only the new ones are found.     *)
ReplacedPointsAreFound(old, new, rows, ranked, tenantId, documentIds, limit) ==
    LET documentId == (CHOOSE p \in new : TRUE).documentId
        before == upsert(Null, old)
        after == upsert(deleteDocument(before, tenantId, documentId), new)
        found == searchKnowledge(<<"query">>, after, rows, ranked, tenantId, documentIds, limit)
        gone == {p.id : p \in {q \in old : documentFilter(q, tenantId, documentId)}}
                  \ {p.id : p \in new}
    IN after # Error =>
         /\ Len(found) <= limit
         /\ \A i \in DOMAIN found :
               /\ found[i] \notin gone
               /\ \E p \in after.points : p.id = found[i] /\ searchFilter(p, tenantId, documentIds)
         /\ \A i, j \in DOMAIN found : i < j =>
               \E k, l \in DOMAIN ranked : k < l /\ ranked[k] = found[i] /\ ranked[l] = found[j]
=============================================================================
