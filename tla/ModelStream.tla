---------------------------- MODULE ModelStream ----------------------------
(* A streamed answer on its way from the model's HTTP response to the chat: *)
(* the provider cuts the bytes it reads into server-sent events and turns   *)
(* them into deltas and a completion; the direct chat passes them on as one *)
(* line of JSON each, which the browser cuts again.                         *)
(*                                                                          *)
(* A text is a sequence of characters: "n" is a line feed, "r" a carriage   *)
(* return, ":" a line that is not data, and any other character a whole     *)
(* data line with its prefix.  Reads are the pieces in which it arrives.    *)
EXTENDS Naturals, Sequences

CONSTANTS
    Done,           \* the event [DONE]
    Error,          \* what a stream that throws ends with
    Null

Joined(pieces) ==
    LET upTo[k \in 0 .. Len(pieces)] == IF k = 0 THEN <<>> ELSE upTo[k - 1] \o pieces[k]
    IN upTo[Len(pieces)]

-----------------------------------------------------------------------------
(* readServerSentEvents.                                                    *)

(* The length of the line end at k, "n" or "rn"; 0 where there is none.     *)
LineEnd(text, k) ==
    IF k \in DOMAIN text /\ text[k] = "n" THEN 1
    ELSE IF k \in DOMAIN text /\ text[k] = "r" /\ k < Len(text) /\ text[k + 1] = "n" THEN 2
    ELSE 0

(* The length of the end of an event at k: two line ends.                   *)
EventEnd(text, k) ==
    LET first == LineEnd(text, k)
        second == LineEnd(text, k + first)
    IN IF first = 0 \/ second = 0 THEN 0 ELSE first + second

(* split: the parts between the ends, the last one unfinished.              *)
SplitAt(text, End(_, _)) ==
    LET from[start \in 1 .. Len(text) + 1] ==
            LET ends == {k \in start .. Len(text) : End(text, k) > 0}
                first == CHOOSE k \in ends : \A l \in ends : k <= l
            IN IF ends = {} THEN <<SubSeq(text, start, Len(text))>>
               ELSE <<SubSeq(text, start, first - 1)>> \o from[first + End(text, first)]
    IN from[1]

(* The data lines of an event; one without any is skipped.                  *)
Data(event) ==
    LET Is(line) == line \notin {<<>>, <<":">>} IN SelectSeq(SplitAt(event, LineEnd), Is)

DataOf(events) ==
    LET Carries(event) == Data(event) # <<>>
        carrying == SelectSeq(events, Carries)
    IN [i \in DOMAIN carrying |-> Data(carrying[i])]

(* After each read the finished events leave the buffer; what is in it when *)
(* the stream ends is dropped.                                              *)
readServerSentEvents(reads) ==
    LET after[k \in 0 .. Len(reads)] ==
            IF k = 0 THEN [buffer |-> <<>>, data |-> <<>>]
            ELSE LET parts == SplitAt(after[k - 1].buffer \o reads[k], EventEnd)
                 IN [buffer |-> parts[Len(parts)],
                     data |-> after[k - 1].data \o DataOf(SubSeq(parts, 1, Len(parts) - 1))]
    IN after[Len(reads)].data

-----------------------------------------------------------------------------
(* streamChat of OllamaOpenAiProvider.  What has been parsed of each event: *)
(* Done, Error for an invalid chunk, or its choices and its usage.  A       *)
(* choice without a finish_reason has Null, an explicit null is "none".     *)

Delta(text) == [type |-> "delta", text |-> text]
Completed(reason, usage) == [type |-> "completed", finishReason |-> reason, usage |-> usage]

streamChat(chunks) ==
    LET Ends(k) == chunks[k] \in {Done, Error}
        last == IF \E k \in DOMAIN chunks : Ends(k)
                THEN (CHOOSE k \in DOMAIN chunks : Ends(k) /\ \A l \in 1 .. k - 1 : ~Ends(l)) - 1
                ELSE Len(chunks)
        Texts(choices) == LET Says(choice) == choice.content # Null
                              saying == SelectSeq(choices, Says)
                          IN [i \in DOMAIN saying |-> Delta(saying[i].content)]
        after[k \in 0 .. last] ==
            IF k = 0 THEN [events |-> <<>>, usage |-> 0, reason |-> "none"]
            ELSE LET chunk == chunks[k]
                     Given == {i \in DOMAIN chunk.choices : chunk.choices[i].finish # Null}
                 IN [events |-> after[k - 1].events \o Texts(chunk.choices),
                     usage |-> IF chunk.usage = Null THEN after[k - 1].usage ELSE chunk.usage,
                     reason |-> IF Given = {} THEN after[k - 1].reason
                                ELSE chunk.choices[CHOOSE i \in Given :
                                                      \A j \in Given : j <= i].finish]
    IN after[last].events
         \o (IF last < Len(chunks) /\ chunks[last + 1] = Error THEN <<Error>>
             ELSE <<Completed(after[last].reason, after[last].usage)>>)

(* ChatService.generate: the events of the chat and the answer it stores.   *)
generate(events) ==
    LET IsDelta(event) == event.type = "delta"
        failed == events # <<>> /\ events[Len(events)] = Error
        shown == IF failed THEN SubSeq(events, 1, Len(events) - 1) ELSE events
        deltas == SelectSeq(shown, IsDelta)
    IN [shown |-> [i \in DOMAIN deltas |-> deltas[i].text],
        stored |-> IF failed THEN Null ELSE [i \in DOMAIN deltas |-> deltas[i].text]]

-----------------------------------------------------------------------------
(* streamChat of the browser: lines, and the rest when the stream ends.     *)

OneLineFeed(text, k) == IF text[k] = "n" THEN 1 ELSE 0

(* emitLine: a blank line is nothing. *)
Lines(parts) ==
    LET Blank(part) == \A k \in DOMAIN part : part[k] = "r"
        Said(part) == ~Blank(part)
    IN SelectSeq(parts, Said)

browserLines(reads) ==
    LET after[k \in 0 .. Len(reads)] ==
            IF k = 0 THEN [buffer |-> <<>>, lines |-> <<>>]
            ELSE LET parts == SplitAt(after[k - 1].buffer \o reads[k], OneLineFeed)
                 IN [buffer |-> parts[Len(parts)],
                     lines |-> after[k - 1].lines \o Lines(SubSeq(parts, 1, Len(parts) - 1))]
        end == after[Len(reads)]
    IN end.lines \o Lines(<<end.buffer>>)

(* The knowledge page reads its events in the same way. *)
streamKnowledgeSearch(reads) == browserLines(reads)

-----------------------------------------------------------------------------
(* What must hold of them.                                                  *)

(* Wherever the network cuts a stream - within a line end, too - the same   *)
(* events and lines come out as from one read.                              *)
ReadsDoNotMatter(reads) ==
    /\ readServerSentEvents(reads) = readServerSentEvents(<<Joined(reads)>>)
    /\ browserLines(reads) = browserLines(<<Joined(reads)>>)

(* The chat stores exactly what it has shown, and nothing of a stream with  *)
(* an invalid chunk; and whatever a stream says it is completed or failed   *)
(* once, at its end, with a usage it named or with none.                    *)
AnswerIsWhatWasShown(chunks) ==
    LET events == streamChat(chunks)
        chat == generate(events)
        Final(k) == events[k] = Error \/ events[k].type = "completed"
    IN /\ chat.stored \in {Null, chat.shown}
       /\ chat.stored = Null <=> events[Len(events)] = Error
       /\ \A k \in DOMAIN events : Final(k) <=> k = Len(events)
       /\ chat.stored # Null =>
            LET named == {chunks[k].usage : k \in {l \in DOMAIN chunks : chunks[l] \notin {Done, Error}}} \ {Null}
            IN events[Len(events)].usage \in named \cup {0}
=============================================================================
