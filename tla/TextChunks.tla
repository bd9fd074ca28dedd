----------------------------- MODULE TextChunks -----------------------------
(* From an uploaded file to the chunks that are embedded: which text is     *)
(* taken out of the file, how it is normalized, and how its words are cut.  *)
(* A text is a sequence of characters; " ", "n" and "r" stand for a blank,  *)
(* a line feed and a carriage return, and the rest for letters.             *)
EXTENDS Naturals, Sequences

CONSTANTS
    Error,          \* what an operation that throws returns
    Null

Blank == {" ", "n", "r"}

-----------------------------------------------------------------------------
(* normalizeText, one replacement after the other.                          *)

(* Each character of the text becomes what Image says of it where it stands.*)
Replaced(text, Image(_)) ==
    LET upTo[k \in 0 .. Len(text)] ==
            IF k = 0 THEN <<>> ELSE upTo[k - 1] \o Image(k)
    IN upTo[Len(text)]

LineEnds(text) ==
    LET Image(k) == IF text[k] # "r" THEN <<text[k]>>
                    ELSE IF k < Len(text) /\ text[k + 1] = "n" THEN <<>>
                    ELSE <<"n">>
    IN Replaced(text, Image)

NoBlanksAtLineEnds(text) ==
    LET Trailing(k) == \E end \in k + 1 .. Len(text) :
                          text[end] = "n" /\ \A i \in k .. end - 1 : text[i] = " "
        Image(k) == IF Trailing(k) THEN <<>> ELSE <<text[k]>>
    IN Replaced(text, Image)

AtMostTwoLineEnds(text) ==
    LET Third(k) == k > 2 /\ \A i \in k - 2 .. k : text[i] = "n"
        Image(k) == IF Third(k) THEN <<>> ELSE <<text[k]>>
    IN Replaced(text, Image)

trim(text) ==
    LET Kept == {i \in DOMAIN text : text[i] \notin Blank}
    IN IF Kept = {} THEN <<>>
       ELSE SubSeq(text, CHOOSE i \in Kept : \A j \in Kept : i <= j,
                         CHOOSE i \in Kept : \A j \in Kept : i >= j)

normalizeText(text) == trim(AtMostTwoLineEnds(NoBlanksAtLineEnds(LineEnds(text))))

(* split(/\s+/).filter(Boolean) *)
Words(text) ==
    LET upTo[k \in 0 .. Len(text)] ==
            IF k = 0 THEN <<>>
            ELSE IF text[k] \in Blank THEN upTo[k - 1]
            ELSE IF k = 1 \/ text[k - 1] \in Blank THEN Append(upTo[k - 1], <<text[k]>>)
            ELSE [upTo[k - 1] EXCEPT ![Len(upTo[k - 1])] = Append(@, text[k])]
    IN upTo[Len(text)]

-----------------------------------------------------------------------------
(* chunkText, on the words of the normalized text.                          *)

SmallerOf(a, b) == IF a < b THEN a ELSE b

chunkText(words, targetTokens, overlapTokens) ==
    LET from[start \in 0 .. Len(words)] ==
            LET end == SmallerOf(start + targetTokens, Len(words))
                next == IF end > start + 1 + overlapTokens THEN end - overlapTokens
                        ELSE start + 1
            IN IF start = Len(words) THEN <<>>
               ELSE <<SubSeq(words, start + 1, end)>>
                      \o (IF end = Len(words) THEN <<>> ELSE from[next])
        chunks == from[0]
    IN [i \in DOMAIN chunks |->
           [ordinal |-> i - 1, content |-> chunks[i], tokenCount |-> Len(chunks[i])]]

-----------------------------------------------------------------------------
(* parseDocument.  A file is its MIME type, its native text, and what OCR   *)
(* reads of each of its pages; an image is one page.  OCR is Null when it   *)
(* is not configured, and Error in the place of a page it fails on.         *)

isImageMimeType(mimeType) == mimeType \in {"image/jpeg", "image/png", "image/webp"}

hasEnoughExtractedText(text, options) ==
    LET normalized == normalizeText(text)
    IN /\ Len(normalized) >= options.ocrTextMinCharacters
       /\ Len(Words(normalized)) >= options.ocrTextMinWords

selectExtractionStrategy(mimeType, text, options) ==
    IF isImageMimeType(mimeType) THEN "image-ocr"
    ELSE IF mimeType # "application/pdf" THEN "native-text"
    ELSE IF hasEnoughExtractedText(text, options) THEN "pdf-native-text" ELSE "pdf-ocr"

(* The choices of OCR's answer, joined; no choices are an empty text.       *)
extractText(choices) ==
    LET joined[k \in 0 .. Len(choices)] ==
            IF k = 0 THEN <<>>
            ELSE joined[k - 1] \o (IF k > 1 THEN <<"n", "n">> ELSE <<>>) \o choices[k]
    IN trim(joined[Len(choices)])

(* "P" stands for the heading with the page's number. *)
PageText(pages, number) ==
    LET text == normalizeText(extractText(pages[number]))
    IN IF text = <<>> THEN <<>> ELSE <<"P", "n">> \o text

parsePdf(file, ocr, options) ==
    LET text == normalizeText(file.text)
        strategy == selectExtractionStrategy("application/pdf", text, options)
        read == SmallerOf(options.ocrMaxPdfPages, Len(file.pages))
        joined[k \in 0 .. read] ==
            IF k = 0 THEN <<>>
            ELSE LET page == PageText(file.pages, k)
                     before == joined[k - 1]
                 IN IF page = <<>> THEN before
                    ELSE IF before = <<>> THEN page ELSE before \o <<"n", "n">> \o page
    IN IF strategy = "pdf-native-text" THEN [text |-> text, strategy |-> strategy]
       ELSE IF ocr = Null \/ \E k \in 1 .. read : file.pages[k] = Error THEN Error
       ELSE [text |-> normalizeText(joined[read]), strategy |-> strategy]

parseDocument(file, ocr, options) ==
    IF file.mimeType = "application/pdf" THEN parsePdf(file, ocr, options)
    ELSE IF ~isImageMimeType(file.mimeType)
    THEN [text |-> normalizeText(file.text), strategy |-> "native-text"]
    ELSE IF ocr = Null \/ file.pages[1] = Error THEN Error
    ELSE [text |-> normalizeText(extractText(file.pages[1])), strategy |-> "image-ocr"]

-----------------------------------------------------------------------------
(* What must hold of them.                                                  *)

(* Normalizing keeps the words and their order, and a normalized text is    *)
(* left as it is - so a page that was normalized before the pages were      *)
(* joined is not changed again.                                             *)
NormalizedOnce(text) ==
    /\ Words(normalizeText(text)) = Words(text)
    /\ normalizeText(normalizeText(text)) = normalizeText(text)

(* The chunks end, none is empty or longer than the target, and each begins *)
(* with the last words of the one before - as many as the overlap, or all   *)
(* but one when the overlap is not smaller than the target - so that they   *)
(* hold every word, in order, and no chunk lies within another.             *)
ChunksCover(words, targetTokens, overlapTokens) ==
    LET chunks == chunkText(words, targetTokens, overlapTokens)
        shared == SmallerOf(overlapTokens, targetTokens - 1)
        joined[k \in 0 .. Len(chunks)] ==
            IF k = 0 THEN <<>>
            ELSE joined[k - 1]
                   \o SubSeq(chunks[k].content, IF k = 1 THEN 1 ELSE shared + 1,
                             chunks[k].tokenCount)
    IN /\ joined[Len(chunks)] = words
       /\ \A k \in DOMAIN chunks : chunks[k].tokenCount \in 1 .. targetTokens
       /\ \A k \in DOMAIN chunks \ {1} :
             LET before == chunks[k - 1]
             IN /\ before.tokenCount = targetTokens
                /\ chunks[k].tokenCount > shared
                /\ SubSeq(chunks[k].content, 1, shared)
                     = SubSeq(before.content, targetTokens - shared + 1, targetTokens)

(* A PDF is read page by page exactly when its own text is too thin; then   *)
(* the text has each page OCR found words on, up to the limit, in order -   *)
(* or the file is refused; a page is never lost in silence below the limit. *)
PagesAreRead(file, ocr, options) ==
    LET parsed == parseDocument(file, ocr, options)
        thin == ~hasEnoughExtractedText(file.text, options)
        read == SmallerOf(options.ocrMaxPdfPages, Len(file.pages))
        words[k \in 0 .. read] ==
            IF k = 0 THEN <<>>
            ELSE words[k - 1] \o Words(PageText(file.pages, k))
    IN file.mimeType = "application/pdf" =>
         IF ~thin THEN parsed.text = normalizeText(file.text)
         ELSE IF ocr = Null \/ \E k \in 1 .. read : file.pages[k] = Error
         THEN parsed = Error
         ELSE Words(parsed.text) = words[read]
=============================================================================
