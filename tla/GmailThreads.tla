---------------------------- MODULE GmailThreads ----------------------------
(* What the worker reads of Gmail threads and the reply it drafts: the      *)
(* client's messages, the texts in their parts, the bounds of what a model  *)
(* is shown, whom a reply goes to, and the raw message Gmail is given.      *)
(* An API message is [id, from, subject, payload]; a payload is Null or has *)
(* a type, its data, Null when there is none, and parts.  A text is a       *)
(* sequence of characters, "r" and "n" those of line ends.                  *)
EXTENDS Naturals, Sequences, FiniteSets

CONSTANTS
    MessageLimit,   \* the messages getThread keeps of a thread
    ContextLimit,   \* the messages boundGmailThread keeps of those
    Error,          \* what a call that throws returns
    Null

SmallerOf(a, b) == IF a < b THEN a ELSE b

Joined(pieces, between) ==
    LET upTo[k \in 0 .. Len(pieces)] ==
            IF k = 0 THEN <<>>
            ELSE upTo[k - 1] \o (IF k > 1 THEN between ELSE <<>>) \o pieces[k]
    IN upTo[Len(pieces)]

Blank == {" ", "r", "n"}

trim(text) ==
    LET solid == {i \in DOMAIN text : text[i] \notin Blank}
        First == CHOOSE i \in solid : \A j \in solid : i <= j
        Last == CHOOSE i \in solid : \A j \in solid : j <= i
    IN IF solid = {} THEN <<>> ELSE SubSeq(text, First, Last)

-----------------------------------------------------------------------------
(* GmailRestClient: threads.                                                *)

(* The plain text of a part, or that of its parts; other types have none.   *)
RECURSIVE extractBodyText(_)
extractBodyText(payload) ==
    IF payload = Null THEN <<>>
    ELSE IF payload.type = "text/plain" /\ payload.data # Null THEN payload.data
    ELSE trim(Joined([i \in DOMAIN payload.parts |-> extractBodyText(payload.parts[i])],
                     <<"n">>))

toThreadMessage(message) ==
    [id |-> message.id, from |-> message.from, subject |-> message.subject,
     bodyText |-> extractBodyText(message.payload)]

(* Oldest first, as Gmail lists them.                                       *)
getThread(messages) ==
    [i \in 1 .. SmallerOf(MessageLimit, Len(messages)) |-> toThreadMessage(messages[i])]

(* The threads with an id, in the order found; one that cannot be read      *)
(* fails the search.                                                        *)
searchThreads(listed, readable) ==
    LET HasId(id) == id # Null
        ids == SelectSeq(listed, HasId)
    IN IF \E i \in DOMAIN ids : ids[i] \notin readable THEN Error ELSE ids

-----------------------------------------------------------------------------
(* The agent's steps.                                                       *)

boundGmailThread(messages) ==
    SubSeq(messages, 1 + Len(messages) - SmallerOf(ContextLimit, Len(messages)), Len(messages))

(* A search, and as many of the first three threads as the budget has calls *)
(* for.  callsLeft: maxToolCalls less those made.                           *)
runGmailTriage(callsLeft, found, readable) ==
    IF callsLeft = 0 \/ found = Error THEN Error
    ELSE LET threads == SubSeq(found, 1, SmallerOf(SmallerOf(3, callsLeft - 1), Len(found)))
         IN IF \E i \in DOMAIN threads : threads[i] \notin readable THEN Error
            ELSE [calls |-> 1 + Len(threads), threads |-> threads]

(* The address in angle brackets, or one that stands alone.                 *)
extractEmailAddress(from) == IF from.angle # Null THEN from.angle ELSE from.direct

(* The first reply's mark is the last one.                                  *)
draftInputFromThread(messages, finalAnswer) ==
    IF \/ messages = <<>>
       \/ extractEmailAddress(messages[Len(messages)].from) = Null
       \/ trim(finalAnswer) = <<>>
    THEN Error
    ELSE LET latest == messages[Len(messages)]
         IN [to |-> <<extractEmailAddress(latest.from)>>, cc |-> <<>>,
             subject |-> [latest.subject EXCEPT !.re = TRUE], body |-> trim(finalAnswer)]

(* runGmailReplyLookup and the draft of its answer. *)
Reply(messages, finalAnswer) ==
    draftInputFromThread(boundGmailThread(getThread(messages)), finalAnswer)

-----------------------------------------------------------------------------
(* GmailRestClient: drafts.  The raw message has a line for each header and *)
(* the body after an empty line; a header's name is one element.            *)

(* A run of line ends becomes one blank.                                    *)
sanitizeHeader(value) ==
    LET End(i) == value[i] \in {"r", "n"}
        Kept(i) == ~End(i) \/ i = 1 \/ ~End(i - 1)
        kept == SelectSeq([i \in DOMAIN value |-> i], Kept)
    IN trim([i \in DOMAIN kept |-> IF End(kept[i]) THEN " " ELSE value[kept[i]]])

Headers(input) ==
    << <<"To", Joined(input.to, <<",", " ">>)>> >>
      \o (IF input.cc = <<>> THEN <<>> ELSE << <<"Cc", Joined(input.cc, <<",", " ">>)>> >>)
      \o << <<"Subject", input.subject>>, <<"MIME-Version", <<"1">> >>,
            <<"Content-Type", <<"plain">> >>, <<"Content-Transfer-Encoding", <<"8">> >> >>

toGmailRawMessage(input) ==
    LET headers == Headers(input)
        lines == [i \in DOMAIN headers |-> <<headers[i][1]>> \o sanitizeHeader(headers[i][2])]
    IN Joined(lines, <<"r", "n">>) \o <<"r", "n", "r", "n">> \o input.body

(* The answer of a mutation; a new draft must have got an id.               *)
toDraftOutput(draft, fallbackDraftId) ==
    IF draft.id # Null THEN [draftId |-> draft.id, threadId |-> draft.threadId]
    ELSE IF fallbackDraftId # Null THEN [draftId |-> fallbackDraftId, threadId |-> draft.threadId]
    ELSE Error

-----------------------------------------------------------------------------
(* What must hold of them.                                                  *)

(* Whatever the reviewed texts hold - line ends, empty lines - the message  *)
(* Gmail reads has exactly these headers, with texts that have no line ends *)
(* as they were reviewed, and the whole body after the first empty line.    *)
RawIsReviewed(input) ==
    LET raw == toGmailRawMessage(input)
        At(i) == SubSeq(raw, i, i + 3) = <<"r", "n", "r", "n">>
        first == CHOOSE i \in 1 .. Len(raw) - 3 : At(i) /\ \A j \in 1 .. i - 1 : ~At(j)
        head == SubSeq(raw, 1, first - 1)
        starts == {1} \cup {i \in 3 .. Len(head) : SubSeq(head, i - 2, i - 1) = <<"r", "n">>}
        Line(i) == LET later == {j \in starts : j > i}
                       next == CHOOSE j \in later : \A k \in later : j <= k
                   IN SubSeq(head, i + 1, IF later = {} THEN Len(head) ELSE next - 3)
        plain == \A i \in DOMAIN input.subject : input.subject[i] \notin {"r", "n"}
    IN /\ SubSeq(raw, first + 4, Len(raw)) = input.body
       /\ {head[i] : i \in starts} = {Headers(input)[i][1] : i \in DOMAIN Headers(input)}
       /\ Cardinality(starts) = Len(Headers(input))
       /\ plain => \E i \in starts : head[i] = "Subject" /\ Line(i) = trim(input.subject)

(* A reply goes to the sender of the thread's last message, and names its   *)
(* subject with one mark - but in a thread that is longer than getThread    *)
(* reads, to the sender of the last message that was read, which is not the *)
(* latest.                                                                  *)
ReplyAnswersLastRead(messages, finalAnswer) ==
    LET draft == Reply(messages, finalAnswer)
        answered == messages[SmallerOf(MessageLimit, Len(messages))]
    IN draft # Error =>
         /\ draft.to = <<extractEmailAddress(answered.from)>>
         /\ draft.subject = [answered.subject EXCEPT !.re = TRUE]
         /\ Len(messages) <= MessageLimit => answered = messages[Len(messages)]

(* A triage reads the threads that were found first, within its budget.     *)
TriageIsBounded(callsLeft, listed, readable) ==
    LET found == searchThreads(listed, readable)
        triage == runGmailTriage(callsLeft, found, readable)
    IN triage # Error =>
         /\ triage.calls <= callsLeft
         /\ triage.threads = SubSeq(found, 1, Len(triage.threads))
         /\ Len(triage.threads) = SmallerOf(SmallerOf(3, callsLeft - 1), Len(found))

(* The text of a message is that of all its plain parts in their order,     *)
(* however they are nested; what is not plain adds nothing.  plain is the   *)
(* list of the parts' texts.                                                *)
TextOfParts(payload, plain) ==
    LET Solid(text) == trim(text) # <<>>
        NoBlanks(text) == SelectSeq(text, LAMBDA character : character \notin Blank)
    IN NoBlanks(extractBodyText(payload)) = NoBlanks(Joined(SelectSeq(plain, Solid), <<>>))
=============================================================================
