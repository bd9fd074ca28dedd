-------------------------- MODULE WorkspaceProofs --------------------------
(***************************************************************************)
(* What holds of a conversation for every number of turns, texts, pages    *)
(* and histories, and of the knowledge page's search for any sources and   *)
(* bounds.  They share no state and no lemma.                              *)
(***************************************************************************)
EXTENDS Conversations, KnowledgePage, SequenceTheorems, FiniteSetTheorems, TLAPS

-----------------------------------------------------------------------------
(* Conversations. *)

Row == [role : {"USER", "ASSISTANT"}, turn : Turns, text : TurnTexts \cup {"answer"},
        sequence : Nat]

Holding == {"locked", "read", "completing", "answer"}
Unasked == {"idle", "locked", "read"}
Pending == {"asked", "queued", "executing", "generated", "completing", "answer"}
Places == Holding \cup Unasked \cup Pending \cup {"answered", "failed", "conflict"}

TurnRow == [kind : {"chat", "run"}, agent : Agents, text : TurnTexts, at : Places,
            read : Seq(Row), prompt : Seq(Row), seen : Nat]

ConversationTypeOK ==
    /\ messages \in Seq(Row)
    /\ owner \in Agents \cup {Nobody}
    /\ lock \in Turns \cup {Nobody}
    /\ turn \in [Turns -> TurnRow]
    /\ runQueue \in Seq(Turns)

(* Before there is a conversation nobody has stored or locked anything.    *)
OwnerOK == owner = Nobody => messages = <<>> /\ lock = Nobody

(* A waiting run is queued, once.                                          *)
QueueOK ==
    /\ \A i \in DOMAIN runQueue : turn[runQueue[i]].at = "queued"
    /\ \A i, j \in DOMAIN runQueue : runQueue[i] = runQueue[j] => i = j

(* A stored question says what its turn asked.                             *)
TextsOK ==
    \A i \in DOMAIN messages :
       messages[i].role = "USER" => messages[i].text = turn[messages[i].turn].text

Numbered == \A i \in DOMAIN messages : messages[i].sequence = i

PairedIn(list) ==
    \A i, j \in DOMAIN list :
       list[i].turn = list[j].turn /\ i < j => list[i].role = "USER" /\ list[j].role = "ASSISTANT"

Paired == PairedIn(messages)

AsksAt(t, q) ==
    /\ q \in DOMAIN messages
    /\ messages[q].turn = t /\ messages[q].role = "USER"

(* Who holds the row's lock knows all messages.                            *)
LockOK(t) ==
    /\ turn[t].at \in Holding => lock = t
    /\ turn[t].at \in {"read", "answer"} => turn[t].read = messages

(* A turn's place tells which of its messages are stored.                  *)
StoredOK(t) ==
    /\ turn[t].at # "conflict"
    /\ turn[t].at \in Unasked => \A i \in DOMAIN messages : messages[i].turn # t
    /\ turn[t].at \in Pending =>
         \E q \in DOMAIN messages :
            AsksAt(t, q) /\ \A i \in DOMAIN messages : messages[i].turn = t => i = q
    /\ turn[t].at \in {"queued", "executing"} => turn[t].kind = "run"

(* A turn of the direct chat that has asked knows what was said before, and *)
(* the model is asked with it.                                             *)
HistoryOK(t) ==
    turn[t].kind = "chat" /\ turn[t].at = "asked" =>
       \E q \in DOMAIN messages : AsksAt(t, q) /\ turn[t].read = SubSeq(messages, 1, q - 1)

PromptOK(t) ==
    turn[t].prompt # <<>> =>
       /\ \E q \in DOMAIN messages : AsksAt(t, q)
       /\ turn[t].kind = "chat" => turn[t].prompt = ConversationUpTo(t)
       /\ turn[t].kind = "run" =>
            /\ turn[t].seen <= Len(messages) /\ AsksWithWhatItRead(t)
            /\ turn[t].seen = Question(t) /\ Question(t) <= FirstPage
                 => turn[t].prompt = ConversationUpTo(t)

TurnOK(t) == LockOK(t) /\ StoredOK(t) /\ HistoryOK(t) /\ PromptOK(t)

ConversationInv ==
    /\ ConversationTypeOK /\ OwnerOK /\ QueueOK /\ TextsOK /\ Numbered /\ Paired
    /\ \A t \in Turns : TurnOK(t)

-----------------------------------------------------------------------------
(* Places and questions. *)

LEMMA PlaceNames ==
    /\ Unasked \cap Pending = {} /\ Unasked \cup Pending \cup Holding \subseteq Places
    /\ {"idle", "locked", "read"} \subseteq Unasked
    /\ {"asked", "queued", "executing", "generated", "completing", "answer"} \subseteq Pending
    /\ {"locked", "read", "completing", "answer"} \subseteq Holding
    /\ {"idle", "asked", "queued", "executing", "generated"} \cap Holding = {}
    /\ {"answered", "failed", "conflict"} \cap (Unasked \cup Pending \cup Holding) = {}
    /\ {"answered", "failed", "conflict"} \subseteq Places
BY DEF Places, Unasked, Pending, Holding

(* The question of a turn is where it is. *)
LEMMA OneQuestion ==
    ASSUME NEW list \in Seq(Row), PairedIn(list), NEW t, NEW q \in DOMAIN list,
           list[q].turn = t, list[q].role = "USER"
    PROVE  (CHOOSE i \in DOMAIN list : list[i].turn = t /\ list[i].role = "USER") = q
<1>1. DOMAIN list = 1 .. Len(list) /\ Len(list) \in Nat
  BY LenProperties
<1>2. ASSUME NEW i \in DOMAIN list, list[i].turn = t, list[i].role = "USER"
      PROVE  i = q
  <2>1. ~(i < q) /\ ~(q < i)
    BY <1>2 DEF PairedIn
  <2>. QED
    BY <1>1, <2>1
<1>. QED
  BY <1>2

(* A message more leaves the others where they are. *)
LEMMA Appended ==
    ASSUME ConversationTypeOK, NEW row \in Row, messages' = Append(messages, row)
    PROVE  /\ messages' \in Seq(Row) /\ Len(messages) \in Nat
           /\ DOMAIN messages = 1 .. Len(messages)
           /\ DOMAIN messages' = 1 .. Len(messages) + 1
           /\ \A i \in DOMAIN messages : i \in DOMAIN messages' /\ messages'[i] = messages[i]
           /\ messages'[Len(messages) + 1] = row
           /\ \A q \in DOMAIN messages : SubSeq(messages', 1, q - 1) = SubSeq(messages, 1, q - 1)
           /\ \A k \in Int : k <= Len(messages) => SubSeq(messages', 1, k) = SubSeq(messages, 1, k)
<1>1. messages \in Seq(Row) /\ Len(messages) \in Nat /\ DOMAIN messages = 1 .. Len(messages)
  BY LenProperties DEF ConversationTypeOK
<1>2. /\ messages' \in Seq(Row) /\ Len(messages') = Len(messages) + 1
      /\ messages'[Len(messages) + 1] = row
      /\ \A i \in 1 .. Len(messages) : messages'[i] = messages[i]
  BY <1>1, AppendProperties
<1>3. DOMAIN messages' = 1 .. Len(messages) + 1
  BY <1>2, LenProperties
<1>4. ASSUME NEW k \in Int, k <= Len(messages)
      PROVE  SubSeq(messages', 1, k) = SubSeq(messages, 1, k)
  <2>1. \A i \in 1 .. k : /\ messages[i] \in Row /\ messages'[i] \in Row
                          /\ messages'[i] = messages[i]
    BY <1>1, <1>2, <1>4, ElementOfSeq
  <2>2. /\ SubSeq(messages, 1, k) \in Seq(Row)
        /\ Len(SubSeq(messages, 1, k)) = IF 1 <= k THEN k - 1 + 1 ELSE 0
        /\ \A i \in 1 .. k - 1 + 1 : SubSeq(messages, 1, k)[i] = messages[1 + i - 1]
    BY <2>1, SubSeqProperties
  <2>3. /\ SubSeq(messages', 1, k) \in Seq(Row)
        /\ Len(SubSeq(messages', 1, k)) = IF 1 <= k THEN k - 1 + 1 ELSE 0
        /\ \A i \in 1 .. k - 1 + 1 : SubSeq(messages', 1, k)[i] = messages'[1 + i - 1]
    BY <1>4, <2>1, SubSeqProperties
  <2>4. \A i \in 1 .. Len(SubSeq(messages', 1, k)) :
           SubSeq(messages', 1, k)[i] = SubSeq(messages, 1, k)[i]
    BY <1>4, <2>1, <2>2, <2>3
  <2>. QED
    BY <2>2, <2>3, <2>4, SeqEqual
<1>5. \A q \in DOMAIN messages : SubSeq(messages', 1, q - 1) = SubSeq(messages, 1, q - 1)
  BY <1>1, <1>4
<1>. QED
  BY <1>1, <1>2, <1>3, <1>4, <1>5

(* A message more, or none, leaves a turn's question and what came before. *)
LEMMA QuestionKept ==
    ASSUME ConversationTypeOK, Paired, Paired', NEW t, NEW q, AsksAt(t, q),
           turn'[t].kind = turn[t].kind,
           messages' = messages \/ \E row \in Row : messages' = Append(messages, row)
    PROVE  /\ AsksAt(t, q)' /\ Question(t) = q /\ Question(t)' = q
           /\ ConversationUpTo(t)' = ConversationUpTo(t) /\ messages'[q] = messages[q]
<1>1. Question(t) = q
  BY OneQuestion DEF ConversationTypeOK, Paired, Question, AsksAt
<1>2. /\ messages' \in Seq(Row) /\ q \in DOMAIN messages'
      /\ messages'[q] = messages[q]
      /\ SubSeq(messages', 1, q - 1) = SubSeq(messages, 1, q - 1)
  BY Appended DEF AsksAt, ConversationTypeOK
<1>3. Question(t)' = q
  BY <1>2, OneQuestion DEF Paired, Question, AsksAt
<1>4. AsksAt(t, q)'
  BY <1>2 DEF AsksAt
<1>. QED
  BY <1>1, <1>2, <1>3, <1>4 DEF ConversationUpTo

-----------------------------------------------------------------------------
(* What a step of one turn leaves of the others, and of the rest. *)

(* The turn t moves, and keeps what it was asked with.                     *)
Moved(t) ==
    /\ turn' \in [Turns -> TurnRow]
    /\ turn'[t].kind = turn[t].kind
    /\ turn'[t].text = turn[t].text
    /\ \A u \in Turns \ {t} : turn'[u] = turn[u]

(* The turn t stores its question or its answer.                           *)
Stores(t) ==
    \E row \in Row :
       /\ messages' = Append(messages, row)
       /\ row.turn = t /\ row.sequence = Len(messages) + 1
       /\ \/ row.role = "USER" /\ row.text = turn[t].text /\ turn[t].at \in Unasked
          \/ row.role = "ASSISTANT" /\ turn[t].at \in Pending

LEMMA MessagesKept ==
    ASSUME ConversationInv, NEW t \in Turns, Moved(t), messages' = messages \/ Stores(t)
    PROVE  messages' \in Seq(Row) /\ Numbered' /\ Paired' /\ TextsOK'
<1>1. \A u \in Turns : turn'[u].text = turn[u].text
  BY DEF Moved
<1>2. \A i \in DOMAIN messages : messages[i] \in Row
  BY LenProperties, ElementOfSeq DEF ConversationInv, ConversationTypeOK
<1>3. CASE messages' = messages
  BY <1>1, <1>2, <1>3 DEF ConversationInv, ConversationTypeOK, Numbered, Paired, TextsOK, Row
<1>4. CASE Stores(t)
  <2>1. PICK row \in Row :
           /\ messages' = Append(messages, row)
           /\ row.turn = t /\ row.sequence = Len(messages) + 1
           /\ \/ row.role = "USER" /\ row.text = turn[t].text /\ turn[t].at \in Unasked
              \/ row.role = "ASSISTANT" /\ turn[t].at \in Pending
    BY <1>4 DEF Stores
  <2>2. /\ messages' \in Seq(Row) /\ Len(messages) \in Nat
        /\ DOMAIN messages = 1 .. Len(messages)
        /\ DOMAIN messages' = 1 .. Len(messages) + 1
        /\ \A i \in DOMAIN messages : messages'[i] = messages[i]
        /\ messages'[Len(messages) + 1] = row
    BY <2>1, Appended DEF ConversationInv
  <2>7. \A i \in DOMAIN messages' : i \in DOMAIN messages \/ i = Len(messages) + 1
    BY <2>2
  <2>3. Numbered'
    BY <2>1, <2>2, <2>7 DEF ConversationInv, Numbered
  <2>4. TextsOK'
    <3>1. ASSUME NEW i \in DOMAIN messages, messages'[i].role = "USER"
          PROVE  messages'[i].text = turn'[messages'[i].turn].text
      BY <1>1, <1>2, <2>2, <3>1 DEF ConversationInv, TextsOK, Row
    <3>2. row.role = "USER" => row.text = turn'[row.turn].text
      BY <1>1, <2>1
    <3>. QED
      BY <2>2, <2>7, <3>1, <3>2 DEF TextsOK
  <2>5. ASSUME NEW i \in DOMAIN messages, messages[i].turn = t
        PROVE  messages[i].role = "USER" /\ row.role = "ASSISTANT"
    <3>1. turn[t].at \notin Unasked
      BY <2>5 DEF ConversationInv, TurnOK, StoredOK
    <3>2. row.role = "ASSISTANT" /\ turn[t].at \in Pending
      BY <2>1, <3>1
    <3>. QED
      BY <2>5, <3>2 DEF ConversationInv, TurnOK, StoredOK, AsksAt
  <2>6. Paired'
    <3>. SUFFICES ASSUME NEW i \in DOMAIN messages', NEW j \in DOMAIN messages',
                         messages'[i].turn = messages'[j].turn, i < j
                  PROVE  messages'[i].role = "USER" /\ messages'[j].role = "ASSISTANT"
      BY DEF Paired, PairedIn
    <3>1. i \in DOMAIN messages
      BY <2>2
    <3>2. CASE j \in DOMAIN messages
      BY <2>2, <3>1, <3>2 DEF ConversationInv, Paired, PairedIn
    <3>3. CASE j = Len(messages) + 1
      BY <2>1, <2>2, <2>5, <3>1, <3>3
    <3>. QED
      BY <2>2, <3>2, <3>3
  <2>. QED
    BY <2>2, <2>3, <2>4, <2>6
<1>. QED
  BY <1>3, <1>4

LEMMA PromptKept ==
    ASSUME ConversationInv, NEW t \in Turns, Moved(t), messages' = messages \/ Stores(t),
           NEW u \in Turns, PromptOK(u), turn'[u].prompt = turn[u].prompt,
           turn'[u].seen = turn[u].seen
    PROVE  PromptOK(u)'
<1>. SUFFICES ASSUME turn[u].prompt # <<>>
              PROVE  PromptOK(u)'
  BY DEF PromptOK
<1>1. PICK q \in DOMAIN messages : AsksAt(u, q)
  BY DEF PromptOK
<1>2. Paired /\ Paired' /\ ConversationTypeOK
  BY MessagesKept DEF ConversationInv
<1>3. turn'[u].kind = turn[u].kind
  BY DEF Moved
<1>4. messages' = messages \/ \E row \in Row : messages' = Append(messages, row)
  BY DEF Stores
<1>5. /\ AsksAt(u, q)' /\ Question(u)' = Question(u)
      /\ ConversationUpTo(u)' = ConversationUpTo(u) /\ q \in DOMAIN messages'
      /\ Question(u) = q /\ messages'[q] = messages[q]
  BY <1>1, <1>2, <1>3, <1>4, QuestionKept DEF AsksAt
<1>6. ASSUME turn[u].kind = "run"
      PROVE  turn'[u].seen <= Len(messages') /\ AsksWithWhatItRead(u)'
  <2>1. /\ turn[u].seen <= Len(messages) /\ AsksWithWhatItRead(u)
        /\ turn[u].seen \in Nat /\ FirstPage \in Nat /\ Len(messages) \in Nat
    BY <1>2, <1>6, ConversationsAssumption, LenProperties DEF PromptOK, ConversationTypeOK, TurnRow
  <2>2. PICK n \in Nat : n = LastRead(u) /\ n <= Len(messages)
    BY <2>1 DEF LastRead
  <2>3. LastRead(u)' = n
    BY <2>2 DEF LastRead
  <2>4. PICK k \in {n - 1, n} :
           /\ turn[u].prompt = Append(slice(SubSeq(messages, 1, k), History), messages[q])
           /\ k # n => Repeats(u, n)
    BY <1>5, <2>1, <2>2 DEF AsksWithWhatItRead
  <2>5. /\ Len(messages) <= Len(messages') /\ SubSeq(messages', 1, k) = SubSeq(messages, 1, k)
        /\ n \in DOMAIN messages => n \in DOMAIN messages' /\ messages'[n] = messages[n]
    <3>1. CASE messages' = messages
      BY <2>1, <3>1
    <3>2. ASSUME NEW row \in Row, messages' = Append(messages, row)
          PROVE  <2>5
      <4>1. /\ messages \in Seq(Row) /\ Len(messages') = Len(messages) + 1
            /\ k \in Int /\ k <= Len(messages)
        BY <1>2, <2>1, <2>2, <3>2, AppendProperties DEF ConversationTypeOK
      <4>2. /\ \A i \in DOMAIN messages : i \in DOMAIN messages' /\ messages'[i] = messages[i]
            /\ \A j \in Int : j <= Len(messages) =>
                                 SubSeq(messages', 1, j) = SubSeq(messages, 1, j)
        BY <1>2, <3>2, Appended
      <4>. QED
        BY <2>1, <4>1, <4>2
    <3>. QED
      BY <1>4, <3>1, <3>2
  <2>6. turn'[u].text = turn[u].text
    BY DEF Moved
  <2>7. k # n => Repeats(u, n)'
    BY <2>4, <2>5, <2>6 DEF Repeats
  <2>. QED
    <3>1. Question(u)' = q
      BY <1>5
    <3>2. turn'[u].prompt
             = Append(slice(SubSeq(messages', 1, k), History), messages'[Question(u)'])
      BY <1>5, <2>4, <2>5, <3>1
    <3>3. AsksWithWhatItRead(u)'
      BY <2>3, <2>4, <2>7, <3>2 DEF AsksWithWhatItRead
    <3>4. turn'[u].seen <= Len(messages')
      <4>1. Len(messages') \in Nat
        BY <1>2, MessagesKept, LenProperties
      <4>2. turn'[u].seen = turn[u].seen
        OBVIOUS
      <4>. QED
        BY <2>1, <2>5, <4>1, <4>2
    <3>. QED
      BY <3>3, <3>4
<1>. QED
  BY <1>3, <1>5, <1>6 DEF PromptOK

LEMMA OtherTurns ==
    ASSUME ConversationInv, NEW t \in Turns, Moved(t), messages' = messages \/ Stores(t),
           NEW u \in Turns, u # t,
           turn[u].at \in Holding => lock' = lock /\ messages' = messages
    PROVE  TurnOK(u)'
<1>1. turn'[u] = turn[u] /\ TurnOK(u)
  BY DEF Moved, ConversationInv
<1>2. LockOK(u)'
  BY <1>1, PlaceNames DEF TurnOK, LockOK
<1>3. PromptOK(u)'
  BY <1>1, PromptKept DEF TurnOK
<1>4. CASE messages' = messages
  BY <1>1, <1>2, <1>3, <1>4 DEF TurnOK, StoredOK, HistoryOK, AsksAt
<1>5. CASE Stores(t)
  <2>1. PICK row \in Row : messages' = Append(messages, row) /\ row.turn = t
    BY <1>5 DEF Stores
  <2>2. /\ DOMAIN messages = 1 .. Len(messages) /\ Len(messages) \in Nat
        /\ DOMAIN messages' = 1 .. Len(messages) + 1
        /\ \A i \in DOMAIN messages : i \in DOMAIN messages' /\ messages'[i] = messages[i]
        /\ messages'[Len(messages) + 1] = row
        /\ \A q \in DOMAIN messages : SubSeq(messages', 1, q - 1) = SubSeq(messages, 1, q - 1)
    BY <2>1, Appended DEF ConversationInv
  <2>7. \A i \in DOMAIN messages' : i \in DOMAIN messages \/ i = Len(messages) + 1
    BY <2>2
  <2>3. \A i \in DOMAIN messages' : messages'[i].turn = u => i \in DOMAIN messages
    BY <2>1, <2>2, <2>7
  <2>4. \A q \in DOMAIN messages : AsksAt(u, q) => AsksAt(u, q)'
    BY <2>2 DEF AsksAt
  <2>5. StoredOK(u)'
    BY <1>1, <2>2, <2>3, <2>4 DEF TurnOK, StoredOK
  <2>6. HistoryOK(u)'
    BY <1>1, <2>2, <2>4 DEF TurnOK, HistoryOK
  <2>. QED
    BY <1>2, <1>3, <2>5, <2>6 DEF TurnOK
<1>. QED
  BY <1>4, <1>5

(* What a step must still show once its turn has moved.                    *)
LEMMA StepKeeps ==
    ASSUME ConversationInv, NEW t \in Turns, Moved(t), messages' = messages \/ Stores(t),
           owner' \in Agents \cup {Nobody}, lock' \in Turns \cup {Nobody},
           runQueue' \in Seq(Turns), OwnerOK', QueueOK', TurnOK(t)',
           \A u \in Turns \ {t} : turn[u].at \in Holding => lock' = lock /\ messages' = messages
    PROVE  ConversationInv'
<1>1. messages' \in Seq(Row) /\ Numbered' /\ Paired' /\ TextsOK'
  BY MessagesKept
<1>2. ConversationTypeOK'
  BY <1>1 DEF ConversationTypeOK, Moved
<1>3. \A u \in Turns \ {t} : TurnOK(u)'
  BY OtherTurns
<1>. QED
  BY <1>1, <1>2, <1>3 DEF ConversationInv

LEMMA QueueKept ==
    ASSUME ConversationInv, NEW t \in Turns, Moved(t), turn[t].at # "queued", runQueue' = runQueue
    PROVE  runQueue' \in Seq(Turns) /\ QueueOK'
<1>1. \A i \in DOMAIN runQueue : runQueue[i] \in Turns
  BY LenProperties, ElementOfSeq DEF ConversationInv, ConversationTypeOK
<1>. QED
  BY <1>1 DEF ConversationInv, ConversationTypeOK, QueueOK, Moved

(* Nobody else holds the lock of a turn, or a free one.                    *)
LEMMA LockIsOurs ==
    ASSUME ConversationInv, NEW t \in Turns, lock \in {t, Nobody}
    PROVE  \A u \in Turns \ {t} : turn[u].at \notin Holding
BY ConversationsAssumption DEF ConversationInv, TurnOK, LockOK

(* How a turn moves. *)

LEMMA GoMoves ==
    ASSUME turn \in [Turns -> TurnRow], NEW t \in Turns, NEW p \in Places, Go(t, p)
    PROVE  /\ Moved(t) /\ turn'[t].at = p /\ turn'[t].read = turn[t].read
           /\ turn'[t].prompt = turn[t].prompt /\ turn'[t].seen = turn[t].seen
<1>1. turn'[t] = [turn[t] EXCEPT !.at = p] /\ turn[t] \in TurnRow
  BY DEF Go
<1>2. turn'[t] \in TurnRow
  BY <1>1 DEF TurnRow
<1>. QED
  BY <1>1, <1>2 DEF Go, Moved, TurnRow

LEMMA ReadMoves ==
    ASSUME turn \in [Turns -> TurnRow], NEW t \in Turns, NEW p \in Places, NEW list \in Seq(Row),
           turn' = [turn EXCEPT ![t].at = p, ![t].read = list]
    PROVE  /\ Moved(t) /\ turn'[t].at = p /\ turn'[t].read = list
           /\ turn'[t].prompt = turn[t].prompt /\ turn'[t].seen = turn[t].seen
<1>1. turn'[t] = [[turn[t] EXCEPT !.at = p] EXCEPT !.read = list] /\ turn[t] \in TurnRow
  OBVIOUS
<1>2. turn'[t] \in TurnRow
  BY <1>1 DEF TurnRow
<1>. QED
  BY <1>1, <1>2 DEF Moved, TurnRow

LEMMA PromptMoves ==
    ASSUME turn \in [Turns -> TurnRow], NEW t \in Turns, NEW p \in Places, NEW list \in Seq(Row),
           turn' = [turn EXCEPT ![t].at = p, ![t].prompt = list]
    PROVE  /\ Moved(t) /\ turn'[t].at = p /\ turn'[t].read = turn[t].read
           /\ turn'[t].prompt = list /\ turn'[t].seen = turn[t].seen
<1>1. turn'[t] = [[turn[t] EXCEPT !.at = p] EXCEPT !.prompt = list] /\ turn[t] \in TurnRow
  OBVIOUS
<1>2. turn'[t] \in TurnRow
  BY <1>1 DEF TurnRow
<1>. QED
  BY <1>1, <1>2 DEF Moved, TurnRow

LEMMA AnswerMoves ==
    ASSUME turn \in [Turns -> TurnRow], NEW t \in Turns, NEW p \in Places, NEW list \in Seq(Row),
           NEW n \in Nat,
           turn' = [turn EXCEPT ![t].at = p, ![t].seen = n, ![t].prompt = list]
    PROVE  /\ Moved(t) /\ turn'[t].at = p /\ turn'[t].read = turn[t].read
           /\ turn'[t].prompt = list /\ turn'[t].seen = n
<1>1. /\ turn'[t] = [[[turn[t] EXCEPT !.at = p] EXCEPT !.seen = n] EXCEPT !.prompt = list]
      /\ turn[t] \in TurnRow
  OBVIOUS
<1>2. turn'[t] \in TurnRow
  BY <1>1 DEF TurnRow
<1>. QED
  BY <1>1, <1>2 DEF Moved, TurnRow

LEMMA MessageIsRow ==
    ASSUME ConversationTypeOK, NEW t \in Turns, NEW role \in {"USER", "ASSISTANT"}, NEW n \in Nat
    PROVE  /\ Message(role, t, n) \in Row
           /\ Message(role, t, n).turn = t /\ Message(role, t, n).role = role
           /\ Message(role, t, n).sequence = n
           /\ role = "USER" => Message(role, t, n).text = turn[t].text
<1>1. turn[t].text \in TurnTexts
  BY DEF ConversationTypeOK, TurnRow
<1>. QED
  BY <1>1 DEF Message, Row

-----------------------------------------------------------------------------
(* Each step. *)

LEMMA CreateStep ==
    ASSUME ConversationInv, NEW t \in Turns, CreateConversation(t)
    PROVE  ConversationInv'
<1>. DEFINE row == Message("USER", t, 1)
<1>1. /\ turn[t].at = "idle" /\ messages = <<>> /\ lock = Nobody
      /\ owner' = turn[t].agent /\ messages' = <<row>>
      /\ turn' = [turn EXCEPT ![t].at = "asked", ![t].read = <<>>]
      /\ lock' = lock /\ runQueue' = runQueue
  BY DEF CreateConversation, At, ConversationInv, OwnerOK
<1>2. row \in Row /\ row.turn = t /\ row.role = "USER" /\ row.sequence = 1 /\ row.text = turn[t].text
  BY MessageIsRow DEF ConversationInv
<1>3. /\ Moved(t) /\ turn'[t].at = "asked" /\ turn'[t].read = <<>>
      /\ turn'[t].prompt = turn[t].prompt /\ turn'[t].seen = turn[t].seen
  <2>1. "asked" \in Places /\ <<>> \in Seq(Row) /\ turn \in [Turns -> TurnRow]
    BY PlaceNames, EmptySeq DEF ConversationInv, ConversationTypeOK
  <2>. QED
    BY <1>1, <2>1, ReadMoves
<1>4. Stores(t)
  BY <1>1, <1>2, PlaceNames DEF Stores
<1>5. QueueOK' /\ runQueue' \in Seq(Turns)
  BY <1>1, <1>3, QueueKept
<1>6. owner' \in Agents /\ OwnerOK' /\ lock' \in Turns \cup {Nobody}
  <2>1. turn[t].agent \in Agents
    BY DEF ConversationInv, ConversationTypeOK, TurnRow
  <2>. QED
    BY <1>1, <2>1, ConversationsAssumption DEF OwnerOK
<1>7. TurnOK(t)'
  <2>1. LockOK(t)'
    BY <1>3, PlaceNames DEF LockOK
  <2>2. DOMAIN messages' = {1} /\ messages'[1] = row /\ AsksAt(t, 1)'
    BY <1>1, <1>2 DEF AsksAt
  <2>3. StoredOK(t)'
    BY <1>3, <2>2, PlaceNames DEF StoredOK
  <2>4. SubSeq(messages', 1, 1 - 1) = <<>>
    BY SubSeqEmpty
  <2>5. HistoryOK(t)'
    BY <1>3, <2>2, <2>4 DEF HistoryOK
  <2>6. PromptOK(t)'
    BY <1>3, <1>4, PromptKept DEF ConversationInv, TurnOK
  <2>. QED
    BY <2>1, <2>3, <2>5, <2>6 DEF TurnOK
<1>8. \A u \in Turns \ {t} : turn[u].at \notin Holding
  BY <1>1, LockIsOurs
<1>. QED
  BY <1>3, <1>4, <1>5, <1>6, <1>7, <1>8, StepKeeps

LEMMA LockStep ==
    ASSUME ConversationInv, NEW t \in Turns, NEW before, NEW after, LockConversation(t, before, after),
           \/ before = "idle" /\ after = "locked"
           \/ before = "generated" /\ after = "completing"
    PROVE  ConversationInv'
<1>1. /\ turn[t].at = before /\ owner # Nobody /\ messages' = messages
      /\ owner' = owner /\ runQueue' = runQueue
      /\ \/ lock = Nobody /\ lock' = t /\ Go(t, after)
         \/ lock' = lock /\ Go(t, "failed")
  BY DEF LockConversation, At
<1>2. PICK p \in {after, "failed"} :
         Go(t, p) /\ IF p = after THEN lock = Nobody /\ lock' = t ELSE lock' = lock
  <2>1. after # "failed"
    OBVIOUS
  <2>. QED
    BY <1>1, <2>1
<1>3. /\ Moved(t) /\ turn'[t].at = p /\ turn'[t].read = turn[t].read
      /\ turn'[t].prompt = turn[t].prompt /\ turn'[t].seen = turn[t].seen
  BY <1>2, GoMoves, PlaceNames DEF ConversationInv, ConversationTypeOK
<1>4. QueueOK' /\ runQueue' \in Seq(Turns)
  BY <1>1, <1>3, QueueKept
<1>5. owner' \in Agents \cup {Nobody} /\ OwnerOK' /\ lock' \in Turns \cup {Nobody}
  BY <1>1, <1>2 DEF ConversationInv, ConversationTypeOK, OwnerOK
<1>6. \A u \in Turns \ {t} : turn[u].at \in Holding => lock' = lock /\ messages' = messages
  BY <1>1, <1>2, LockIsOurs
<1>7. TurnOK(t)'
  <2>1. LockOK(t)'
    BY <1>2, <1>3, PlaceNames DEF LockOK
  <2>2. StoredOK(t)'
    BY <1>1, <1>3, PlaceNames DEF ConversationInv, TurnOK, StoredOK, AsksAt
  <2>3. HistoryOK(t)'
    BY <1>3 DEF HistoryOK
  <2>4. PromptOK(t)'
    BY <1>1, <1>3, PromptKept DEF ConversationInv, TurnOK
  <2>. QED
    BY <2>1, <2>2, <2>3, <2>4 DEF TurnOK
<1>. QED
  BY <1>1, <1>3, <1>4, <1>5, <1>6, <1>7, StepKeeps

LEMMA ConversationReadStep ==
    ASSUME ConversationInv, NEW t \in Turns, NEW before, NEW after, ReadMessages(t, before, after),
           \/ before = "locked" /\ after = "read"
           \/ before = "completing" /\ after = "answer"
    PROVE  ConversationInv'
<1>1. /\ turn[t].at = before /\ messages' = messages
      /\ turn' = [turn EXCEPT ![t].at = after, ![t].read = messages]
      /\ owner' = owner /\ lock' = lock /\ runQueue' = runQueue
  BY DEF ReadMessages, At
<1>2. /\ Moved(t) /\ turn'[t].at = after /\ turn'[t].read = messages
      /\ turn'[t].prompt = turn[t].prompt /\ turn'[t].seen = turn[t].seen
  <2>1. after \in Places /\ messages \in Seq(Row) /\ turn \in [Turns -> TurnRow]
    BY PlaceNames DEF ConversationInv, ConversationTypeOK
  <2>. QED
    BY <1>1, <2>1, ReadMoves
<1>3. QueueOK' /\ runQueue' \in Seq(Turns)
  BY <1>1, <1>2, QueueKept
<1>4. owner' \in Agents \cup {Nobody} /\ OwnerOK' /\ lock' \in Turns \cup {Nobody}
  BY <1>1 DEF ConversationInv, ConversationTypeOK, OwnerOK
<1>5. TurnOK(t)'
  <2>1. LockOK(t)'
    BY <1>1, <1>2, PlaceNames DEF ConversationInv, TurnOK, LockOK
  <2>2. StoredOK(t)'
    BY <1>1, <1>2, PlaceNames DEF ConversationInv, TurnOK, StoredOK, AsksAt
  <2>3. HistoryOK(t)'
    BY <1>2 DEF HistoryOK
  <2>4. PromptOK(t)'
    BY <1>1, <1>2, PromptKept DEF ConversationInv, TurnOK
  <2>. QED
    BY <2>1, <2>2, <2>3, <2>4 DEF TurnOK
<1>. QED
  BY <1>1, <1>2, <1>3, <1>4, <1>5, StepKeeps

(* A number is the next one, and nobody has taken it. *)
LEMMA NextNumber ==
    ASSUME ConversationInv
    PROVE  /\ NextSequence(messages) = Len(messages) + 1 /\ Len(messages) \in Nat
           /\ \A i \in DOMAIN messages : messages[i].sequence # Len(messages) + 1
<1>1. /\ Len(messages) \in Nat /\ DOMAIN messages = 1 .. Len(messages)
      /\ messages # <<>> => Len(messages) \in DOMAIN messages
      /\ Len(<<>>) = 0
  BY LenProperties, EmptySeq DEF ConversationInv, ConversationTypeOK
<1>. QED
  BY <1>1 DEF ConversationInv, Numbered, NextSequence, Last

LEMMA AllBefore ==
    ASSUME ConversationTypeOK, NEW row \in Row, messages' = Append(messages, row)
    PROVE  SubSeq(messages', 1, Len(messages) + 1 - 1) = messages
<1>1. /\ messages \in Seq(Row) /\ Len(messages) \in Nat /\ Len(messages) + 1 - 1 = Len(messages)
      /\ \A i \in 1 .. Len(messages) : messages'[i] = messages[i] /\ messages[i] \in Row
  BY LenProperties, AppendProperties, ElementOfSeq DEF ConversationTypeOK
<1>2. /\ SubSeq(messages', 1, Len(messages)) \in Seq(Row)
      /\ Len(SubSeq(messages', 1, Len(messages)))
            = IF 1 <= Len(messages) THEN Len(messages) - 1 + 1 ELSE 0
      /\ \A i \in 1 .. Len(messages) - 1 + 1 :
            SubSeq(messages', 1, Len(messages))[i] = messages'[1 + i - 1]
  BY <1>1, SubSeqProperties
<1>3. \A i \in 1 .. Len(SubSeq(messages', 1, Len(messages))) :
         SubSeq(messages', 1, Len(messages))[i] = messages[i]
  BY <1>1, <1>2
<1>. QED
  BY <1>1, <1>2, <1>3, SeqEqual

LEMMA AppendStep ==
    ASSUME ConversationInv, NEW t \in Turns, NEW role, NEW before, NEW after,
           AppendMessage(t, role, before, after),
           \/ role = "USER" /\ before = "read" /\ after = "asked"
           \/ role = "ASSISTANT" /\ before = "answer" /\ after = "answered"
    PROVE  ConversationInv'
<1>. DEFINE row == Message(role, t, Len(messages) + 1)
<1>1. /\ turn[t].at = before /\ turn[t].read = messages /\ lock = t
      /\ owner' = owner /\ runQueue' = runQueue
  BY PlaceNames DEF AppendMessage, At, ConversationInv, TurnOK, LockOK
<1>2. /\ messages' = Append(messages, row) /\ lock' = Nobody /\ Go(t, after)
  BY <1>1, NextNumber DEF AppendMessage
<1>3. /\ row \in Row /\ row.turn = t /\ row.role = role /\ row.sequence = Len(messages) + 1
      /\ role = "USER" => row.text = turn[t].text
  BY MessageIsRow, NextNumber DEF ConversationInv
<1>. HIDE DEF row
<1>4. /\ Moved(t) /\ turn'[t].at = after /\ turn'[t].read = turn[t].read
      /\ turn'[t].prompt = turn[t].prompt /\ turn'[t].seen = turn[t].seen
  BY <1>2, GoMoves, PlaceNames DEF ConversationInv, ConversationTypeOK
<1>5. Stores(t)
  BY <1>1, <1>2, <1>3, PlaceNames DEF Stores
<1>6. QueueOK' /\ runQueue' \in Seq(Turns)
  BY <1>1, <1>4, QueueKept
<1>7. owner' \in Agents \cup {Nobody} /\ OwnerOK' /\ lock' \in Turns \cup {Nobody}
  BY <1>1, <1>2, ConversationsAssumption DEF ConversationInv, ConversationTypeOK, OwnerOK
<1>8. \A u \in Turns \ {t} : turn[u].at \notin Holding
  BY <1>1, LockIsOurs
<1>9. TurnOK(t)'
  <2>1. LockOK(t)'
    BY <1>4, PlaceNames DEF LockOK
  <2>2. /\ DOMAIN messages = 1 .. Len(messages) /\ Len(messages) \in Nat
        /\ DOMAIN messages' = 1 .. Len(messages) + 1
        /\ \A i \in DOMAIN messages : messages'[i] = messages[i]
        /\ messages'[Len(messages) + 1] = row
    BY <1>2, <1>3, Appended DEF ConversationInv
  <2>3. PromptOK(t)'
    BY <1>4, <1>5, PromptKept DEF ConversationInv, TurnOK
  <2>4. CASE role = "USER"
    <3>0. PICK q \in Nat : q = Len(messages) + 1
      BY <2>2
    <3>1. q \in DOMAIN messages' /\ AsksAt(t, q)'
      BY <1>3, <2>2, <2>4, <3>0 DEF AsksAt
    <3>2. \A i \in DOMAIN messages : messages[i].turn # t
      BY <1>1, <2>4, PlaceNames DEF ConversationInv, TurnOK, StoredOK
    <3>3. \A i \in DOMAIN messages' : i \in DOMAIN messages \/ i = q
      BY <2>2, <3>0
    <3>4. \A i \in DOMAIN messages' : messages'[i].turn = t => i = q
      BY <2>2, <3>2, <3>3
    <3>5. StoredOK(t)'
      BY <1>4, <2>4, <3>1, <3>4, PlaceNames DEF StoredOK
    <3>6. turn'[t].read = SubSeq(messages', 1, q - 1)
      BY <1>1, <1>2, <1>3, <1>4, <3>0, AllBefore DEF ConversationInv
    <3>7. HistoryOK(t)'
      BY <3>1, <3>6 DEF HistoryOK
    <3>. QED
      BY <2>1, <2>3, <3>5, <3>7 DEF TurnOK
  <2>5. CASE role = "ASSISTANT"
    <3>1. StoredOK(t)'
      BY <1>4, <2>5, PlaceNames DEF StoredOK
    <3>2. HistoryOK(t)'
      BY <1>4, <2>5 DEF HistoryOK
    <3>. QED
      BY <2>1, <2>3, <3>1, <3>2 DEF TurnOK
  <2>. QED
    BY <2>4, <2>5
<1>. QED
  BY <1>4, <1>5, <1>6, <1>7, <1>8, <1>9, StepKeeps

LEMMA PrepareStep ==
    ASSUME ConversationInv, NEW t \in Turns, prepare(t)
    PROVE  ConversationInv'
<1>. DEFINE question == Message("USER", t, NextSequence(turn[t].read))
            prompt == Append(turn[t].read, question)
<1>1. /\ turn[t].kind = "chat" /\ turn[t].at = "asked" /\ messages' = messages
      /\ turn' = [turn EXCEPT ![t].at = "generated", ![t].prompt = prompt]
      /\ owner' = owner /\ lock' = lock /\ runQueue' = runQueue
  BY DEF prepare, At
<1>2. PICK q \in DOMAIN messages : AsksAt(t, q) /\ turn[t].read = SubSeq(messages, 1, q - 1)
  BY <1>1 DEF ConversationInv, TurnOK, HistoryOK
<1>3. question = messages[q]
  <2>1. /\ DOMAIN messages = 1 .. Len(messages) /\ Len(messages) \in Nat
        /\ \A i \in DOMAIN messages : messages[i] \in Row
    BY LenProperties, ElementOfSeq DEF ConversationInv, ConversationTypeOK
  <2>2. /\ turn[t].read \in Seq(Row)
        /\ Len(turn[t].read) = IF 1 <= q - 1 THEN q - 1 - 1 + 1 ELSE 0
        /\ \A i \in 1 .. q - 1 - 1 + 1 : turn[t].read[i] = messages[1 + i - 1]
    BY <1>2, <2>1, SubSeqProperties
  <2>3. NextSequence(turn[t].read) = q
    <3>1. CASE q = 1
      <4>1. turn[t].read = <<>>
        BY <1>2, <3>1, SubSeqEmpty
      <4>. QED
        BY <3>1, <4>1 DEF NextSequence
    <3>2. CASE q > 1
      <4>1. /\ Len(turn[t].read) = q - 1 /\ q - 1 \in DOMAIN messages
            /\ turn[t].read[q - 1] = messages[q - 1]
        <5>1. /\ q \in Nat /\ q - 1 \in DOMAIN messages /\ 1 <= q - 1
              /\ q - 1 - 1 + 1 = q - 1 /\ 1 + (q - 1) - 1 = q - 1 /\ q - 1 \in 1 .. q - 1
          BY <2>1, <3>2
        <5>. QED
          BY <2>2, <5>1
      <4>2. turn[t].read # <<>>
        BY <2>1, <3>2, <4>1, EmptySeq
      <4>3. messages[q - 1].sequence = q - 1
        BY <4>1 DEF ConversationInv, Numbered
      <4>. QED
        BY <2>1, <4>1, <4>2, <4>3 DEF NextSequence, Last
    <3>. QED
      BY <2>1, <3>1, <3>2
  <2>4. /\ messages[q].role = "USER" /\ messages[q].turn = t
        /\ messages[q].text = turn[t].text /\ messages[q].sequence = q
    BY <1>2 DEF ConversationInv, AsksAt, TextsOK, Numbered
  <2>. QED
    BY <2>1, <2>3, <2>4 DEF Message, Row
<1>4. prompt \in Seq(Row)
  <2>1. turn[t].read \in Seq(Row) /\ messages[q] \in Row
    BY LenProperties, ElementOfSeq DEF ConversationInv, ConversationTypeOK, TurnRow
  <2>. QED
    BY <1>3, <2>1, AppendProperties
<1>5. prompt = ConversationUpTo(t) /\ Question(t) = q
  <2>1. Question(t) = q
    BY <1>2, OneQuestion DEF ConversationInv, ConversationTypeOK, Paired, Question, AsksAt
  <2>. QED
    BY <1>1, <1>2, <1>3, <2>1 DEF ConversationUpTo
<1>. HIDE DEF prompt
<1>6. /\ Moved(t) /\ turn'[t].at = "generated" /\ turn'[t].prompt = prompt
  <2>1. "generated" \in Places /\ turn \in [Turns -> TurnRow]
    BY PlaceNames DEF ConversationInv, ConversationTypeOK
  <2>. QED
    BY ZenonT(40), <1>1, <1>4, <2>1, PromptMoves
<1>7. QueueOK' /\ runQueue' \in Seq(Turns)
  BY <1>1, <1>6, QueueKept
<1>8. owner' \in Agents \cup {Nobody} /\ OwnerOK' /\ lock' \in Turns \cup {Nobody}
  BY <1>1 DEF ConversationInv, ConversationTypeOK, OwnerOK
<1>9. TurnOK(t)'
  <2>1. LockOK(t)'
    BY <1>6, PlaceNames DEF LockOK
  <2>2. StoredOK(t)'
    BY <1>1, <1>6, PlaceNames DEF ConversationInv, TurnOK, StoredOK, AsksAt
  <2>3. HistoryOK(t)'
    BY <1>6 DEF HistoryOK
  <2>4. /\ AsksAt(t, q)' /\ ConversationUpTo(t)' = ConversationUpTo(t)
    BY <1>1, <1>2, <1>6, MessagesKept, QuestionKept DEF ConversationInv, Moved
  <2>5. PromptOK(t)'
    BY <1>1, <1>2, <1>5, <1>6, <2>4 DEF PromptOK, Moved
  <2>. QED
    BY <2>1, <2>2, <2>3, <2>5 DEF TurnOK
<1>. QED
  BY <1>1, <1>6, <1>7, <1>8, <1>9, StepKeeps

(* A step that only moves a turn that stays where its messages are.        *)
LEMMA MoveStep ==
    ASSUME ConversationInv, NEW t \in Turns, NEW p \in Places, Go(t, p),
           messages' = messages, owner' = owner, lock' = lock,
           runQueue' \in Seq(Turns), QueueOK', p \notin Holding, p # "asked", p # "conflict",
           p \notin Unasked, p \in Pending => turn[t].at \in Pending,
           p \in {"queued", "executing"} => turn[t].kind = "run"
    PROVE  ConversationInv'
<1>1. /\ Moved(t) /\ turn'[t].at = p /\ turn'[t].read = turn[t].read
      /\ turn'[t].prompt = turn[t].prompt /\ turn'[t].seen = turn[t].seen
  BY GoMoves DEF ConversationInv, ConversationTypeOK
<1>2. owner' \in Agents \cup {Nobody} /\ OwnerOK' /\ lock' \in Turns \cup {Nobody}
  BY DEF ConversationInv, ConversationTypeOK, OwnerOK
<1>3. LockOK(t)'
  BY <1>1, PlaceNames DEF LockOK
<1>4. StoredOK(t)'
  BY <1>1 DEF ConversationInv, TurnOK, StoredOK, AsksAt, Moved
<1>5. HistoryOK(t)'
  BY <1>1 DEF HistoryOK
<1>6. PromptOK(t)'
  BY <1>1, PromptKept DEF ConversationInv, TurnOK
<1>. QED
  BY <1>1, <1>2, <1>3, <1>4, <1>5, <1>6, StepKeeps DEF TurnOK

LEMMA EnqueueStep ==
    ASSUME ConversationInv, NEW t \in Turns, enqueueRun(t)
    PROVE  ConversationInv'
<1>1. /\ turn[t].kind = "run" /\ turn[t].at = "asked" /\ Go(t, "queued")
      /\ runQueue' = Append(runQueue, t)
      /\ messages' = messages /\ owner' = owner /\ lock' = lock
  BY DEF enqueueRun, At
<1>2. /\ turn'[t].at = "queued" /\ \A u \in Turns \ {t} : turn'[u] = turn[u]
  BY <1>1, GoMoves, PlaceNames DEF ConversationInv, ConversationTypeOK, Moved
<1>3. /\ runQueue \in Seq(Turns) /\ DOMAIN runQueue = 1 .. Len(runQueue) /\ Len(runQueue) \in Nat
      /\ \A i \in DOMAIN runQueue : runQueue[i] \in Turns /\ runQueue[i] # t
  BY <1>1, LenProperties, ElementOfSeq DEF ConversationInv, ConversationTypeOK, QueueOK
<1>4. /\ runQueue' \in Seq(Turns) /\ DOMAIN runQueue' = 1 .. Len(runQueue) + 1
      /\ \A i \in DOMAIN runQueue : runQueue'[i] = runQueue[i]
      /\ runQueue'[Len(runQueue) + 1] = t
  BY <1>1, <1>3, AppendProperties, LenProperties
<1>5. \A i \in DOMAIN runQueue' : i \in DOMAIN runQueue \/ i = Len(runQueue) + 1
  BY <1>3, <1>4
<1>6. QueueOK'
  BY <1>2, <1>3, <1>4, <1>5 DEF ConversationInv, QueueOK
<1>. QED
  BY <1>1, <1>4, <1>6, MoveStep, PlaceNames

LEMMA TakeStep ==
    ASSUME ConversationInv, TakeRun
    PROVE  ConversationInv'
<1>. DEFINE t == Head(runQueue)
<1>1. /\ runQueue # <<>> /\ runQueue' = Tail(runQueue) /\ Go(t, "executing")
      /\ messages' = messages /\ owner' = owner /\ lock' = lock
  BY DEF TakeRun
<1>2. /\ runQueue \in Seq(Turns) /\ DOMAIN runQueue = 1 .. Len(runQueue) /\ Len(runQueue) \in Nat
      /\ \A i \in DOMAIN runQueue : runQueue[i] \in Turns
      /\ t = runQueue[1] /\ 1 \in DOMAIN runQueue
  BY <1>1, LenProperties, ElementOfSeq, EmptySeq DEF ConversationInv, ConversationTypeOK
<1>3. t \in Turns /\ turn[t].at = "queued" /\ turn[t].kind = "run"
  BY <1>2 DEF ConversationInv, QueueOK, TurnOK, StoredOK
<1>. HIDE DEF t
<1>4. \A u \in Turns \ {t} : turn'[u] = turn[u]
  BY <1>1, <1>3, GoMoves, PlaceNames DEF ConversationInv, ConversationTypeOK, Moved
<1>5. /\ runQueue' \in Seq(Turns) /\ DOMAIN runQueue' = 1 .. Len(runQueue) - 1
      /\ \A i \in DOMAIN runQueue' : i + 1 \in DOMAIN runQueue /\ runQueue'[i] = runQueue[i + 1]
  <2>1. /\ Tail(runQueue) \in Seq(Turns) /\ Len(Tail(runQueue)) = Len(runQueue) - 1
        /\ \A i \in 1 .. Len(Tail(runQueue)) : Tail(runQueue)[i] = runQueue[i + 1]
    BY <1>1, <1>2, HeadTailProperties
  <2>2. DOMAIN Tail(runQueue) = 1 .. Len(runQueue) - 1
    BY <2>1, LenProperties
  <2>. QED
    BY <1>1, <1>2, <2>1, <2>2
<1>6. ASSUME NEW i \in DOMAIN runQueue'
      PROVE  runQueue'[i] \in Turns \ {t} /\ turn[runQueue'[i]].at = "queued"
  <2>1. i + 1 \in DOMAIN runQueue /\ i + 1 # 1 /\ runQueue'[i] = runQueue[i + 1]
    BY <1>2, <1>5
  <2>. QED
    BY <1>2, <2>1 DEF ConversationInv, QueueOK
<1>7. ASSUME NEW i \in DOMAIN runQueue', NEW j \in DOMAIN runQueue', runQueue'[i] = runQueue'[j]
      PROVE  i = j
  <2>1. i + 1 = j + 1
    BY <1>5, <1>7 DEF ConversationInv, QueueOK
  <2>. QED
    BY <1>2, <1>5, <2>1
<1>8. QueueOK'
  BY <1>4, <1>6, <1>7 DEF QueueOK
<1>. QED
  BY <1>1, <1>3, <1>5, <1>8, MoveStep, PlaceNames

LEMMA FailStep ==
    ASSUME ConversationInv, NEW t \in Turns, AnswerFails(t)
    PROVE  ConversationInv'
<1>1. /\ turn[t].at = "generated" /\ Go(t, "failed") /\ messages' = messages
      /\ owner' = owner /\ lock' = lock /\ runQueue' = runQueue
  BY DEF AnswerFails
<1>2. Moved(t)
  BY <1>1, GoMoves, PlaceNames DEF ConversationInv, ConversationTypeOK
<1>3. runQueue' \in Seq(Turns) /\ QueueOK'
  BY <1>1, <1>2, QueueKept
<1>. QED
  BY <1>1, <1>3, MoveStep, PlaceNames

(* What the worker reads again is the first page, and it cuts a repetition. *)
LEMMA ReadPage ==
    ASSUME ConversationInv, NEW t \in Turns, NEW n \in Nat,
           n = IF Len(messages) < FirstPage THEN Len(messages) ELSE FirstPage
    PROVE  \E k \in {n - 1, n} :
              /\ previousConversationMessages(listMessages, turn[t].text)
                    = slice(SubSeq(messages, 1, k), History)
              /\ k # n => Repeats(t, n)
<1>1. /\ messages \in Seq(Row) /\ Len(messages) \in Nat /\ DOMAIN messages = 1 .. Len(messages)
      /\ FirstPage \in Nat
  BY ConversationsAssumption, LenProperties DEF ConversationInv, ConversationTypeOK
<1>. DEFINE list == SubSeq(messages, 1, n)
<1>2. listMessages = list
  BY DEF listMessages
<1>3. n <= Len(messages) /\ \A i \in 1 .. n : i \in DOMAIN messages /\ messages[i] \in Row
  <2>1. n <= Len(messages)
    <3>1. Len(messages) \in Nat /\ FirstPage \in Nat
      BY <1>1
    <3>2. CASE Len(messages) < FirstPage
      BY <3>1, <3>2
    <3>3. CASE ~(Len(messages) < FirstPage)
      <4>1. n = FirstPage
        BY <3>3
      <4>. QED
        BY <3>1, <3>3, <4>1
    <3>. QED
      BY <3>2, <3>3
  <2>2. \A i \in 1 .. n : i \in 1 .. Len(messages)
    <3>1. Len(messages) \in Nat
      BY <1>1
    <3>. QED
      BY <2>1, <3>1
  <2>. QED
    BY <1>1, <2>1, <2>2, ElementOfSeq
<1>4. /\ list \in Seq(Row) /\ Len(list) = n
      /\ \A i \in 1 .. n : list[i] = messages[i]
  <2>1. /\ list \in Seq(Row) /\ Len(list) = IF 1 <= n THEN n - 1 + 1 ELSE 0
        /\ \A i \in 1 .. n - 1 + 1 : list[i] = messages[1 + i - 1]
    BY <1>3, SubSeqProperties
  <2>. QED
    BY <2>1
<1>. HIDE DEF list
<1>5. CASE ~latestMessageIsCurrentUserInput(list, turn[t].text)
  BY <1>2, <1>5 DEF previousConversationMessages, list
<1>6. CASE latestMessageIsCurrentUserInput(list, turn[t].text)
  <2>1. /\ list # <<>> /\ list[n].role = "USER" /\ list[n].text = turn[t].text
    BY <1>4, <1>6 DEF latestMessageIsCurrentUserInput, Last
  <2>2. n \in 1 .. n
    BY <1>4, <2>1, EmptySeq
  <2>3. Repeats(t, n)
    BY <1>3, <1>4, <2>1, <2>2 DEF Repeats
  <2>4. Front(list) = SubSeq(messages, 1, n - 1)
    <3>1. n - 1 \in Nat /\ \A i \in 1 .. n - 1 : list[i] \in Row /\ messages[i] \in Row
                                                /\ list[i] = messages[i]
      BY <1>3, <1>4, <2>2
    <3>2. /\ SubSeq(list, 1, n - 1) \in Seq(Row)
          /\ Len(SubSeq(list, 1, n - 1)) = IF 1 <= n - 1 THEN n - 1 - 1 + 1 ELSE 0
          /\ \A i \in 1 .. n - 1 - 1 + 1 : SubSeq(list, 1, n - 1)[i] = list[1 + i - 1]
      BY <3>1, SubSeqProperties
    <3>3. /\ SubSeq(messages, 1, n - 1) \in Seq(Row)
          /\ Len(SubSeq(messages, 1, n - 1)) = IF 1 <= n - 1 THEN n - 1 - 1 + 1 ELSE 0
          /\ \A i \in 1 .. n - 1 - 1 + 1 : SubSeq(messages, 1, n - 1)[i] = messages[1 + i - 1]
      BY <3>1, SubSeqProperties
    <3>4. \A i \in 1 .. Len(SubSeq(list, 1, n - 1)) :
             SubSeq(list, 1, n - 1)[i] = SubSeq(messages, 1, n - 1)[i]
      BY <3>1, <3>2, <3>3
    <3>5. SubSeq(list, 1, n - 1) = SubSeq(messages, 1, n - 1)
      BY <3>2, <3>3, <3>4, SeqEqual
    <3>. QED
      BY <1>4, <3>5 DEF Front
  <2>5. previousConversationMessages(list, turn[t].text)
           = slice(SubSeq(messages, 1, n - 1), History)
    BY <1>6, <2>4 DEF previousConversationMessages
  <2>. QED
    BY <1>2, <2>3, <2>5
<1>. QED
  BY <1>5, <1>6

(* The worker reads the conversation again and cuts the question off.      *)
LEMMA ReadAgain ==
    ASSUME ConversationInv, NEW t \in Turns, NEW q \in DOMAIN messages, AsksAt(t, q),
           q = Len(messages), q <= FirstPage
    PROVE  previousConversationMessages(listMessages, turn[t].text)
              = slice(SubSeq(messages, 1, q - 1), History)
<1>1. messages \in Seq(Row) /\ FirstPage \in Nat /\ Len(messages) \in Nat
  BY ConversationsAssumption, LenProperties DEF ConversationInv, ConversationTypeOK
<1>2. listMessages = messages
  <2>1. (IF Len(messages) < FirstPage THEN Len(messages) ELSE FirstPage) = Len(messages)
    BY <1>1
  <2>. QED
    BY <1>1, <2>1, SubSeqFull DEF listMessages
<1>3. messages # <<>> /\ Last(messages) = messages[q]
  BY <1>1, EmptySeq DEF Last
<1>4. messages[q].role = "USER" /\ messages[q].text = turn[t].text
  BY DEF AsksAt, ConversationInv, TextsOK
<1>5. latestMessageIsCurrentUserInput(messages, turn[t].text)
  BY <1>3, <1>4 DEF latestMessageIsCurrentUserInput
<1>. QED
  BY <1>2, <1>5 DEF previousConversationMessages, Front

LEMMA SliceIsSeq ==
    ASSUME NEW list \in Seq(Row), NEW n \in Nat
    PROVE  slice(list, n) \in Seq(Row)
<1>. DEFINE from == IF Len(list) > n THEN Len(list) - n + 1 ELSE 1
<1>1. Len(list) \in Nat /\ from \in Int /\ from >= 1
  BY LenProperties
<1>2. \A i \in from .. Len(list) : list[i] \in Row
  BY <1>1, ElementOfSeq
<1>3. SubSeq(list, from, Len(list)) \in Seq(Row)
  <2>. HIDE DEF from
  <2>. QED
    BY <1>1, <1>2, SubSeqProperties
<1>. QED
  BY <1>3 DEF slice

(* What the run asks the model with is made of messages. *)
LEMMA PreviousIsSeq ==
    ASSUME ConversationInv, NEW text
    PROVE  previousConversationMessages(listMessages, text) \in Seq(Row)
<1>1. messages \in Seq(Row) /\ {FirstPage, History} \subseteq Nat /\ Len(messages) \in Nat
  BY ConversationsAssumption, LenProperties DEF ConversationInv, ConversationTypeOK
<1>2. listMessages \in Seq(Row)
  <2>. DEFINE n == IF Len(messages) < FirstPage THEN Len(messages) ELSE FirstPage
  <2>1. n \in Int /\ 1 \in Int /\ \A i \in 1 .. n : messages[i] \in Row
    BY <1>1, ElementOfSeq
  <2>2. SubSeq(messages, 1, n) \in Seq(Row)
    <3>. HIDE DEF n
    <3>. QED
      BY <2>1, SubSeqProperties
  <2>. QED
    BY <2>2 DEF listMessages
<1>3. Front(listMessages) \in Seq(Row)
  <2>1. /\ Len(listMessages) \in Nat /\ Len(listMessages) - 1 \in Int /\ 1 \in Int
        /\ \A i \in 1 .. Len(listMessages) - 1 : listMessages[i] \in Row
    BY <1>2, LenProperties, ElementOfSeq
  <2>. QED
    BY <2>1, SubSeqProperties DEF Front
<1>. QED
  BY <1>1, <1>2, <1>3, SliceIsSeq DEF previousConversationMessages

LEMMA GenerateStep ==
    ASSUME ConversationInv, NEW t \in Turns, generateAnswer(t)
    PROVE  ConversationInv'
<1>1. turn[t].at = "executing" /\ turn[t].kind = "run"
  BY DEF generateAnswer, At, ConversationInv, TurnOK, StoredOK
<1>2. PICK q \in DOMAIN messages :
         AsksAt(t, q) /\ \A i \in DOMAIN messages : messages[i].turn = t => i = q
  BY <1>1, PlaceNames DEF ConversationInv, TurnOK, StoredOK
<1>3. (CHOOSE i \in DOMAIN messages : messages[i].turn = t) = q
  BY <1>2 DEF AsksAt
<1>. DEFINE prompt == Append(previousConversationMessages(listMessages, turn[t].text), messages[q])
<1>4. /\ messages' = messages /\ owner' = owner /\ lock' = lock /\ runQueue' = runQueue
      /\ turn' = [turn EXCEPT ![t].at = "generated", ![t].seen = Len(messages),
                            ![t].prompt = prompt]
  BY <1>3 DEF generateAnswer
<1>5. DOMAIN messages = 1 .. Len(messages) /\ Len(messages) \in Nat /\ messages[q] \in Row
  BY LenProperties, ElementOfSeq DEF ConversationInv, ConversationTypeOK
<1>6. prompt \in Seq(Row)
  BY <1>5, PreviousIsSeq, AppendProperties
<1>7. Question(t) = q
  BY <1>2, OneQuestion DEF ConversationInv, ConversationTypeOK, Paired, Question, AsksAt
<1>8. Len(messages) = q /\ q <= FirstPage => prompt = ConversationUpTo(t)
  BY <1>1, <1>2, <1>7, ReadAgain DEF ConversationUpTo
<1>13. PICK n \in Nat : n = IF Len(messages) < FirstPage THEN Len(messages) ELSE FirstPage
  BY <1>5, ConversationsAssumption
<1>14. PICK k \in {n - 1, n} :
          /\ prompt = Append(slice(SubSeq(messages, 1, k), History), messages[q])
          /\ k # n => Repeats(t, n)
  BY <1>13, ReadPage
<1>. HIDE DEF prompt
<1>9. /\ Moved(t) /\ turn'[t].at = "generated"
      /\ turn'[t].prompt = prompt /\ turn'[t].seen = Len(messages)
  <2>1. "generated" \in Places /\ turn \in [Turns -> TurnRow]
    BY PlaceNames DEF ConversationInv, ConversationTypeOK
  <2>. QED
    BY ZenonT(40), <1>4, <1>5, <1>6, <2>1, AnswerMoves
<1>10. QueueOK' /\ runQueue' \in Seq(Turns)
  BY <1>1, <1>4, <1>9, QueueKept
<1>11. owner' \in Agents \cup {Nobody} /\ OwnerOK' /\ lock' \in Turns \cup {Nobody}
  BY <1>4 DEF ConversationInv, ConversationTypeOK, OwnerOK
<1>12. TurnOK(t)'
  <2>1. LockOK(t)'
    BY <1>9, PlaceNames DEF LockOK
  <2>2. StoredOK(t)'
    BY <1>1, <1>4, <1>9, PlaceNames DEF ConversationInv, TurnOK, StoredOK, AsksAt
  <2>3. HistoryOK(t)'
    BY <1>9 DEF HistoryOK
  <2>4. /\ AsksAt(t, q)' /\ ConversationUpTo(t)' = ConversationUpTo(t) /\ Question(t)' = q
    BY <1>2, <1>4, <1>9, MessagesKept, QuestionKept DEF ConversationInv, Moved
  <2>5. PromptOK(t)'
    <3>1. LastRead(t)' = n
      BY <1>9, <1>13 DEF LastRead
    <3>2. k # n => Repeats(t, n)'
      BY <1>4, <1>9, <1>14 DEF Repeats, Moved
    <3>3. AsksWithWhatItRead(t)'
      BY <1>4, <1>9, <1>14, <2>4, <3>1, <3>2 DEF AsksWithWhatItRead
    <3>4. turn'[t].seen <= Len(messages')
      BY <1>4, <1>5, <1>9
    <3>. QED
      BY <1>1, <1>2, <1>4, <1>7, <1>8, <1>9, <2>4, <3>3, <3>4 DEF PromptOK, Moved
  <2>. QED
    BY <2>1, <2>2, <2>3, <2>5 DEF TurnOK
<1>. QED
  BY <1>4, <1>9, <1>10, <1>11, <1>12, StepKeeps

-----------------------------------------------------------------------------
(* The theorems. *)

LEMMA ConversationInitInv == ConversationInit => ConversationInv
<1>. SUFFICES ASSUME ConversationInit
              PROVE  ConversationInv
  OBVIOUS
<1>1. /\ <<>> \in Seq(Row) /\ <<>> \in Seq(Turns) /\ DOMAIN messages = {} /\ DOMAIN runQueue = {}
  BY EmptySeq, LenProperties DEF ConversationInit
<1>2. turn \in [Turns -> TurnRow]
  <2>1. ASSUME NEW t \in Turns
        PROVE  turn[t] \in TurnRow
    <3>1. turn[t] \in [kind : {"chat", "run"}, agent : Agents, text : TurnTexts, at : {"idle"},
                       read : {<<>>}, prompt : {<<>>}, seen : {0}]
      BY DEF ConversationInit
    <3>2. "idle" \in Places /\ 0 \in Nat
      BY PlaceNames
    <3>. QED
      BY <1>1, <3>1, <3>2 DEF TurnRow
  <2>2. DOMAIN turn = Turns /\ turn = [t \in Turns |-> turn[t]]
    BY DEF ConversationInit
  <2>. QED
    BY <2>1, <2>2
<1>3. ConversationTypeOK
  BY <1>1, <1>2 DEF ConversationInit, ConversationTypeOK
<1>4. ASSUME NEW t \in Turns
      PROVE  turn[t].at = "idle" /\ turn[t].prompt = <<>>
  BY DEF ConversationInit
<1>5. \A t \in Turns : TurnOK(t)
  BY <1>1, <1>4, PlaceNames DEF TurnOK, LockOK, StoredOK, HistoryOK, PromptOK
<1>6. OwnerOK /\ QueueOK /\ TextsOK /\ Numbered /\ Paired
  BY <1>1 DEF ConversationInit, OwnerOK, QueueOK, TextsOK, Numbered, Paired, PairedIn
<1>. QED
  BY <1>3, <1>5, <1>6 DEF ConversationInv

LEMMA ConversationStepInv ==
    ConversationInv /\ [ConversationNext]_conversationVars => ConversationInv'
<1>. SUFFICES ASSUME ConversationInv, [ConversationNext]_conversationVars
              PROVE  ConversationInv'
  OBVIOUS
<1>1. CASE TakeRun
  BY <1>1, TakeStep
<1>2. ASSUME NEW t \in Turns, start(t)
      PROVE  ConversationInv'
  BY <1>2, CreateStep, LockStep, ConversationReadStep, AppendStep DEF start
<1>3. ASSUME NEW t \in Turns, complete(t)
      PROVE  ConversationInv'
  BY <1>3, LockStep, ConversationReadStep, AppendStep DEF complete
<1>4. ASSUME NEW t \in Turns, prepare(t) \/ enqueueRun(t) \/ generateAnswer(t) \/ AnswerFails(t)
      PROVE  ConversationInv'
  BY <1>4, PrepareStep, EnqueueStep, GenerateStep, FailStep
<1>5. CASE UNCHANGED conversationVars
  <2>1. /\ messages' = messages /\ owner' = owner /\ lock' = lock
        /\ turn' = turn /\ runQueue' = runQueue
    BY <1>5 DEF conversationVars
  <2>2. ConversationTypeOK' /\ OwnerOK' /\ QueueOK' /\ TextsOK' /\ Numbered' /\ Paired'
    BY <2>1 DEF ConversationInv, ConversationTypeOK, OwnerOK, QueueOK, TextsOK, Numbered, Paired
  <2>3. ASSUME NEW t \in Turns
        PROVE  TurnOK(t)'
    <3>1. Question(t)' = Question(t)
      BY <2>1 DEF Question
    <3>2. ConversationUpTo(t)' = ConversationUpTo(t)
      BY <2>1, <3>1 DEF ConversationUpTo
    <3>3. \A q : AsksAt(t, q)' = AsksAt(t, q)
      BY <2>1 DEF AsksAt
    <3>4. TurnOK(t)
      BY DEF ConversationInv
    <3>5. LockOK(t)' /\ StoredOK(t)'
      BY <2>1, <3>3, <3>4 DEF TurnOK, LockOK, StoredOK
    <3>6. HistoryOK(t)'
      BY <2>1, <3>3, <3>4 DEF TurnOK, HistoryOK
    <3>7. PromptOK(t)'
      <4>1. AsksWithWhatItRead(t)' = AsksWithWhatItRead(t)
        BY <2>1, <3>1 DEF AsksWithWhatItRead, LastRead, Repeats
      <4>. QED
        BY <2>1, <3>1, <3>2, <3>3, <3>4, <4>1 DEF TurnOK, PromptOK
    <3>. QED
      BY <3>5, <3>6, <3>7 DEF TurnOK
  <2>. QED
    BY <2>2, <2>3 DEF ConversationInv
<1>. QED
  BY <1>1, <1>2, <1>3, <1>4, <1>5 DEF ConversationNext

(* The messages, the turns, the row's lock and the queue keep their types. *)
THEOREM ConversationTypeCorrect == ConversationSpec => []ConversationTypeOK
<1>1. ConversationInv => ConversationTypeOK
  BY DEF ConversationInv
<1>. QED
  BY ConversationInitInv, ConversationStepInv, <1>1, PTL DEF ConversationSpec

(* However many turns overlap, messages are numbered in the order they are *)
(* stored, no turn loses its number, and an answer follows its question.   *)
THEOREM MessagesAreOrdered == ConversationSpec => []ConversationIsOrdered
<1>1. ConversationInv => ConversationIsOrdered
  BY DEF ConversationInv, ConversationIsOrdered, Numbered, Paired, PairedIn, TurnOK, StoredOK
<1>. QED
  BY ConversationInitInv, ConversationStepInv, <1>1, PTL DEF ConversationSpec

(* However many turns overlap, the model is asked the question last, after *)
(* one piece of the conversation in order: on the direct path all that came *)
(* before the question, for a run what the first page held when it was      *)
(* answered, a last message that repeats the question left out.            *)
THEOREM PromptsAreConversations == ConversationSpec => []PromptIsConversation
<1>1. ConversationInv => PromptIsConversation
  BY DEF ConversationInv, PromptIsConversation, TurnOK, PromptOK
<1>. QED
  BY ConversationInitInv, ConversationStepInv, <1>1, PTL DEF ConversationSpec

-----------------------------------------------------------------------------
(* The knowledge page's search. *)

Page == [searching : BOOLEAN, shown : Result \cup {Nothing}, failed : BOOLEAN]

Event == [type : {"started"}, query : Nat, results : Seq(Sources)]
           \cup [type : {"delta"}, text : Seq(Words)]
           \cup [type : {"completed"}, answer : Seq(Words)]
           \cup [type : {"error"}]

Call == [at : {"none", "finding", "answering", "ended", "refused", "broken"}, query : Nat,
         found : Seq(Sources), said : Seq({"w", "_"}), sent : Seq(Event)]

KnowledgeTypeOK ==
    /\ page \in Page /\ call \in Call
    /\ searches \in Nat /\ clears \in Nat /\ breaks \in Nat

Over == {"ended", "broken"}

WholeAnswer == answerQuestion(call.found, call.said)

(* A line on its way belongs to this search; only the last one ends it.    *)
EventOK(event) ==
    /\ event.type = "started" => event.query = searches /\ event.results = call.found
    /\ event.type = "completed" => event.answer = WholeAnswer /\ call.at \in Over
    /\ event.type = "error" => call.at \in Over

SentOK ==
    /\ \A i \in DOMAIN call.sent : EventOK(call.sent[i])
    /\ \A i \in DOMAIN call.sent :
          i # Len(call.sent) => call.sent[i].type \in {"started", "delta"}
    /\ call.at = "ended" /\ call.sent # <<>> =>
          call.sent[Len(call.sent)].type \in {"completed", "error"}

(* What is shown is of this search, and its sources are there unless the   *)
(* first line is still on its way or the result was cleared.               *)
ShownOK ==
    page.shown # Nothing =>
       /\ page.shown.query = searches
       /\ page.shown.results \in {call.found, <<>>}
       /\ clears = 0 => \/ page.shown.results = call.found
                        \/ \E i \in DOMAIN call.sent : call.sent[i].type = "started"

SearchOK ==
    /\ call.at # "none" /\ call.query = searches
    /\ call.at \in {"finding", "refused"} => call.found = <<>> /\ call.sent = <<>>
    /\ SentOK /\ ShownOK
    /\ clears = 0 => page.shown # Nothing
    /\ call.at = "ended" /\ call.sent = <<>> /\ ~page.failed /\ page.shown # Nothing
          => page.shown.answer = WholeAnswer

KnowledgeInv ==
    /\ KnowledgeTypeOK
    /\ page.searching => SearchOK
    /\ ~page.searching => call.at \notin {"finding", "answering"} /\ ShownAnswerIsWhole

-----------------------------------------------------------------------------
(* Lemmas about lines. *)

LEMMA More ==
    ASSUME NEW list \in Seq(Event), NEW more \in Seq(Event), more # <<>>
    PROVE  /\ list \o more \in Seq(Event) /\ list \o more # <<>>
           /\ Len(list) \in Nat /\ Len(more) \in Nat \ {0} /\ DOMAIN list = 1 .. Len(list)
           /\ Len(list \o more) = Len(list) + Len(more)
           /\ (list \o more)[Len(list) + Len(more)] = more[Len(more)]
           /\ \A i \in DOMAIN (list \o more) :
                 \/ i \in DOMAIN list /\ i # Len(list) + Len(more) /\ (list \o more)[i] = list[i]
                 \/ /\ i - Len(list) \in DOMAIN more
                    /\ (list \o more)[i] = more[i - Len(list)]
                    /\ i # Len(list) + Len(more) => i - Len(list) # Len(more)
           /\ \A i \in DOMAIN list : i \in DOMAIN (list \o more) /\ (list \o more)[i] = list[i]
<1>1. /\ Len(list) \in Nat /\ Len(more) \in Nat \ {0}
      /\ DOMAIN list = 1 .. Len(list) /\ DOMAIN more = 1 .. Len(more)
  BY LenProperties, EmptySeq
<1>2. /\ list \o more \in Seq(Event)
      /\ Len(list \o more) = Len(list) + Len(more)
      /\ \A i \in 1 .. Len(list) + Len(more) :
            (list \o more)[i] = IF i <= Len(list) THEN list[i] ELSE more[i - Len(list)]
  BY ConcatProperties
<1>3. DOMAIN (list \o more) = 1 .. Len(list) + Len(more)
  BY <1>2, LenProperties
<1>4. list \o more # <<>>
  <2>1. Len(list \o more) # 0
    BY <1>1, <1>2
  <2>. QED
    BY <1>2, <2>1, EmptySeq
<1>5. /\ (list \o more)[Len(list) + Len(more)] = more[Len(more)]
      /\ \A i \in DOMAIN list : i \in DOMAIN (list \o more) /\ (list \o more)[i] = list[i]
  BY <1>1, <1>2, <1>3
<1>6. ASSUME NEW i \in DOMAIN (list \o more)
      PROVE  \/ i \in DOMAIN list /\ i # Len(list) + Len(more) /\ (list \o more)[i] = list[i]
             \/ /\ i - Len(list) \in DOMAIN more
                /\ (list \o more)[i] = more[i - Len(list)]
                /\ i # Len(list) + Len(more) => i - Len(list) # Len(more)
  <2>1. CASE i <= Len(list)
    BY <1>1, <1>2, <1>3, <2>1
  <2>2. CASE ~(i <= Len(list))
    <3>1. i \in 1 .. Len(list) + Len(more) /\ i - Len(list) \in 1 .. Len(more)
      BY <1>1, <1>3, <2>2
    <3>2. i # Len(list) + Len(more) => i - Len(list) # Len(more)
      BY <1>1, <3>1
    <3>. QED
      BY <1>1, <1>2, <2>2, <3>1, <3>2
  <2>. QED
    BY <2>1, <2>2
<1>. QED
  BY <1>1, <1>2, <1>4, <1>5, <1>6

LEMMA Read ==
    ASSUME NEW list \in Seq(Event), list # <<>>
    PROVE  /\ Len(list) \in Nat \ {0} /\ DOMAIN list = 1 .. Len(list)
           /\ Head(list) = list[1] /\ Head(list) \in Event /\ 1 \in DOMAIN list
           /\ Tail(list) \in Seq(Event) /\ Len(Tail(list)) = Len(list) - 1
           /\ DOMAIN Tail(list) = 1 .. Len(list) - 1
           /\ \A i \in DOMAIN Tail(list) : i + 1 \in DOMAIN list /\ Tail(list)[i] = list[i + 1]
           /\ Len(list) = 1 => Tail(list) = <<>>
<1>1. Len(list) \in Nat \ {0} /\ DOMAIN list = 1 .. Len(list)
  BY LenProperties, EmptySeq
<1>2. /\ Head(list) = list[1] /\ Head(list) \in Event
      /\ Tail(list) \in Seq(Event) /\ Len(Tail(list)) = Len(list) - 1
      /\ \A i \in 1 .. Len(Tail(list)) : Tail(list)[i] = list[i + 1]
  BY HeadTailProperties
<1>3. DOMAIN Tail(list) = 1 .. Len(list) - 1
  BY <1>2, LenProperties
<1>4. Len(list) = 1 => Tail(list) = <<>>
  <2>1. Len(list) = 1 => Len(Tail(list)) = 0
    BY <1>2
  <2>. QED
    BY <1>2, <2>1, EmptySeq
<1>. QED
  BY <1>1, <1>2, <1>3, <1>4

(* The first and the last of some positions. *)
LEMMA Least ==
    ASSUME NEW some \in SUBSET Nat, some # {}
    PROVE  \E i \in some : \A j \in some : i <= j
<1>. DEFINE initial == {0 .. i : i \in some}
            order == StrictSubsetOrdering(Nat)
            finite == FiniteSubsetsOf(Nat)
<1>1. initial \subseteq finite /\ initial # {}
  <2>1. \A i \in some : IsFiniteSet(0 .. i) /\ 0 .. i \in SUBSET Nat
    BY FS_Interval
  <2>. QED
    BY <2>1 DEF FiniteSubsetsOf
<1>2. IsWellFoundedOn(order, finite)
  BY FS_StrictSubsetOrderingWellFounded
<1>3. PICK x \in initial : \A y \in initial : ~(<<y, x>> \in order)
  <2>. HIDE DEF order, finite, initial
  <2>. QED
    BY <1>1, <1>2, WFMin
<1>4. PICK i \in some : x = 0 .. i
  OBVIOUS
<1>5. ASSUME NEW j \in some, j < i
      PROVE  FALSE
  <2>1. (0 .. j) \subseteq (0 .. i) /\ i \in 0 .. i /\ i \notin 0 .. j
    BY <1>5
  <2>2. <<0 .. j, x>> \in order
    BY <1>4, <2>1 DEF StrictSubsetOrdering
  <2>. QED
    BY <1>3, <2>2
<1>. QED
  BY <1>5

LEMMA Ends ==
    ASSUME NEW n \in Nat, NEW some \in SUBSET (1 .. n), some # {}
    PROVE  /\ \E i \in some : \A j \in some : i <= j
           /\ \E i \in some : \A j \in some : j <= i
<1>1. \E i \in some : \A j \in some : i <= j
  <2>1. some \in SUBSET Nat
    OBVIOUS
  <2>. QED
    BY <2>1, Least
<1>2. \E i \in some : \A j \in some : j <= i
  <2>. DEFINE mirror == {n - i : i \in some}
  <2>1. mirror \in SUBSET Nat /\ mirror # {}
    <3>1. \A i \in some : n - i \in Nat
      OBVIOUS
    <3>. QED
      BY <3>1
  <2>2. PICK k \in mirror : \A m \in mirror : k <= m
    <3>. HIDE DEF mirror
    <3>. QED
      BY <2>1, Least
  <2>3. PICK i \in some : k = n - i
    OBVIOUS
  <2>4. \A j \in some : n - i <= n - j
    BY <2>2, <2>3
  <2>. QED
    BY <2>4
<1>. QED
  BY <1>1, <1>2

LEMMA Within ==
    ASSUME NEW n \in Nat, NEW from \in 1 .. n, NEW to \in 1 .. n
    PROVE  from \in Int /\ to \in Int /\ \A i \in from .. to : i \in 1 .. n
OBVIOUS

LEMMA Texts ==
    /\ NoContext \in Seq(Words) /\ EmptyAnswer \in Seq(Words) /\ <<>> \in Seq(Words)
    /\ \A said \in Seq({"w", "_"}) : trimmed(said) \in Seq(Words)
<1>1. /\ "no context" \in Words /\ "empty answer" \in Words
      /\ {"w", "_"} \subseteq Words
  BY DEF Words
<1>. HIDE DEF Words
<1>2. NoContext \in Seq(Words) /\ EmptyAnswer \in Seq(Words) /\ <<>> \in Seq(Words)
  <2>1. \A word \in Words : <<word>> \in Seq(Words)
    OBVIOUS
  <2>2. <<"no context">> \in Seq(Words) /\ <<"empty answer">> \in Seq(Words)
    BY <1>1, <2>1, Zenon
  <2>. QED
    BY <2>2, EmptySeq DEF NoContext, EmptyAnswer
<1>3. ASSUME NEW said \in Seq({"w", "_"})
      PROVE  trimmed(said) \in Seq(Words)
  <2>. DEFINE words == {i \in DOMAIN said : said[i] # "_"}
              First == CHOOSE i \in words : \A j \in words : i <= j
              Final == CHOOSE i \in words : \A j \in words : j <= i
  <2>1. /\ Len(said) \in Nat /\ words \in SUBSET (1 .. Len(said))
        /\ \A i \in 1 .. Len(said) : said[i] \in Words
    <3>1. DOMAIN said = 1 .. Len(said) /\ Len(said) \in Nat
      BY LenProperties
    <3>2. \A i \in 1 .. Len(said) : said[i] \in {"w", "_"}
      BY ElementOfSeq
    <3>. QED
      BY <1>1, <3>1, <3>2
  <2>2. CASE words = {}
    BY <1>2, <2>2 DEF trimmed
  <2>3. CASE words # {}
    <3>1. First \in words /\ Final \in words
      BY <2>1, <2>3, Ends
    <3>2. /\ First \in Int /\ Final \in Int
          /\ \A i \in First .. Final : i \in 1 .. Len(said)
      <4>. HIDE DEF words, First, Final
      <4>1. First \in 1 .. Len(said) /\ Final \in 1 .. Len(said)
        BY <2>1, <3>1, Zenon
      <4>. QED
        BY <2>1, <4>1, Within
    <3>3. SubSeq(said, First, Final) \in Seq(Words)
      <4>. HIDE DEF First, Final
      <4>. QED
        BY <2>1, <3>2, SubSeqProperties
    <3>. QED
      BY <2>3, <3>3 DEF trimmed
  <2>. QED
    BY <2>2, <2>3
<1>. QED
  BY <1>2, <1>3

-----------------------------------------------------------------------------
(* Each step. *)

LEMMA One ==
    ASSUME NEW S, NEW e \in S
    PROVE  <<e>> \in Seq(S)
OBVIOUS

LEMMA Lines ==
    /\ \A query \in Nat, results \in Seq(Sources) :
          /\ started(query, results) \in Event /\ started(query, results).type = "started"
          /\ started(query, results).query = query /\ started(query, results).results = results
    /\ \A text \in Seq(Words) : delta(text) \in Event /\ delta(text).type = "delta"
    /\ \A text \in Seq(Words) :
          /\ completed(text) \in Event /\ completed(text).type = "completed"
          /\ completed(text).answer = text
    /\ error \in Event /\ error.type = "error"
<1>1. ASSUME NEW query \in Nat, NEW results \in Seq(Sources)
      PROVE  /\ started(query, results) \in [type : {"started"}, query : Nat, results : Seq(Sources)]
             /\ started(query, results).type = "started"
             /\ started(query, results).query = query /\ started(query, results).results = results
  BY DEF started
<1>2. ASSUME NEW text \in Seq(Words)
      PROVE  delta(text) \in [type : {"delta"}, text : Seq(Words)] /\ delta(text).type = "delta"
  BY DEF delta
<1>3. ASSUME NEW text \in Seq(Words)
      PROVE  /\ completed(text) \in [type : {"completed"}, answer : Seq(Words)]
             /\ completed(text).type = "completed" /\ completed(text).answer = text
  BY DEF completed
<1>4. error \in [type : {"error"}] /\ error.type = "error"
  BY DEF error
<1>5. /\ [type : {"started"}, query : Nat, results : Seq(Sources)] \subseteq Event
      /\ [type : {"delta"}, text : Seq(Words)] \subseteq Event
      /\ [type : {"completed"}, answer : Seq(Words)] \subseteq Event
      /\ [type : {"error"}] \subseteq Event
  BY Zenon DEF Event
<1>. QED
  BY <1>1, <1>2, <1>3, <1>4, <1>5

(* A request under way is waited for. *)
LEMMA WaitedFor ==
    ASSUME KnowledgeInv, call.at \in {"finding", "answering"}
    PROVE  page.searching /\ SearchOK
BY DEF KnowledgeInv, KnowledgeTypeOK, Page

(* The API sends some lines more of the answer.                            *)
LEMMA AnswerStep ==
    ASSUME KnowledgeInv, call.at = "answering", NEW more \in Seq(Event), more # <<>>,
           call' \in Call, call'.query = call.query, call'.found = call.found,
           call'.sent = call.sent \o more,
           \/ call'.at = "answering"
           \/ call'.at = "ended" /\ more[Len(more)].type \in {"completed", "error"},
           \A i \in DOMAIN more : EventOK(more[i])',
           \A i \in DOMAIN more : i # Len(more) \/ call'.at = "answering"
                                    => more[i].type \in {"started", "delta"},
           page' = page, searches' = searches, clears' = clears, breaks' \in Nat
    PROVE  KnowledgeInv'
<1>1. page.searching /\ SearchOK /\ KnowledgeTypeOK
  BY WaitedFor DEF KnowledgeInv
<1>2. /\ call.sent \in Seq(Event) /\ call'.sent # <<>>
      /\ Len(call'.sent) = Len(call.sent) + Len(more)
      /\ call'.sent[Len(call'.sent)] = more[Len(more)]
      /\ \A i \in DOMAIN call'.sent :
            \/ i \in DOMAIN call.sent /\ i # Len(call'.sent) /\ call'.sent[i] = call.sent[i]
            \/ /\ i - Len(call.sent) \in DOMAIN more
               /\ call'.sent[i] = more[i - Len(call.sent)]
               /\ i # Len(call'.sent) => i - Len(call.sent) # Len(more)
      /\ \A i \in DOMAIN call.sent : i \in DOMAIN call'.sent /\ call'.sent[i] = call.sent[i]
  <2>1. call.sent \in Seq(Event)
    BY <1>1 DEF KnowledgeTypeOK, Call
  <2>. QED
    BY <2>1, More
<1>3. \A i \in DOMAIN call.sent :
         /\ call.sent[i].type # "completed" /\ call.sent[i].type # "error"
         /\ EventOK(call.sent[i])
  BY <1>1 DEF SearchOK, SentOK, EventOK, Over
<1>4. \A i \in DOMAIN call.sent : call.sent[i].type \in {"started", "delta"}
  <2>1. \A i \in DOMAIN call.sent : call.sent[i] \in Event
    BY <1>2, LenProperties, ElementOfSeq
  <2>. QED
    BY <1>3, <2>1 DEF Event
<1>5. ASSUME NEW event, EventOK(event), event.type # "completed", event.type # "error"
      PROVE  EventOK(event)'
  BY <1>5 DEF EventOK
<1>6. SentOK'
  <2>1. ASSUME NEW i \in DOMAIN call'.sent
        PROVE  \E event : event = call'.sent[i] /\ EventOK(event)'
    <3>1. CASE i \in DOMAIN call.sent /\ call'.sent[i] = call.sent[i]
      BY <1>3, <1>5, <3>1
    <3>2. CASE i - Len(call.sent) \in DOMAIN more /\ call'.sent[i] = more[i - Len(call.sent)]
      BY <3>2
    <3>. QED
      BY <1>2, <3>1, <3>2
  <2>2. \A i \in DOMAIN call'.sent :
           i # Len(call'.sent) => call'.sent[i].type \in {"started", "delta"}
    BY <1>2, <1>4
  <2>3. call'.at = "ended" => call'.sent[Len(call'.sent)].type \in {"completed", "error"}
    BY <1>2
  <2>. QED
    BY <2>1, <2>2, <2>3 DEF SentOK
<1>7. ShownOK'
  BY <1>1, <1>2 DEF SearchOK, ShownOK
<1>8. SearchOK'
  BY <1>1, <1>2, <1>6, <1>7 DEF SearchOK
<1>. QED
  BY <1>1, <1>8 DEF KnowledgeInv, KnowledgeTypeOK

LEMMA FindStep ==
    ASSUME KnowledgeInv, prepareSearchStream
    PROVE  KnowledgeInv'
<1>1. page.searching /\ SearchOK /\ KnowledgeTypeOK /\ call.at = "finding" /\ call.sent = <<>>
  BY WaitedFor DEF prepareSearchStream, KnowledgeInv, SearchOK
<1>0. PICK n \in 0 .. Cardinality(Sources) : \E results \in [1 .. n -> Sources] :
         /\ call' = [call EXCEPT !.at = "answering", !.found = results,
                                 !.sent = Sends(started(call.query, results))]
         /\ page' = page /\ searches' = searches /\ clears' = clears /\ breaks' = breaks
  BY DEF prepareSearchStream
<1>2. PICK results \in [1 .. n -> Sources] :
         /\ call' = [call EXCEPT !.at = "answering", !.found = results,
                                 !.sent = Sends(started(call.query, results))]
         /\ page' = page /\ searches' = searches /\ clears' = clears /\ breaks' = breaks
  BY <1>0
<1>3. results \in Seq(Sources)
  <2>1. n \in Nat
    OBVIOUS
  <2>. QED
    BY <2>1
<1>4. PICK event \in Event :
         /\ event = started(call.query, results)
         /\ event.type = "started" /\ event.query = call.query /\ event.results = results
  <2>1. call.query \in Nat
    BY <1>1 DEF KnowledgeTypeOK, Call
  <2>. QED
    BY <1>3, <2>1, Lines
<1>5. Sends(event) = <<event>>
  BY <1>1, <1>4 DEF Sends
<1>6. /\ call' \in Call /\ call'.at = "answering" /\ call'.found = results
      /\ call'.query = call.query /\ call'.sent = <<event>>
  <2>1. <<event>> \in Seq(Event)
    BY <1>4
  <2>2. call' = [call EXCEPT !.at = "answering", !.found = results, !.sent = <<event>>]
    BY <1>2, <1>4, <1>5
  <2>. QED
    BY <1>1, <1>3, <2>1, <2>2 DEF KnowledgeTypeOK, Call
<1>7. DOMAIN call'.sent = {1} /\ Len(call'.sent) = 1 /\ call'.sent[1] = event
  BY <1>6
<1>8. SentOK'
  <2>1. EventOK(event)'
    BY <1>1, <1>2, <1>4, <1>6 DEF EventOK, SearchOK
  <2>. QED
    BY <1>6, <1>7, <2>1 DEF SentOK
<1>9. ShownOK'
  BY <1>1, <1>2, <1>4, <1>7 DEF SearchOK, ShownOK
<1>10. SearchOK'
  BY <1>1, <1>2, <1>6, <1>8, <1>9 DEF SearchOK
<1>. QED
  BY <1>1, <1>2, <1>6, <1>10 DEF KnowledgeInv, KnowledgeTypeOK

LEMMA NoContextStep ==
    ASSUME KnowledgeInv, AnswerWithoutContext
    PROVE  KnowledgeInv'
<1>. DEFINE more == <<delta(NoContext), completed(NoContext)>>
<1>1. /\ call.at = "answering" /\ call.found = <<>> /\ call \in Call /\ breaks \in Nat
      /\ call' = [call EXCEPT !.at = "ended", !.sent = call.sent \o more]
      /\ page' = page /\ searches' = searches /\ clears' = clears /\ breaks' = breaks
  BY DEF AnswerWithoutContext, KnowledgeInv, KnowledgeTypeOK, Call
<1>2. /\ delta(NoContext) \in Event /\ completed(NoContext) \in Event
      /\ delta(NoContext).type = "delta" /\ completed(NoContext).type = "completed"
      /\ completed(NoContext).answer = NoContext
  BY Texts, Lines
<1>3. /\ more \in Seq(Event) /\ more # <<>> /\ Len(more) = 2 /\ DOMAIN more = 1 .. 2
      /\ more[1] = delta(NoContext) /\ more[2] = completed(NoContext)
  BY <1>2
<1>. HIDE DEF more
<1>4. call.sent \o more \in Seq(Event)
  BY <1>1, <1>3, More DEF Call
<1>5. /\ call' \in Call /\ call'.at = "ended" /\ call'.found = <<>> /\ call'.query = call.query
      /\ call'.sent = call.sent \o more
  BY <1>1, <1>4 DEF Call
<1>6. EventOK(more[1])' /\ EventOK(more[2])'
  BY <1>2, <1>3, <1>5 DEF EventOK, WholeAnswer, answerQuestion, Over
<1>7. \A i \in DOMAIN more : i = 1 \/ i = 2
  BY <1>3
<1>. QED
  BY <1>1, <1>2, <1>3, <1>5, <1>6, <1>7, AnswerStep

(* One line more. *)
LEMMA LineStep ==
    ASSUME KnowledgeInv, call.at = "answering", NEW event \in Event,
           call' \in Call, call'.query = call.query, call'.found = call.found,
           call'.sent = Sends(event),
           \/ call'.at = "answering" /\ event.type = "delta"
           \/ call'.at = "ended" /\ event.type \in {"completed", "error"},
           EventOK(event)',
           page' = page, searches' = searches, clears' = clears, breaks' \in Nat
    PROVE  KnowledgeInv'
<1>. DEFINE more == <<event>>
<1>1. /\ more \in Seq(Event) /\ more # <<>> /\ Len(more) = 1 /\ more[1] = event
      /\ \A i \in DOMAIN more : i = 1
  OBVIOUS
<1>. HIDE DEF more
<1>2. call'.sent = call.sent \o more
  BY DEF Sends, more
<1>. QED
  BY <1>1, <1>2, AnswerStep

LEMMA DeltaStep ==
    ASSUME KnowledgeInv, AnswerDelta
    PROVE  KnowledgeInv'
<1>1. PICK text \in {"w", "_"} :
         /\ call' = [call EXCEPT !.said = Append(call.said, text), !.sent = Sends(delta(<<text>>))]
         /\ call.at = "answering" /\ call \in Call /\ breaks \in Nat
         /\ page' = page /\ searches' = searches /\ clears' = clears /\ breaks' = breaks
  BY DEF AnswerDelta, KnowledgeInv, KnowledgeTypeOK, Call
<1>2. PICK event \in Event : event = delta(<<text>>) /\ event.type = "delta"
  <2>1. text \in Words
    BY DEF Words
  <2>2. <<text>> \in Seq(Words)
    BY <2>1, One
  <2>. QED
    BY <2>2, Lines
<1>3. Sends(event) \in Seq(Event) /\ Append(call.said, text) \in Seq({"w", "_"})
  <2>1. <<event>> \in Seq(Event)
    BY One
  <2>2. call.sent \in Seq(Event)
    BY <1>1 DEF Call
  <2>. QED
    BY <1>1, <2>1, <2>2, ConcatProperties, AppendProperties DEF Sends, Call
<1>4. /\ call' \in Call /\ call'.at = "answering" /\ call'.found = call.found
      /\ call'.query = call.query /\ call'.sent = Sends(event)
  <2>1. call' = [call EXCEPT !.said = Append(call.said, text), !.sent = Sends(event)]
    BY <1>1, <1>2
  <2>. QED
    BY <1>1, <1>3, <2>1 DEF Call
<1>. QED
  BY <1>1, <1>2, <1>4, LineStep DEF EventOK

LEMMA CompletedStep ==
    ASSUME KnowledgeInv, AnswerCompleted
    PROVE  KnowledgeInv'
<1>1. /\ call' = [call EXCEPT !.at = "ended", !.sent = Sends(finalAnswer(call.said))]
      /\ call.at = "answering" /\ call.found # <<>> /\ call \in Call /\ breaks \in Nat
      /\ page' = page /\ searches' = searches /\ clears' = clears /\ breaks' = breaks
  BY DEF AnswerCompleted, KnowledgeInv, KnowledgeTypeOK, Call
<1>2. PICK event \in Event : event = finalAnswer(call.said) /\ event.type = "completed"
  <2>1. trimmed(call.said) \in Seq(Words) /\ EmptyAnswer \in Seq(Words)
    BY <1>1, Texts DEF Call
  <2>. QED
    BY <2>1, Lines DEF finalAnswer
<1>3. event.answer = answerQuestion(call.found, call.said)
  BY <1>1, <1>2 DEF answerQuestion
<1>4. /\ call' \in Call /\ call'.at = "ended" /\ call'.found = call.found
      /\ call'.said = call.said /\ call'.query = call.query /\ call'.sent = Sends(event)
  <2>1. <<event>> \in Seq(Event)
    BY One
  <2>2. call.sent \in Seq(Event)
    BY <1>1 DEF Call
  <2>3. Sends(event) \in Seq(Event)
    BY <2>1, <2>2, ConcatProperties DEF Sends
  <2>. QED
    BY <1>1, <1>2, <2>3 DEF Call
<1>5. EventOK(event)'
  BY <1>2, <1>3, <1>4 DEF EventOK, WholeAnswer, Over
<1>. QED
  BY <1>1, <1>2, <1>4, <1>5, LineStep

LEMMA ThrowsStep ==
    ASSUME KnowledgeInv, AnswerThrows
    PROVE  KnowledgeInv'
<1>1. /\ call' = [call EXCEPT !.at = "ended", !.sent = Sends(error)]
      /\ call.at = "answering" /\ call \in Call /\ breaks' \in Nat
      /\ page' = page /\ searches' = searches /\ clears' = clears
  BY DEF AnswerThrows, KnowledgeInv, KnowledgeTypeOK
<1>2. error \in Event /\ error.type = "error"
  BY Lines
<1>3. /\ call' \in Call /\ call'.at = "ended" /\ call'.found = call.found
      /\ call'.query = call.query /\ call'.sent = Sends(error)
  <2>1. <<error>> \in Seq(Event)
    BY <1>2, One
  <2>2. call.sent \in Seq(Event)
    BY <1>1 DEF Call
  <2>3. Sends(error) \in Seq(Event)
    BY <2>1, <2>2, ConcatProperties DEF Sends
  <2>. QED
    BY <1>1, <2>3 DEF Call
<1>4. EventOK(error)'
  BY <1>2, <1>3 DEF EventOK, Over
<1>. QED
  BY <1>1, <1>2, <1>3, <1>4, LineStep

(* The API or the connection fails; what was found and said stays.         *)
LEMMA BreakStep ==
    ASSUME KnowledgeInv, FindFails \/ ConnectionBreaks
    PROVE  KnowledgeInv'
<1>1. PICK at \in {"refused", "broken"} : call' = [call EXCEPT !.at = at]
  BY DEF FindFails, ConnectionBreaks
<1>2. /\ page' = page /\ searches' = searches /\ clears' = clears /\ breaks' \in Nat
      /\ call \in Call /\ KnowledgeTypeOK
      /\ at = "refused" => call.at = "finding"
      /\ call.at # "none"
  <2>1. at = "refused" => call.at = "finding"
    <3>1. CASE FindFails
      BY <3>1 DEF FindFails
    <3>2. CASE ConnectionBreaks
      BY <1>1, <3>2 DEF ConnectionBreaks, KnowledgeInv, KnowledgeTypeOK, Call
    <3>. QED
      BY <3>1, <3>2
  <2>. QED
    BY <2>1 DEF FindFails, ConnectionBreaks, KnowledgeInv, KnowledgeTypeOK
<1>3. /\ call' \in Call /\ call'.at = at /\ call'.query = call.query
      /\ call'.found = call.found /\ call'.said = call.said /\ call'.sent = call.sent
  BY <1>1, <1>2 DEF Call
<1>4. ASSUME page.searching
      PROVE  SearchOK'
  <2>1. SearchOK
    BY <1>4 DEF KnowledgeInv
  <2>2. ASSUME NEW event, EventOK(event)
        PROVE  at = "broken" => EventOK(event)'
    BY <1>2, <1>3, <2>2 DEF EventOK, WholeAnswer, Over
  <2>3. SentOK'
    <3>1. CASE at = "broken"
      <4>1. ASSUME NEW i \in DOMAIN call'.sent
            PROVE  \E event : event = call'.sent[i] /\ EventOK(event)'
        BY <1>3, <2>1, <2>2, <3>1 DEF SearchOK, SentOK
      <4>. QED
        BY <1>3, <2>1, <3>1, <4>1 DEF SearchOK, SentOK
    <3>2. CASE at = "refused"
      <4>1. call.sent = <<>>
        BY <1>2, <2>1, <3>2 DEF SearchOK
      <4>2. DOMAIN call'.sent = {}
        BY <1>3, <4>1
      <4>. QED
        BY <1>3, <3>2, <4>2 DEF SentOK
    <3>. QED
      BY <3>1, <3>2
  <2>4. ShownOK'
    BY <1>2, <1>3, <2>1 DEF SearchOK, ShownOK
  <2>. QED
    BY <1>2, <1>3, <2>1, <2>3, <2>4 DEF SearchOK
<1>5. ASSUME ~page.searching
      PROVE  ShownAnswerIsWhole'
  BY <1>2, <1>3, <1>5 DEF KnowledgeInv, ShownAnswerIsWhole
<1>. QED
  BY <1>2, <1>3, <1>4, <1>5 DEF KnowledgeInv, KnowledgeTypeOK

(* A result with another answer is a result with the same query and sources. *)
LEMMA Answered ==
    ASSUME NEW result \in Result, NEW answer \in Seq(Words)
    PROVE  /\ [result EXCEPT !.answer = answer] \in Result
           /\ [result EXCEPT !.answer = answer].query = result.query
           /\ [result EXCEPT !.answer = answer].results = result.results
           /\ [result EXCEPT !.answer = answer].answer = answer
BY DEF Result

(* A request of the page that has just been made. *)
LEMMA Asked ==
    ASSUME NEW query \in Nat
    PROVE  LET asked == [NoCall EXCEPT !.at = "finding", !.query = query]
           IN /\ asked \in Call /\ asked.at = "finding" /\ asked.query = query
              /\ asked.found = <<>> /\ asked.sent = <<>> /\ DOMAIN asked.sent = {}
<1>1. NoCall \in Call /\ NoCall.found = <<>> /\ NoCall.sent = <<>>
  BY EmptySeq DEF NoCall, Call
<1>2. PICK none \in Call : none = NoCall /\ none.found = <<>> /\ none.sent = <<>>
  BY <1>1
<1>3. PICK asked \in Call :
         /\ asked = [none EXCEPT !.at = "finding", !.query = query]
         /\ asked.at = "finding" /\ asked.query = query
         /\ asked.found = none.found /\ asked.sent = none.sent
  <2>1. [none EXCEPT !.at = "finding", !.query = query] \in Call
    BY DEF Call
  <2>2. \A asked : asked = [none EXCEPT !.at = "finding", !.query = query]
          => /\ asked.at = "finding" /\ asked.query = query
             /\ asked.found = none.found /\ asked.sent = none.sent
    BY DEF Call
  <2>. QED
    BY <2>1, <2>2
<1>4. DOMAIN <<>> = {}
  OBVIOUS
<1>. QED
  BY <1>2, <1>3, <1>4

LEMMA Predecessor ==
    ASSUME NEW n \in Nat \ {0}
    PROVE  (n # 1 => n - 1 \in 1 .. n - 1) /\ n - 1 + 1 = n
OBVIOUS

LEMMA SearchStep ==
    ASSUME KnowledgeInv, runSearch
    PROVE  KnowledgeInv'
<1>1. /\ searches' = searches + 1 /\ searches' \in Nat
      /\ page' = [searching |-> TRUE, failed |-> FALSE,
                  shown |-> [query |-> searches', answer |-> <<>>, results |-> <<>>]]
      /\ call' = [NoCall EXCEPT !.at = "finding", !.query = searches']
      /\ clears' = clears /\ breaks' = breaks
  <2>1. searches \in Nat
    BY DEF KnowledgeInv, KnowledgeTypeOK
  <2>. QED
    BY <2>1 DEF runSearch
<1>2. /\ page'.searching = TRUE /\ page'.shown.query = searches'
      /\ page'.shown.results = <<>> /\ page'.shown # Nothing /\ page' \in Page
  <2>1. [query |-> searches', answer |-> <<>>, results |-> <<>>] \in Result
    BY <1>1, EmptySeq DEF Result
  <2>. QED
    BY <1>1, <2>1, NothingAssumption DEF Page
<1>3. /\ call' \in Call /\ call'.at = "finding" /\ call'.query = searches'
      /\ call'.found = <<>> /\ call'.sent = <<>> /\ DOMAIN call'.sent = {}
  <2>1. PICK query \in Nat : query = searches'
    BY <1>1
  <2>2. call' = [NoCall EXCEPT !.at = "finding", !.query = query]
    BY <1>1, <2>1
  <2>. QED
    BY <2>1, <2>2, Asked
<1>4. SentOK' /\ ShownOK'
  BY <1>2, <1>3 DEF SentOK, ShownOK
<1>5. SearchOK'
  BY <1>2, <1>3, <1>4 DEF SearchOK
<1>. QED
  BY <1>1, <1>2, <1>3, <1>5 DEF KnowledgeInv, KnowledgeTypeOK

(* The result the next line of an answer goes to. *)
LEMMA CurrentIs ==
    ASSUME KnowledgeTypeOK, ShownOK
    PROVE  /\ Current \in Result /\ Current.query = searches
           /\ Current.results \in {call.found, <<>>}
           /\ page.shown # Nothing => Current = page.shown
<1>1. CASE page.shown = Nothing
  BY <1>1, EmptySeq DEF Current, Result, KnowledgeTypeOK
<1>2. CASE page.shown # Nothing
  BY <1>2 DEF Current, KnowledgeTypeOK, Page, ShownOK
<1>. QED
  BY <1>1, <1>2

LEMMA KnowledgeReadStep ==
    ASSUME KnowledgeInv, ReadEvent
    PROVE  KnowledgeInv'
<1>. DEFINE event == Head(call.sent)
<1>1. /\ page.searching /\ SearchOK /\ KnowledgeTypeOK /\ call.sent # <<>> /\ call \in Call
      /\ page' = onEvent(event) /\ call' = [call EXCEPT !.sent = Tail(call.sent)]
      /\ searches' = searches /\ clears' = clears /\ breaks' = breaks
  BY DEF ReadEvent, KnowledgeInv, KnowledgeTypeOK, Call
<1>2. /\ Len(call.sent) \in Nat \ {0} /\ DOMAIN call.sent = 1 .. Len(call.sent)
      /\ event = call.sent[1] /\ event \in Event /\ 1 \in DOMAIN call.sent
      /\ Tail(call.sent) \in Seq(Event) /\ Len(Tail(call.sent)) = Len(call.sent) - 1
      /\ DOMAIN Tail(call.sent) = 1 .. Len(call.sent) - 1
      /\ \A i \in DOMAIN Tail(call.sent) :
            i + 1 \in DOMAIN call.sent /\ Tail(call.sent)[i] = call.sent[i + 1]
      /\ Len(call.sent) = 1 => Tail(call.sent) = <<>>
  <2>1. call.sent \in Seq(Event)
    BY <1>1 DEF Call
  <2>. QED
    BY <1>1, <2>1, Read
<1>3. /\ call' \in Call /\ call'.at = call.at /\ call'.query = call.query
      /\ call'.found = call.found /\ call'.said = call.said /\ call'.sent = Tail(call.sent)
  BY <1>1, <1>2 DEF Call
<1>4. EventOK(event) /\ (Len(call.sent) # 1 => event.type \in {"started", "delta"})
  BY <1>1, <1>2 DEF SearchOK, SentOK
<1>. HIDE DEF event
<1>5. SentOK'
  <2>1. ASSUME NEW e, EventOK(e)
        PROVE  EventOK(e)'
    BY <1>1, <1>3, <2>1 DEF EventOK, WholeAnswer
  <2>2. ASSUME NEW i \in DOMAIN call'.sent
        PROVE  \E e : e = call'.sent[i] /\ EventOK(e)'
    BY <1>1, <1>2, <1>3, <2>1 DEF SearchOK, SentOK
  <2>3. \A i \in DOMAIN call'.sent :
           i # Len(call'.sent) => call'.sent[i].type \in {"started", "delta"}
    <3>1. ASSUME NEW i \in DOMAIN call'.sent, i # Len(call'.sent)
          PROVE  i + 1 # Len(call.sent) /\ i + 1 \in DOMAIN call.sent
      BY <1>2, <1>3, <3>1
    <3>. QED
      BY <1>1, <1>2, <1>3, <3>1 DEF SearchOK, SentOK
  <2>4. call'.sent # <<>> =>
           /\ Len(call.sent) - 1 \in DOMAIN call'.sent
           /\ call'.sent[Len(call'.sent)] = call.sent[Len(call.sent)]
    <3>1. call'.sent # <<>> => Len(call.sent) # 1
      BY <1>2, <1>3
    <3>2. /\ Len(call.sent) # 1 => Len(call.sent) - 1 \in 1 .. Len(call.sent) - 1
          /\ Len(call.sent) - 1 + 1 = Len(call.sent)
      <4>1. Len(call.sent) \in Nat \ {0}
        BY <1>2
      <4>. QED
        BY <4>1, Predecessor
    <3>. QED
      BY <1>2, <1>3, <3>1, <3>2
  <2>. QED
    BY <1>1, <1>3, <2>2, <2>3, <2>4 DEF SearchOK, SentOK
<1>6. /\ Current \in Result /\ Current.query = searches
      /\ Current.results \in {call.found, <<>>}
      /\ page.shown # Nothing => Current = page.shown
  BY <1>1, CurrentIs DEF SearchOK
<1>7. \A i \in DOMAIN call.sent :
         call.sent[i].type = "started" =>
            event.type = "started" \/ \E j \in DOMAIN call'.sent : call'.sent[j].type = "started"
  <2>1. ASSUME NEW i \in DOMAIN call.sent, call.sent[i].type = "started", i # 1
        PROVE  i - 1 \in DOMAIN call'.sent /\ call'.sent[i - 1].type = "started"
    <3>1. i - 1 \in 1 .. Len(call.sent) - 1 /\ i - 1 + 1 = i
      BY <1>2, <2>1
    <3>. QED
      BY <1>2, <1>3, <2>1, <3>1
  <2>. QED
    BY <1>2, <2>1
<1>8. CASE event.type = "started"
  <2>1. /\ page' = [page EXCEPT !.shown = [query |-> event.query, answer |-> <<>>,
                                           results |-> event.results]]
        /\ event.query = searches /\ event.results = call.found
    BY <1>1, <1>4, <1>8 DEF onEvent, EventOK
  <2>2. PICK shown \in Result :
           /\ shown = [query |-> event.query, answer |-> <<>>, results |-> event.results]
           /\ shown.query = searches /\ shown.results = call.found
    <3>1. event.query \in Nat /\ event.results \in Seq(Sources)
      BY <1>1, <2>1 DEF KnowledgeTypeOK, Call
    <3>2. [query |-> event.query, answer |-> <<>>, results |-> event.results] \in Result
      BY <3>1, EmptySeq DEF Result
    <3>. QED
      BY <2>1, <3>2
  <2>3. /\ page' \in Page /\ page'.searching = page.searching /\ page'.failed = page.failed
        /\ page'.shown # Nothing
        /\ page'.shown.query = searches /\ page'.shown.results = call.found
    BY <1>1, <2>1, <2>2, NothingAssumption DEF Page, KnowledgeTypeOK
  <2>4. ShownOK'
    BY <1>1, <1>3, <2>3 DEF ShownOK
  <2>5. ~(call'.at = "ended" /\ call'.sent = <<>>)
    <3>1. call.at = "ended" => call.sent[Len(call.sent)].type \in {"completed", "error"}
      BY <1>1 DEF SearchOK, SentOK
    <3>2. call.at = "ended" => Len(call.sent) # 1
      BY <1>2, <1>8, <3>1
    <3>3. Len(call.sent) # 1 => Len(Tail(call.sent)) # 0
      BY <1>2
    <3>. QED
      BY <1>3, <3>2, <3>3, EmptySeq
  <2>6. SearchOK'
    BY <1>1, <1>3, <1>5, <2>3, <2>4, <2>5 DEF SearchOK
  <2>. QED
    BY <1>1, <1>3, <2>3, <2>6 DEF KnowledgeInv, KnowledgeTypeOK
<1>9. CASE event.type = "delta"
  <2>1. /\ page' = [page EXCEPT !.shown = [Current EXCEPT !.answer = @ \o event.text]]
        /\ event.text \in Seq(Words)
    <3>1. event.text \in Seq(Words)
      BY <1>2, <1>9 DEF Event
    <3>. QED
      BY <1>1, <1>9, <3>1 DEF onEvent
  <2>2. PICK shown \in Result : /\ shown = [Current EXCEPT !.answer = @ \o event.text]
                                /\ shown.query = searches /\ shown.results = Current.results
    <3>1. Current.answer \o event.text \in Seq(Words)
      BY <1>6, <2>1, ConcatProperties DEF Result
    <3>. QED
      BY ZenonT(40), <1>6, <3>1, Answered
  <2>3. /\ page' \in Page /\ page'.searching = page.searching /\ page'.failed = page.failed
        /\ page'.shown # Nothing
        /\ page'.shown.query = searches /\ page'.shown.results = Current.results
    BY <1>1, <2>1, <2>2, NothingAssumption DEF Page, KnowledgeTypeOK
  <2>4. ShownOK'
    BY <1>1, <1>3, <1>6, <1>7, <1>9, <2>3 DEF SearchOK, ShownOK
  <2>5. ~(call'.at = "ended" /\ call'.sent = <<>>)
    <3>1. call.at = "ended" => call.sent[Len(call.sent)].type \in {"completed", "error"}
      BY <1>1 DEF SearchOK, SentOK
    <3>2. call.at = "ended" => Len(call.sent) # 1
      BY <1>2, <1>9, <3>1
    <3>3. Len(call.sent) # 1 => Len(Tail(call.sent)) # 0
      BY <1>2
    <3>. QED
      BY <1>3, <3>2, <3>3, EmptySeq
  <2>6. SearchOK'
    BY <1>1, <1>3, <1>5, <2>3, <2>4, <2>5 DEF SearchOK
  <2>. QED
    BY <1>1, <1>3, <2>3, <2>6 DEF KnowledgeInv, KnowledgeTypeOK
<1>10. CASE event.type = "completed"
  <2>1. /\ page' = [page EXCEPT !.shown = [Current EXCEPT !.answer = event.answer]]
        /\ event.answer \in Seq(Words) /\ event.answer = WholeAnswer
    <3>1. event.answer \in Seq(Words)
      BY <1>2, <1>10 DEF Event
    <3>. QED
      BY <1>1, <1>4, <1>10, <3>1 DEF onEvent, EventOK
  <2>2. PICK shown \in Result :
           /\ shown = [Current EXCEPT !.answer = event.answer]
           /\ shown.query = searches /\ shown.results = Current.results
           /\ shown.answer = WholeAnswer
    BY <1>6, <2>1, Answered
  <2>3. /\ page' \in Page /\ page'.searching = page.searching /\ page'.failed = page.failed
        /\ page'.shown # Nothing /\ page'.shown.answer = WholeAnswer
        /\ page'.shown.query = searches /\ page'.shown.results = Current.results
    BY <1>1, <2>1, <2>2, NothingAssumption DEF Page, KnowledgeTypeOK
  <2>4. ShownOK'
    BY <1>1, <1>3, <1>6, <1>7, <1>10, <2>3 DEF SearchOK, ShownOK
  <2>5. WholeAnswer' = WholeAnswer
    BY <1>3 DEF WholeAnswer
  <2>6. SearchOK'
    BY <1>1, <1>3, <1>5, <2>3, <2>4, <2>5 DEF SearchOK
  <2>. QED
    BY <1>1, <1>3, <2>3, <2>6 DEF KnowledgeInv, KnowledgeTypeOK
<1>11. CASE event.type = "error"
  <2>1. page' = [page EXCEPT !.failed = TRUE]
    BY <1>1, <1>11 DEF onEvent
  <2>2. /\ page' \in Page /\ page'.searching = page.searching /\ page'.failed = TRUE
        /\ page'.shown = page.shown
    BY <1>1, <2>1 DEF Page, KnowledgeTypeOK
  <2>3. ShownOK'
    BY <1>1, <1>3, <1>7, <1>11, <2>2 DEF SearchOK, ShownOK
  <2>4. SearchOK'
    BY <1>1, <1>3, <1>5, <2>2, <2>3 DEF SearchOK
  <2>. QED
    BY <1>1, <1>3, <2>2, <2>4 DEF KnowledgeInv, KnowledgeTypeOK
<1>. QED
  BY <1>2, <1>8, <1>9, <1>10, <1>11 DEF Event

LEMMA EndStep ==
    ASSUME KnowledgeInv, SearchEnds
    PROVE  KnowledgeInv'
<1>1. /\ page.searching /\ SearchOK /\ KnowledgeTypeOK
      /\ call' = call /\ searches' = searches /\ clears' = clears /\ breaks' = breaks
      /\ call.at \in {"ended", "refused", "broken"}
  BY DEF SearchEnds, KnowledgeInv
<1>2. /\ page' \in Page /\ page'.searching = FALSE /\ page'.shown = page.shown
      /\ \/ call.at = "ended" /\ call.sent = <<>> /\ page'.failed = page.failed
         \/ page'.failed = TRUE
  BY <1>1 DEF SearchEnds, Page, KnowledgeTypeOK
<1>3. ShownAnswerIsWhole'
  <2>. SUFFICES ASSUME ~page'.failed, page'.shown # Nothing
                PROVE  ShownAnswerIsWhole'
    BY DEF ShownAnswerIsWhole
  <2>1. DOMAIN call.sent = {}
    BY <1>2
  <2>. QED
    BY <1>1, <1>2, <2>1 DEF SearchOK, ShownOK, ShownAnswerIsWhole, WholeAnswer
<1>. QED
  BY <1>1, <1>2, <1>3 DEF KnowledgeInv, KnowledgeTypeOK

LEMMA ClearStep ==
    ASSUME KnowledgeInv, ClearResult
    PROVE  KnowledgeInv'
<1>1. /\ page' = [page EXCEPT !.shown = Nothing] /\ clears' = clears + 1 /\ KnowledgeTypeOK
      /\ call' = call /\ searches' = searches /\ breaks' = breaks
  BY DEF ClearResult, KnowledgeInv
<1>2. /\ page' \in Page /\ page'.searching = page.searching /\ page'.failed = page.failed
      /\ page'.shown = Nothing /\ clears' \in Nat /\ clears' # 0
  BY <1>1 DEF Page, KnowledgeTypeOK
<1>3. ASSUME page.searching
      PROVE  SearchOK'
  <2>1. SentOK'
    <3>1. ASSUME NEW e, EventOK(e)
          PROVE  EventOK(e)'
      BY <1>1, <3>1 DEF EventOK, WholeAnswer
    <3>2. ASSUME NEW i \in DOMAIN call'.sent
          PROVE  \E e : e = call'.sent[i] /\ EventOK(e)'
      BY <1>1, <1>3, <3>1 DEF KnowledgeInv, SearchOK, SentOK
    <3>. QED
      BY <1>1, <1>3, <3>2 DEF KnowledgeInv, SearchOK, SentOK
  <2>. QED
    BY <1>1, <1>2, <1>3, <2>1 DEF KnowledgeInv, SearchOK, ShownOK
<1>. QED
  BY <1>1, <1>2, <1>3 DEF KnowledgeInv, KnowledgeTypeOK, ShownAnswerIsWhole

LEMMA LeaveStep ==
    ASSUME KnowledgeInv, Leave
    PROVE  KnowledgeInv'
<1>1. /\ page' = NewPage /\ call' = NoCall /\ KnowledgeTypeOK
      /\ searches' = searches /\ clears' = clears /\ breaks' = breaks
  BY DEF Leave, KnowledgeInv
<1>2. page' \in Page /\ ~page'.searching /\ page'.shown = Nothing
  BY <1>1 DEF NewPage, Page
<1>3. call' \in Call /\ call'.at = "none"
  BY <1>1, EmptySeq DEF NoCall, Call, KnowledgeTypeOK
<1>. QED
  BY <1>1, <1>2, <1>3 DEF KnowledgeInv, KnowledgeTypeOK, ShownAnswerIsWhole

-----------------------------------------------------------------------------
(* The theorems. *)

LEMMA KnowledgeInitInv == KnowledgeInit => KnowledgeInv
<1>. SUFFICES ASSUME KnowledgeInit
              PROVE  KnowledgeInv
  OBVIOUS
<1>1. page \in Page /\ ~page.searching /\ page.shown = Nothing
  BY DEF KnowledgeInit, NewPage, Page
<1>2. call \in Call /\ call.at = "none"
  BY EmptySeq DEF KnowledgeInit, NoCall, Call
<1>. QED
  BY <1>1, <1>2 DEF KnowledgeInit, KnowledgeInv, KnowledgeTypeOK, ShownAnswerIsWhole

LEMMA KnowledgeStepInv == KnowledgeInv /\ [KnowledgeNext]_knowledgeVars => KnowledgeInv'
<1>. SUFFICES ASSUME KnowledgeInv, [KnowledgeNext]_knowledgeVars
              PROVE  KnowledgeInv'
  OBVIOUS
<1>1. CASE KnowledgeNext
  BY <1>1, FindStep, BreakStep, NoContextStep, DeltaStep, CompletedStep, ThrowsStep,
     SearchStep, KnowledgeReadStep, EndStep, ClearStep, LeaveStep DEF KnowledgeNext
<1>2. CASE UNCHANGED knowledgeVars
  <2>1. /\ page' = page /\ call' = call /\ searches' = searches
        /\ clears' = clears /\ breaks' = breaks
    BY <1>2 DEF knowledgeVars
  <2>2. ASSUME NEW e
        PROVE  EventOK(e)' = EventOK(e)
    BY <2>1 DEF EventOK, WholeAnswer
  <2>3. SentOK => SentOK'
    <3>1. ASSUME SentOK, NEW i \in DOMAIN call'.sent
          PROVE  \E e : e = call'.sent[i] /\ EventOK(e)'
      BY <2>1, <2>2, <3>1 DEF SentOK
    <3>. QED
      BY <2>1, <3>1 DEF SentOK
  <2>4. SearchOK => SearchOK'
    BY <2>1, <2>3 DEF SearchOK, ShownOK, WholeAnswer
  <2>. QED
    BY <2>1, <2>4 DEF KnowledgeInv, KnowledgeTypeOK, ShownAnswerIsWhole
<1>. QED
  BY <1>1, <1>2

(* The page, the request and the lines between them keep their types.      *)
THEOREM KnowledgeTypeCorrect == KnowledgeSpec => []KnowledgeTypeOK
<1>1. KnowledgeInv => KnowledgeTypeOK
  BY DEF KnowledgeInv
<1>. QED
  BY KnowledgeInitInv, KnowledgeStepInv, <1>1, PTL DEF KnowledgeSpec

(* However lines, cleared results, failures and new searches interleave, a *)
(* page that shows an answer shows the whole answer of its last search.    *)
THEOREM AnswersAreWhole == KnowledgeSpec => []ShownAnswerIsWhole
<1>1. KnowledgeInv => ShownAnswerIsWhole
  BY DEF KnowledgeInv, KnowledgeTypeOK, Page, ShownAnswerIsWhole
<1>. QED
  BY KnowledgeInitInv, KnowledgeStepInv, <1>1, PTL DEF KnowledgeSpec
=============================================================================
