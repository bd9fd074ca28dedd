--------------------------- MODULE Conversations ---------------------------
(* One conversation and the turns that several tabs take in it at once: on  *)
(* the direct chat path, which streams the model's answer from the API, and *)
(* as agent runs, which the worker answers one at a time.  Each turn stores *)
(* its question and its answer in a transaction of its own that locks the   *)
(* conversation's row, reads the messages and appends one.  The model sees  *)
(* a prompt: the direct chat's is the history that transaction read; the    *)
(* worker's is read when it answers, cut, and joined with the run's input.  *)
EXTENDS Naturals, Sequences, FiniteSets, SequencesExt

CONSTANTS
    Turns,          \* the turns asked for
    TurnTexts,      \* what a question may say
    Agents,         \* the agents a turn may name; the conversation has one
    FirstPage,      \* listMessages: take
    History,        \* previousConversationMessages: slice
    Nobody

ASSUME ConversationsAssumption ==
    /\ {FirstPage, History} \subseteq Nat
    /\ Nobody \notin Turns \cup Agents

VARIABLES
    messages,       \* the rows of Message, in order of insertion
    owner,          \* the conversation's agent; Nobody before it is created
    lock,           \* the turn whose transaction has updated the row
    turn,           \* each turn: its kind, agent, text, place, what it has read
    runQueue,       \* the runs that wait for the worker
    answering       \* the run the worker executes

conversationVars == <<messages, owner, lock, turn, runQueue, answering>>

Message(role, t, sequence) ==
    [role |-> role, turn |-> t, text |-> IF role = "USER" THEN turn[t].text ELSE "answer",
     sequence |-> sequence]

ConversationInit ==
    /\ messages = <<>> /\ owner = Nobody /\ lock = Nobody
    /\ turn \in [Turns -> [kind : {"chat", "run"}, agent : Agents, text : TurnTexts,
                           at : {"idle"}, read : {<<>>}, prompt : {<<>>},
                           seen : {0}]]
    /\ runQueue = <<>> /\ answering = Nobody

At(t, here) == turn[t].at = here

Go(t, there) == turn' = [turn EXCEPT ![t].at = there]

-----------------------------------------------------------------------------
(* The question.                                                            *)

(* Without a conversation the first turn creates one, with its message.     *)
CreateConversation(t) ==
    /\ At(t, "idle")
    /\ owner = Nobody
    /\ owner' = turn[t].agent
    /\ messages' = <<Message("USER", t, 1)>>
    /\ turn' = [turn EXCEPT ![t].at = "asked", ![t].read = <<>>]
    /\ UNCHANGED <<lock, runQueue, answering>>

LockConversation_NoWait(t, before, after) ==
    /\ At(t, before)
    /\ owner # Nobody
    /\ Go(t, IF turn[t].agent = owner THEN after ELSE "failed")
    /\ UNCHANGED <<messages, owner, lock, runQueue, answering>>

(* updateMany(conversation): the row is locked until the commit, if the     *)
(* conversation is the agent's; else the request is answered "not found".   *)
LockConversation(t, before, after) ==
    /\ At(t, before)
    /\ owner # Nobody
    /\ IF turn[t].agent = owner
       THEN /\ lock = Nobody
            /\ lock' = t
            /\ Go(t, after)
       ELSE /\ Go(t, "failed")
            /\ UNCHANGED lock
    /\ UNCHANGED <<messages, owner, runQueue, answering>>

(* What findMany and findFirst read under the lock.                         *)
ReadMessages(t, before, after) ==
    /\ At(t, before)
    /\ turn' = [turn EXCEPT ![t].at = after, ![t].read = messages]
    /\ UNCHANGED <<messages, owner, lock, runQueue, answering>>

NextSequence(read) == IF read = <<>> THEN 1 ELSE Last(read).sequence + 1

(* message.create, and the commit.  (tenant, conversation, sequence) is     *)
(* unique: a number already taken makes the transaction fail.               *)
AppendMessage(t, role, before, after) ==
    LET sequence == NextSequence(turn[t].read)
        taken == \E i \in DOMAIN messages : messages[i].sequence = sequence
    IN /\ At(t, before)
       /\ messages' = IF taken THEN messages
                      ELSE Append(messages, Message(role, t, sequence))
       /\ lock' = IF lock = t THEN Nobody ELSE lock
       /\ Go(t, IF taken THEN "conflict" ELSE after)
       /\ UNCHANGED <<owner, runQueue>>

start(t) ==
    \/ CreateConversation(t)
    \/ LockConversation(t, "idle", "locked")
    \/ ReadMessages(t, "locked", "read")
    \/ AppendMessage(t, "USER", "read", "asked") /\ UNCHANGED answering

-----------------------------------------------------------------------------
(* ChatService.prepare and generate: the answer is streamed by the API.     *)

prepare(t) ==
    /\ turn[t].kind = "chat"
    /\ At(t, "asked")
    /\ turn' = [turn EXCEPT ![t].at = "generated",
                            ![t].prompt = Append(turn[t].read,
                                                 Message("USER", t, NextSequence(turn[t].read)))]
    /\ UNCHANGED <<messages, owner, lock, runQueue, answering>>

-----------------------------------------------------------------------------
(* The durable run: RunsService.start adds the job, the worker takes it up. *)

enqueueRun(t) ==
    /\ turn[t].kind = "run"
    /\ At(t, "asked")
    /\ runQueue' = Append(runQueue, t)
    /\ Go(t, "queued")
    /\ UNCHANGED <<messages, owner, lock, answering>>

TakeRun ==
    /\ answering = Nobody
    /\ runQueue # <<>>
    /\ answering' = Head(runQueue)
    /\ runQueue' = Tail(runQueue)
    /\ Go(Head(runQueue), "executing")
    /\ UNCHANGED <<messages, owner, lock>>

(* The oldest messages, a page of them.                                     *)
listMessages == SubSeq(messages, 1, IF Len(messages) < FirstPage THEN Len(messages) ELSE FirstPage)

latestMessageIsCurrentUserInput(list, text) ==
    list # <<>> /\ Last(list).role = "USER" /\ Last(list).text = text

slice(list, n) == SubSeq(list, IF Len(list) > n THEN Len(list) - n + 1 ELSE 1, Len(list))

previousConversationMessages_KeepsLatest(list, text) == slice(list, History)

previousConversationMessages(list, text) ==
    slice(IF latestMessageIsCurrentUserInput(list, text) THEN Front(list) ELSE list,
          History)

(* seen: how many messages the conversation held when the run read it.      *)
generateAnswer(t) ==
    LET own == CHOOSE i \in DOMAIN messages : messages[i].turn = t
    IN /\ answering = t
       /\ At(t, "executing")
       /\ turn' = [turn EXCEPT
                      ![t].at = "generated",
                      ![t].seen = Len(messages),
                      ![t].prompt = Append(previousConversationMessages(listMessages, turn[t].text),
                                           messages[own])]
       /\ UNCHANGED <<messages, owner, lock, runQueue, answering>>

-----------------------------------------------------------------------------
(* The answer: ConversationRepository.complete, or completeStep.            *)

Done(t) == answering' = IF answering = t THEN Nobody ELSE answering

complete(t) ==
    \/ LockConversation(t, "generated", "completing")
    \/ ReadMessages(t, "completing", "answer")
    \/ AppendMessage(t, "ASSISTANT", "answer", "answered") /\ Done(t)

(* The model fails or the client disconnects: the question stays alone.     *)
AnswerFails(t) ==
    /\ turn[t].at = "generated"
    /\ Go(t, "failed")
    /\ Done(t)
    /\ UNCHANGED <<messages, owner, lock, runQueue>>

ConversationNext ==
    \/ TakeRun
    \/ \E t \in Turns : \/ start(t) \/ prepare(t) \/ enqueueRun(t)
                        \/ generateAnswer(t) \/ complete(t) \/ AnswerFails(t)

ConversationSpec == ConversationInit /\ [][ConversationNext]_conversationVars

-----------------------------------------------------------------------------
(* The properties.                                                          *)

(* The messages are numbered without gap or double in the order they were   *)
(* stored, no turn fails over a number another one took, and every answer   *)
(* comes after its question, once.                                          *)
ConversationIsOrdered ==
    /\ \A i \in DOMAIN messages : messages[i].sequence = i
    /\ \A t \in Turns : turn[t].at # "conflict"
    /\ \A i, j \in DOMAIN messages :
          messages[i].turn = messages[j].turn /\ i < j
            => messages[i].role = "USER" /\ messages[j].role = "ASSISTANT"

(* The number of the question of a turn. *)
Question(t) ==
    CHOOSE i \in DOMAIN messages : messages[i].turn = t /\ messages[i].role = "USER"

(* A turn's question after what the conversation held before it, all of it  *)
(* on the direct path, the last History messages for a run.                 *)
ConversationUpTo(t) ==
    LET before == SubSeq(messages, 1, Question(t) - 1)
    IN Append(IF turn[t].kind = "chat" THEN before ELSE slice(before, History),
              messages[Question(t)])

(* The newest message that listMessages returned to a run.                  *)
LastRead(t) == IF turn[t].seen < FirstPage THEN turn[t].seen ELSE FirstPage

Repeats(t, i) ==
    i \in DOMAIN messages /\ messages[i].role = "USER" /\ messages[i].text = turn[t].text

(* A run asks with what it read: the last History messages up to LastRead,  *)
(* or up to the one before if LastRead only repeats the question.           *)
AsksWithWhatItRead(t) ==
    \E k \in {LastRead(t) - 1, LastRead(t)} :
       /\ turn[t].prompt = Append(slice(SubSeq(messages, 1, k), History), messages[Question(t)])
       /\ k # LastRead(t) => Repeats(t, LastRead(t))

(* Whatever other turns store meanwhile, the model is asked the turn's      *)
(* question last, after one piece of the conversation, in order and without *)
(* a gap.  On the direct path the piece is all that came before the         *)
(* question and nothing that came later.  A run's piece ends with the       *)
(* newest message of the first page when it was answered: messages of later *)
(* turns are in it, and the question itself again, if it was overtaken; it  *)
(* ends before the question if that lies beyond the page.  A run that was   *)
(* not overtaken, on the first page, is asked its question once, after what *)
(* came before.                                                             *)
PromptIsConversation ==
    \A t \in Turns :
       turn[t].prompt # <<>> =>
         /\ turn[t].kind = "chat" => turn[t].prompt = ConversationUpTo(t)
         /\ turn[t].kind = "run" =>
              /\ AsksWithWhatItRead(t)
              /\ turn[t].seen = Question(t) /\ Question(t) <= FirstPage
                   => turn[t].prompt = ConversationUpTo(t)
=============================================================================
