-------------------------- MODULE ReviewedActions --------------------------
(***************************************************************************)
(* One reviewed action - a Gmail draft or a GitHub comment or issue - that *)
(* a user edits, rejects or sends, while the agent may revise it and the   *)
(* connection it is sent with is used, refreshed and cleared by others     *)
(* (ExternalConnections).  Reviews are rows of their own, so a behaviour   *)
(* follows one of them.                                                    *)
(*                                                                         *)
(* A text is a number: every edit gives the review a new one.              *)
(***************************************************************************)
EXTENDS ExternalConnections, Sequences

CONSTANT MaxTexts    \* bound on the texts that users and agents write

ASSUME MaxTextsAssumption == MaxTexts \in Nat \ {0}

VARIABLES
    review,      \* the GmailDraftReview or GithubActionReview row
    mailbox,     \* the text of the Gmail draft the row names, Null when gone
    delivered,   \* what the provider has sent or posted for this review
    texts,       \* the texts written so far
    \* History, which no step of the code reads.
    raced        \* while a send was under way the review changed, another
                 \* send began, or the send broke off after the delivery

reviewVars == <<review, mailbox, delivered, texts, raced>>
vars == <<connectionVars, reviewVars>>

Open == {"NEEDS_REVIEW", "UPDATED"}

(* gmailDraftId: not set, set when the row was made, or set by markSent.   *)
Review == [status     : {"none", "NEEDS_REVIEW", "UPDATED", "SENT", "REJECTED"},
           text       : 0 .. MaxTexts,
           draft      : {"none", "kept", "new"},
           repository : Repositories \cup {Null},
           simulated  : BOOLEAN]       \* marked sent through the mock

(* What left, and what the call that sent it had read from the row.        *)
Delivery == [text : 0 .. MaxTexts, approved : 0 .. MaxTexts]

TypeOK ==
    /\ ConnectionsTypeOK
    /\ review \in Review
    /\ mailbox \in (0 .. MaxTexts) \cup {Null}
    /\ delivered \in Seq(Delivery)
    /\ texts \in 0 .. MaxTexts
    /\ raced \in BOOLEAN
    /\ \A c \in Calls : call[c].text \in 0 .. MaxTexts

Init ==
    /\ ConnectionsInit
    /\ review = [status |-> "none", text |-> 0, draft |-> "none",
                 repository |-> Null, simulated |-> FALSE]
    /\ mailbox = Null /\ delivered = <<>> /\ texts = 0 /\ raced = FALSE

Sending == \E c \in Calls : InFlight(c) /\ call[c].op \in {"send", "simulate"}

-----------------------------------------------------------------------------
(* The row.                                                                *)

(* A user writes a draft, or the agent stores the one it made in Gmail.    *)
CreateDraftReview ==
    /\ provider = "GMAIL" /\ review.status = "none"
    /\ texts' = 1
    /\ \E draft \in {"none", "kept"} :
         /\ review' = [review EXCEPT !.status = "NEEDS_REVIEW", !.text = 1,
                                     !.draft = draft]
         /\ mailbox' = IF draft = "kept" THEN 1 ELSE Null
    /\ UNCHANGED <<connectionVars, delivered, raced>>

(* A GitHub action needs a repository that is listed.                      *)
CreateActionReview ==
    /\ provider = "GITHUB" /\ review.status = "none"
    /\ texts' = 1
    /\ \E x \in Repositories :
         /\ Visible(x)
         /\ review' = [review EXCEPT !.status = "NEEDS_REVIEW", !.text = 1,
                                     !.repository = x]
    /\ UNCHANGED <<connectionVars, mailbox, delivered, raced>>

UpdateReview ==
    /\ review.status \in Open /\ texts < MaxTexts
    /\ texts' = texts + 1
    /\ review' = [review EXCEPT !.status = "UPDATED", !.text = texts']
    /\ raced' = (raced \/ Sending)
    /\ UNCHANGED <<connectionVars, mailbox, delivered>>

RejectReview ==
    /\ review.status \in Open
    /\ review' = [review EXCEPT !.status = "REJECTED"]
    /\ raced' = (raced \/ Sending)
    /\ UNCHANGED <<connectionVars, mailbox, delivered, texts>>

-----------------------------------------------------------------------------
(* Sending: sendDraftReview() and submitActionReview().                    *)

(* findById: the text that will be sent is the one in the row now.         *)
BeginSend(c) ==
    /\ Configured \/ (DevMock /\ provider = "GMAIL")
    /\ review.status \in Open
    /\ call[c].at = "idle"
    /\ call' = [call EXCEPT ![c] = [Idle EXCEPT
          !.op = "send", !.at = "review", !.text = review.text,
          !.own = (review.draft = "none")]]
    /\ raced' = (raced \/ Sending)
    /\ disturbed' = (disturbed \/ Disconnecting)
    /\ UNCHANGED <<provider, rows, flow, stored, older,
                   review, mailbox, delivered, texts>>

(* The mock's scope in the row - a disconnect leaves it there - makes the  *)
(* Gmail send a simulation.                                                *)
CheckConnection(c) ==
    /\ provider = "GMAIL" /\ call[c].at = "review"
    /\ call' = IF connection.mock
               THEN [call EXCEPT ![c].op = "simulate", ![c].at = "mark"]
               ELSE [call EXCEPT ![c].at = "token"]
    /\ UNCHANGED <<provider, rows, flow, history, reviewVars>>

(* The repository must still be listed.                                    *)
CheckRepository(c) ==
    /\ provider = "GITHUB" /\ call[c].at = "review"
    /\ IF Visible(review.repository)
       THEN call' = [call EXCEPT ![c].at = "token"]
       ELSE Finish(c)
    /\ UNCHANGED <<provider, rows, flow, history, reviewVars>>

SendToken(c) ==
    /\ call[c].op \in {"send", "revise"} /\ ReadToken(c, "draft")
    /\ UNCHANGED <<provider, rows, flow, history, reviewVars>>

SendRefresh(c) ==
    /\ call[c].op \in {"send", "revise"} /\ Refresh(c, "draft")
    /\ UNCHANGED <<provider, installation, listing, flow, history,
                   reviewVars>>

PrepareDraft_KeepsText(c) ==
    /\ provider = "GMAIL" /\ call[c].op = "send" /\ call[c].at = "draft"
    /\ IF call[c].own \/ mailbox # Null
       THEN call' = [call EXCEPT ![c].at = "deliver"]
       ELSE Finish(c)
    /\ UNCHANGED <<provider, rows, flow, history, reviewVars>>

PrepareDraft_AlwaysCreates(c) ==
    /\ provider = "GMAIL" /\ call[c].op = "send" /\ call[c].at = "draft"
    /\ call' = [call EXCEPT ![c].at = "deliver", ![c].own = TRUE]
    /\ UNCHANGED <<provider, rows, flow, history, reviewVars>>

(* The draft named in the row gets the text; without one a draft is made,  *)
(* which no row names until the send is marked.                            *)
PrepareDraft(c) ==
    /\ provider = "GMAIL" /\ call[c].op = "send" /\ call[c].at = "draft"
    /\ IF call[c].own
       THEN /\ call' = [call EXCEPT ![c].at = "deliver"]
            /\ UNCHANGED mailbox
       ELSE IF mailbox # Null
       THEN /\ call' = [call EXCEPT ![c].at = "deliver"]
            /\ mailbox' = call[c].text
       ELSE Finish(c) /\ UNCHANGED mailbox
    /\ UNCHANGED <<provider, rows, flow, history,
                   review, delivered, texts, raced>>

Delivered(c, text) ==
    /\ delivered' = Append(delivered, [text |-> text, approved |-> call[c].text])
    /\ call' = [call EXCEPT ![c].at = "mark"]

(* Gmail sends the draft as it is now, and a sent draft is gone.           *)
SendDraft(c) ==
    /\ call[c].at = "deliver"
    /\ IF call[c].own
       THEN Delivered(c, call[c].text) /\ UNCHANGED mailbox
       ELSE IF mailbox # Null
       THEN Delivered(c, mailbox) /\ mailbox' = Null
       ELSE Finish(c) /\ UNCHANGED <<delivered, mailbox>>
    /\ UNCHANGED <<provider, rows, flow, history, review, texts, raced>>

(* submitReviewedAction(): GitHub posts what it is given.                  *)
PostAction(c) ==
    /\ provider = "GITHUB" /\ call[c].at = "draft"
    /\ Delivered(c, call[c].text)
    /\ UNCHANGED <<provider, rows, flow, history,
                   review, mailbox, texts, raced>>

MarkSent_AnyStatus(c) ==
    /\ call[c].at = "mark"
    /\ review' = [review EXCEPT !.status = "SENT",
                    !.draft = IF @ = "none" THEN "new" ELSE @,
                    !.simulated = (call[c].op = "simulate")]
    /\ Finish(c)
    /\ UNCHANGED <<provider, rows, flow, history,
                   mailbox, delivered, texts, raced>>

(* A review that has been decided meanwhile stays as it is, and the call   *)
(* answers 404 for what it has already sent.                               *)
MarkSent(c) ==
    /\ call[c].at = "mark"
    /\ IF review.status \in Open
       THEN review' = [review EXCEPT !.status = "SENT",
                         !.draft = IF provider = "GMAIL" /\ @ = "none" THEN "new" ELSE @,
                         !.simulated = (call[c].op = "simulate")]
       ELSE UNCHANGED review
    /\ Finish(c)
    /\ UNCHANGED <<provider, rows, flow, history,
                   mailbox, delivered, texts, raced>>

-----------------------------------------------------------------------------
(* The agent revises a Gmail draft: runGmailDraftReviewStep() with a       *)
(* review to update.  The draft in the mailbox comes first, and whether    *)
(* the review is still open is only asked after it.                        *)

BeginRevise(c) ==
    /\ provider = "GMAIL" /\ review.draft # "none" /\ texts < MaxTexts
    /\ call[c].at = "idle"
    /\ texts' = texts + 1
    /\ call' = [call EXCEPT ![c] = [Idle EXCEPT
          !.op = "revise", !.at = "token", !.text = texts']]
    /\ disturbed' = (disturbed \/ Disconnecting)
    /\ UNCHANGED <<provider, rows, flow, stored, older,
                   review, mailbox, delivered, raced>>

ReviseDraft(c) ==
    /\ call[c].op = "revise" /\ call[c].at = "draft"
    /\ IF mailbox # Null
       THEN /\ mailbox' = call[c].text
            /\ call' = [call EXCEPT ![c].at = "edit"]
            /\ raced' = (raced \/ Sending)
       ELSE Finish(c) /\ UNCHANGED <<mailbox, raced>>
    /\ UNCHANGED <<provider, rows, flow, history, review, delivered, texts>>

ReviseRow(c) ==
    /\ call[c].at = "edit"
    /\ IF review.status \in Open
       THEN /\ review' = [review EXCEPT !.status = "UPDATED", !.text = call[c].text]
            /\ raced' = (raced \/ Sending)
       ELSE UNCHANGED <<review, raced>>
    /\ Finish(c)
    /\ UNCHANGED <<provider, rows, flow, history, mailbox, delivered, texts>>

-----------------------------------------------------------------------------
BreakOff(c) ==
    /\ Abandon(c)
    /\ raced' = (raced \/ (call[c].op = "send" /\ call[c].at = "mark"))
    /\ UNCHANGED <<review, mailbox, delivered, texts>>

ReviewNext ==
    \/ CreateDraftReview \/ CreateActionReview \/ UpdateReview \/ RejectReview
    \/ \E c \in Calls : \/ BeginSend(c) \/ CheckConnection(c) \/ CheckRepository(c)
                        \/ SendToken(c) \/ SendRefresh(c) \/ PrepareDraft(c) \/ SendDraft(c)
                        \/ PostAction(c) \/ MarkSent(c)
                        \/ BeginRevise(c) \/ ReviseDraft(c) \/ ReviseRow(c)
                        \/ BreakOff(c)

Next == ReviewNext \/ (ConnectionsNext /\ UNCHANGED reviewVars)

Spec == Init /\ [][Next]_vars

-----------------------------------------------------------------------------
(* The properties.                                                         *)

(* An undisturbed approval delivers exactly what the row shows, exactly    *)
(* once: unless the review changed, was sent twice at a time, or a send    *)
(* broke off between delivery and mark, a sent row has one delivery, of    *)
(* its own text, and any other row none but the one about to be marked.    *)
UndisturbedApproval ==
    ~raced => delivered =
        IF \/ review.status = "SENT" /\ ~review.simulated
           \/ \E c \in Calls : call[c].op = "send" /\ call[c].at = "mark"
        THEN <<[text |-> review.text, approved |-> review.text]>>
        ELSE <<>>

(* A review that was made with its Gmail draft is mailed once at most,     *)
(* whatever races and however often a send breaks off and is repeated:     *)
(* each attempt works on the same draft, and a sent draft is gone.         *)
KeptDraftSentOnce == review.draft = "kept" => Len(delivered) <= 1

(* Reject and submit are terminal for the review record.                   *)
DecisionIsFinal ==
    [][review.status \in {"SENT", "REJECTED"} => review' = review]_vars

(* What the documents say: the fields are shown to the user before         *)
(* sending, and no mail leaves without the user's approval.  The agent can *)
(* put its own text into the draft between the API's update of the draft   *)
(* and its send.                                                           *)
OnlyApprovedTextLeaves ==
    \A i \in DOMAIN delivered : delivered[i].text = delivered[i].approved

=============================================================================
