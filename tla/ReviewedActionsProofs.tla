----------------------- MODULE ReviewedActionsProofs -----------------------
(* What holds of a review, and of the connection it is sent with, for any   *)
(* calls, flows, repositories and texts.                                    *)
EXTENDS ReviewedActions, SequenceTheorems, TLAPS

SendOps == {"send", "simulate"}
SendPlaces == {"review", "token", "refresh", "draft", "deliver", "mark"}

(* What the argument needs of the types.                                    *)
Typed ==
    /\ DOMAIN call = Calls
    /\ \A c \in Calls : {"op", "at", "text", "own"} \subseteq DOMAIN call[c]
    /\ \A c \in Calls : call[c].own \in BOOLEAN
    /\ {"status", "text", "draft", "simulated"} \subseteq DOMAIN review
    /\ review.status \in {"none", "NEEDS_REVIEW", "UPDATED", "SENT", "REJECTED"}
    /\ review.draft \in {"none", "kept", "new"} /\ review.simulated \in BOOLEAN
    /\ raced \in BOOLEAN /\ provider \in {"GMAIL", "GITHUB"}

(* A call's place tells what it does.                                       *)
PlaceOK(c) ==
    /\ call[c].op \in SendOps => call[c].at \in SendPlaces /\ review.status # "none"
    /\ call[c].op = "simulate" => call[c].at = "mark"
    /\ call[c].op = "revise" => provider = "GMAIL"
    /\ call[c].at \in {"review", "deliver"} => call[c].op = "send"
    /\ call[c].at = "mark" => call[c].op \in SendOps
    /\ call[c].at = "draft" => call[c].op \in {"send", "revise"}
    /\ call[c].own => call[c].op \in SendOps

(* Before there is a review nothing is delivered or shown as simulated; a   *)
(* GitHub review has no draft.                                              *)
StatusOK ==
    /\ review.status = "none" => delivered = <<>>
    /\ review.status # "SENT" => ~review.simulated
    /\ provider = "GITHUB" => review.draft = "none"

(* The draft a review was made with is what every send works on, and it is  *)
(* gone once it is sent.                                                    *)
KeptOK ==
    review.draft = "kept" =>
      /\ \A c \in Calls : ~call[c].own
      /\ delivered = <<>> \/ (mailbox = Null /\ \E x : delivered = <<x>>)

(* A send that nothing has disturbed is alone and works on the row's text.  *)
SenderOK(c) ==
    call[c].op \in SendOps =>
      /\ review.status \in Open /\ call[c].text = review.text
      /\ call[c].own = (review.draft = "none")
      /\ call[c].at = "deliver" /\ ~call[c].own => mailbox \in {review.text, Null}
      /\ \A d \in Calls : call[d].op \in SendOps => d = c

CalmOK == ~raced => UndisturbedApproval /\ \A c \in Calls : SenderOK(c)

Inv ==
    /\ Typed /\ StatusOK /\ KeptOK /\ CalmOK
    /\ \A c \in Calls : PlaceOK(c)

-----------------------------------------------------------------------------
(* What steps do to the calls. *)

(* A call that is not sending is not sending afterwards.                    *)
Aside(c) ==
    \/ call'[c] = call[c]
    \/ /\ call[c].op \notin SendOps /\ call'[c].op \notin SendOps
       /\ {"op", "at", "text", "own"} \subseteq DOMAIN call'[c] /\ call'[c].own = FALSE
       /\ call'[c].at \notin {"review", "deliver", "mark"}
       /\ call'[c].op = "revise" => provider = "GMAIL"
       /\ call'[c].at = "draft" => call'[c].op = "revise"

AllAside == DOMAIN call' = Calls /\ \A c \in Calls : Aside(c)

(* Only the call c moves.                                                   *)
Moves(c) ==
    /\ DOMAIN call' = Calls
    /\ \A d \in Calls \ {c} : call'[d] = call[d]
    /\ {"op", "at", "text", "own"} \subseteq DOMAIN call'[c]

LEMMA CallBecomes ==
    ASSUME Typed, NEW c \in Calls, NEW row,
           {"op", "at", "text", "own"} \subseteq DOMAIN row,
           call' = [call EXCEPT ![c] = row]
    PROVE  Moves(c) /\ call'[c] = row
BY DEF Typed, Moves

LEMMA Rows ==
    /\ {"op", "at", "text", "own"} \subseteq DOMAIN Idle
    /\ Idle.op = "none" /\ Idle.own = FALSE
    /\ {"op", "at", "text", "own"} \subseteq DOMAIN Over
    /\ Over.op = "none" /\ Over.at = "done" /\ Over.own = FALSE
BY DEF Idle, Over

LEMMA Finishes ==
    ASSUME Typed, NEW c \in Calls, Finish(c)
    PROVE  /\ Moves(c) /\ call'[c].op = "none" /\ call'[c].at = "done"
           /\ call'[c].own = FALSE
BY CallBecomes, Rows DEF Finish

(* A call goes on, or is over.                                              *)
LEMMA GoesOn ==
    ASSUME Typed, NEW c \in Calls, NEW next, NEW token, GoOn(c, next, token)
    PROVE  /\ Moves(c)
           /\ \/ call'[c].op = "none" /\ call'[c].at = "done" /\ call'[c].own = FALSE
              \/ /\ call'[c].at = next /\ next # "done" /\ call'[c].op = call[c].op
                 /\ call'[c].own = call[c].own /\ call'[c].text = call[c].text
<1>1. CASE next = "done"
  BY <1>1, Finishes DEF GoOn
<1>2. CASE next # "done"
  BY <1>2 DEF GoOn, Typed, Moves
<1>. QED
  BY <1>1, <1>2

(* The token steps take a call to the next place, to the refresh or out.    *)
LEMMA TokenStep ==
    ASSUME Typed, NEW c \in Calls, NEW next, ReadToken(c, next) \/ Refresh(c, next)
    PROVE  /\ Moves(c) /\ call[c].at \in {"token", "refresh"}
           /\ \/ call'[c].op = "none" /\ call'[c].at = "done" /\ call'[c].own = FALSE
              \/ /\ call'[c].at \in {next, "refresh"} \ {"done"} /\ call'[c].op = call[c].op
                 /\ call'[c].own = call[c].own /\ call'[c].text = call[c].text
BY ZenonT(40), GoesOn, Finishes DEF ReadToken, Refresh

LEMMA OneAside ==
    ASSUME NEW c \in Calls, Moves(c), call[c].op \notin SendOps, call'[c].op \notin SendOps,
           call'[c].own = FALSE, call'[c].at \notin {"review", "deliver", "mark"},
           call'[c].op = "revise" => provider = "GMAIL",
           call'[c].at = "draft" => call'[c].op = "revise"
    PROVE  AllAside
BY DEF Moves, Aside, AllAside

(* Steps aside of the sends leave the review's promises.                    *)
LEMMA AsideStep ==
    ASSUME Inv, AllAside, UNCHANGED <<provider, review, mailbox, delivered>>,
           raced' \in BOOLEAN, raced => raced'
    PROVE  Inv'
<1>1. Typed'
  BY DEF Inv, Typed, AllAside, Aside
<1>2. \A c \in Calls : /\ call'[c].op \in SendOps => call'[c] = call[c]
                       /\ call[c].op \in SendOps => call'[c] = call[c]
                       /\ call'[c].own => call'[c] = call[c]
  BY DEF AllAside, Aside
<1>3. \A c \in Calls : PlaceOK(c)'
  BY DEF Inv, PlaceOK, AllAside, Aside, SendOps
<1>4. StatusOK' /\ KeptOK'
  BY <1>2 DEF Inv, StatusOK, KeptOK
<1>5. CalmOK'
  <2>. SUFFICES ASSUME ~raced'
                PROVE  UndisturbedApproval' /\ \A c \in Calls : SenderOK(c)'
    BY DEF CalmOK
  <2>1. UndisturbedApproval /\ \A c \in Calls : SenderOK(c)
    BY DEF Inv, CalmOK
  <2>2. (\E c \in Calls : call'[c].op = "send" /\ call'[c].at = "mark")
          <=> \E c \in Calls : call[c].op = "send" /\ call[c].at = "mark"
    BY <1>2 DEF SendOps
  <2>3. UndisturbedApproval'
    BY <2>1, <2>2 DEF UndisturbedApproval
  <2>4. \A c \in Calls : SenderOK(c)'
    BY <1>2, <2>1 DEF SenderOK
  <2>. QED
    BY <2>3, <2>4
<1>. QED
  BY <1>1, <1>3, <1>4, <1>5 DEF Inv

-----------------------------------------------------------------------------
(* The steps of the connection. *)

LEMMA ConnectionStep ==
    ASSUME Inv, ConnectionsNext, UNCHANGED reviewVars
    PROVE  Inv'
<1>. /\ Typed /\ provider' = provider
     /\ review' = review /\ mailbox' = mailbox /\ delivered' = delivered /\ raced' = raced
  BY DEF Inv, ConnectionsNext, reviewVars, Connect, Consent, FlowLost, ConnectDevMock,
     BeginComplete, BeginDisconnect, Redeem, StoreTokens, EndDisconnect, BeginTool, ToolToken,
     ToolRefresh, BeginSync, SyncToken, SyncInstallation, SyncRepository, TokenExpires, Webhook
<1>0. raced' \in BOOLEAN /\ (raced => raced')
  BY DEF Typed
<1>1. ASSUME call' = call
      PROVE  AllAside
  BY <1>1 DEF AllAside, Aside, Typed
<1>2. ASSUME NEW f \in Flows, Connect(f) \/ Consent(f) \/ FlowLost(f) \/ ConnectDevMock(f)
      PROVE  AllAside
  BY <1>1, <1>2 DEF Connect, Consent, FlowLost, ConnectDevMock
<1>3. ASSUME NEW c \in Calls, call[c].op \notin SendOps,
             Moves(c), call'[c].op = "none", call'[c].at = "done", call'[c].own = FALSE
      PROVE  AllAside
  BY <1>3, OneAside DEF SendOps
<1>4. ASSUME NEW c \in Calls, call[c].op \notin SendOps, Moves(c),
             call'[c].op \in {call[c].op, "complete", "disconnect", "tool", "sync"},
             call'[c].own \in {call[c].own, FALSE},
             call'[c].at \in {"redeem", "store", "clear", "token", "refresh", "installation",
                              "repositories"}
      PROVE  AllAside
  <2>1. call[c].own = FALSE /\ (call[c].op = "revise" => provider = "GMAIL")
    BY <1>4 DEF Inv, Typed, PlaceOK
  <2>2. call'[c].op \notin SendOps /\ (call'[c].op = "revise" => call[c].op = "revise")
    BY <1>4 DEF SendOps
  <2>. QED
    BY <1>4, <2>1, <2>2, OneAside
<1>5. ASSUME NEW c \in Calls, call[c].at \in {"idle", "redeem", "store", "clear",
                                             "installation", "repositories"}
      PROVE  call[c].op \notin SendOps
  BY <1>5 DEF Inv, PlaceOK, SendPlaces
<1>6. ASSUME NEW c \in Calls, NEW f \in Flows, BeginComplete(c, f)
      PROVE  AllAside
  <2>. DEFINE previous == IF provider = "GMAIL" THEN connection.refresh ELSE Null
              row == [Idle EXCEPT !.op = "complete", !.at = "redeem", !.token = f,
                                  !.previous = previous]
  <2>1. /\ call' = [call EXCEPT ![c] = row]
        /\ {"op", "at", "text", "own"} \subseteq DOMAIN row
        /\ row.op = "complete" /\ row.at = "redeem" /\ row.own = FALSE
    <3>1. call' = [call EXCEPT ![c] = row]
      BY <1>6 DEF BeginComplete
    <3>. QED
      BY <3>1 DEF Idle
  <2>. HIDE DEF row
  <2>. QED
    <3>1. call[c].op \notin SendOps
      BY <1>5, <1>6 DEF BeginComplete
    <3>. QED
      BY <1>4, <2>1, <3>1, CallBecomes
<1>7. ASSUME NEW c \in Calls, NEW part \in Parts, BeginDisconnect(c, part)
      PROVE  AllAside
  <2>1. CASE Parts = {part}
    BY ZenonT(40), <1>3, <1>5, <1>7, <2>1, CallBecomes, Rows DEF BeginDisconnect
  <2>2. CASE Parts # {part}
    <3>. DEFINE row == [Idle EXCEPT !.op = "disconnect", !.at = "clear",
                                    !.left = Parts \ {part}]
    <3>1. /\ call' = [call EXCEPT ![c] = row]
          /\ {"op", "at", "text", "own"} \subseteq DOMAIN row
          /\ row.op = "disconnect" /\ row.at = "clear" /\ row.own = FALSE
      <4>1. call' = [call EXCEPT ![c] = row]
        BY <1>7, <2>2 DEF BeginDisconnect
      <4>. QED
        BY <4>1 DEF Idle
    <3>. HIDE DEF row
    <3>. QED
      BY <1>4, <1>5, <1>7, <3>1, CallBecomes DEF BeginDisconnect
  <2>. QED
    BY <2>1, <2>2
<1>8. ASSUME NEW c \in Calls, StoreTokens(c) \/ EndDisconnect(c)
      PROVE  AllAside
  BY <1>3, <1>5, <1>8, Finishes DEF StoreTokens, EndDisconnect
<1>9. ASSUME NEW c \in Calls, Redeem(c)
      PROVE  AllAside
  <2>1. CASE Finish(c)
    BY <1>3, <1>5, <1>9, <2>1, Finishes DEF Redeem
  <2>2. CASE call' = [call EXCEPT ![c].at = "store"]
    <3>1. /\ Moves(c) /\ call'[c].op = call[c].op /\ call'[c].own = call[c].own
          /\ call'[c].at = "store"
      BY <2>2 DEF Moves, Typed
    <3>. QED
      BY <1>4, <1>5, <1>9, <3>1 DEF Redeem
  <2>. QED
    BY <1>9, <2>1, <2>2 DEF Redeem
<1>10. ASSUME NEW c \in Calls, BeginTool(c) \/ BeginSync(c)
       PROVE  AllAside
  <2>1. PICK op \in {"tool", "sync"} : Begin(c, op, "token")
    BY <1>10 DEF BeginTool, BeginSync
  <2>. DEFINE row == [Idle EXCEPT !.op = op, !.at = "token"]
  <2>2. /\ call' = [call EXCEPT ![c] = row]
        /\ {"op", "at", "text", "own"} \subseteq DOMAIN row
        /\ row.op = op /\ row.at = "token" /\ row.own = FALSE
    BY <2>1 DEF Begin, Idle
  <2>. HIDE DEF row
  <2>. QED
    BY ZenonT(40), <1>4, <1>5, <2>1, <2>2, CallBecomes DEF Begin
<1>11. ASSUME NEW c \in Calls, ToolToken(c) \/ ToolRefresh(c) \/ SyncToken(c)
       PROVE  AllAside
  <2>1. PICK next \in {"done", "installation"} :
           /\ ReadToken(c, next) \/ Refresh(c, next)
           /\ call[c].op \in {"tool", "sync"}
    BY <1>11 DEF ToolToken, ToolRefresh, SyncToken
  <2>2. call[c].op \notin SendOps
    BY <2>1 DEF SendOps
  <2>3. /\ Moves(c)
        /\ \/ call'[c].op = "none" /\ call'[c].at = "done" /\ call'[c].own = FALSE
           \/ /\ call'[c].at \in {next, "refresh"} \ {"done"} /\ call'[c].op = call[c].op
              /\ call'[c].own = call[c].own
    BY <2>1, TokenStep
  <2>. QED
    <3>1. CASE call'[c].at = "done"
      BY <1>3, <2>1, <2>2, <2>3, <3>1
    <3>2. CASE call'[c].at # "done"
      BY <1>4, <2>1, <2>2, <2>3, <3>2
    <3>. QED
      BY <3>1, <3>2
<1>12. ASSUME NEW c \in Calls, SyncInstallation(c) \/ SyncRepository(c)
       PROVE  AllAside
  <2>1. CASE Finish(c)
    BY <1>3, <1>5, <1>12, <2>1, Finishes DEF SyncInstallation, SyncRepository
  <2>2. CASE ~Finish(c)
    <3>1. /\ Moves(c) /\ call'[c].op = call[c].op /\ call'[c].own = call[c].own
          /\ call'[c].at = "repositories"
      BY <1>12, <2>2 DEF Moves, Typed, SyncInstallation, SyncRepository
    <3>. QED
      BY <1>4, <1>5, <1>12, <3>1 DEF SyncInstallation, SyncRepository
  <2>. QED
    BY <2>1, <2>2
<1>13. AllAside
  <2>1. CASE TokenExpires \/ Webhook
    BY <1>1, <2>1 DEF TokenExpires, Webhook
  <2>. QED
    BY <2>1, <1>2, <1>6, <1>7, <1>8, <1>9, <1>10, <1>11, <1>12 DEF ConnectionsNext
<1>. QED
  BY <1>0, <1>13, AsideStep

-----------------------------------------------------------------------------
(* The steps of the review. *)

(* Nobody is sending before there is a review.                              *)
LEMMA CreateStep ==
    ASSUME Inv, CreateDraftReview \/ CreateActionReview
    PROVE  Inv'
<1>1. /\ review.status = "none" /\ call' = call /\ provider' = provider
      /\ delivered' = delivered /\ raced' = raced
      /\ delivered' = <<>>
      /\ \A c \in Calls : call[c].op \notin SendOps /\ ~call[c].own
  BY DEF Inv, PlaceOK, StatusOK, CreateDraftReview, CreateActionReview, connectionVars
<1>2. /\ {"status", "text", "draft", "simulated"} \subseteq DOMAIN review'
      /\ review'.status = "NEEDS_REVIEW" /\ review'.simulated = review.simulated
      /\ \/ provider = "GMAIL" /\ review'.draft \in {"none", "kept"}
         \/ review'.draft = review.draft
  BY DEF Inv, Typed, CreateDraftReview, CreateActionReview
<1>3. Typed' /\ \A c \in Calls : PlaceOK(c)'
  BY <1>1, <1>2 DEF Inv, Typed, PlaceOK
<1>4. StatusOK' /\ KeptOK'
  BY <1>1, <1>2 DEF Inv, Typed, StatusOK, KeptOK
<1>5. CalmOK'
  BY <1>1, <1>2 DEF CalmOK, SenderOK, UndisturbedApproval, SendOps
<1>. QED
  BY <1>3, <1>4, <1>5 DEF Inv

(* The row gets another text or is rejected, which disturbs a send.         *)
LEMMA EditStep ==
    ASSUME Inv, review.status \in Open,
           {"status", "text", "draft", "simulated"} \subseteq DOMAIN review',
           review'.status \in {"UPDATED", "REJECTED"}, review'.draft = review.draft,
           review'.simulated = review.simulated, raced' = (raced \/ Sending),
           UNCHANGED <<provider, mailbox, delivered>>, AllAside
    PROVE  Inv'
<1>1. Typed'
  BY DEF Inv, Typed, AllAside, Aside, Sending
<1>2. \A c \in Calls : PlaceOK(c)'
  BY DEF Inv, PlaceOK, AllAside, Aside, SendOps, Open
<1>3. \A c \in Calls : call'[c].own => call'[c] = call[c]
  BY DEF AllAside, Aside
<1>4. StatusOK' /\ KeptOK'
  BY <1>3 DEF Inv, StatusOK, KeptOK, Open
<1>5. CalmOK'
  <2>. SUFFICES ASSUME ~raced'
                PROVE  UndisturbedApproval' /\ \A c \in Calls : SenderOK(c)'
    BY DEF CalmOK
  <2>1. \A c \in Calls : call[c].op \notin SendOps
    BY DEF Sending, InFlight, Inv, PlaceOK, SendOps, SendPlaces
  <2>2. \A c \in Calls : call'[c].op \notin SendOps
    BY <2>1 DEF AllAside, Aside
  <2>3. delivered = <<>>
    BY <2>1 DEF Inv, CalmOK, UndisturbedApproval, SendOps, Open
  <2>. QED
    BY <2>2, <2>3 DEF SenderOK, UndisturbedApproval, SendOps
<1>. QED
  BY <1>1, <1>2, <1>4, <1>5 DEF Inv

LEMMA UserStep ==
    ASSUME Inv, UpdateReview \/ RejectReview
    PROVE  Inv'
<1>1. AllAside /\ UNCHANGED <<provider, mailbox, delivered>>
  BY DEF Inv, Typed, AllAside, Aside, UpdateReview, RejectReview, connectionVars
<1>2. /\ {"status", "text", "draft", "simulated"} \subseteq DOMAIN review'
      /\ review'.status \in {"UPDATED", "REJECTED"} /\ review'.draft = review.draft
      /\ review'.simulated = review.simulated
  BY DEF Inv, Typed, UpdateReview, RejectReview
<1>. QED
  BY <1>1, <1>2, EditStep DEF UpdateReview, RejectReview

(* The sender c moves on, ends or reworks the mailbox.                      *)
LEMMA SenderStep ==
    ASSUME Inv, NEW c \in Calls, call[c].op \in SendOps, Moves(c),
           \/ /\ call'[c].op \in SendOps /\ call'[c].own = call[c].own
              /\ call'[c].text = call[c].text
              /\ call'[c].at \in SendPlaces \ {"review"}
              /\ call'[c].op = "simulate" => call'[c].at = "mark"
              /\ call'[c].at = "mark" => call'[c].op = "simulate"
              /\ call'[c].at = "deliver" => mailbox' = call[c].text \/ call[c].own
           \/ /\ call'[c].op = "none" /\ call'[c].at = "done" /\ call'[c].own = FALSE,
           mailbox' = mailbox \/ mailbox # Null,
           UNCHANGED <<provider, review, delivered>>,
           raced' \in BOOLEAN, raced => raced',
           call[c].at = "mark" /\ call[c].op = "send" => raced'
    PROVE  Inv'
<1>1. Typed'
  BY DEF Inv, Typed, Moves
<1>2. \A d \in Calls : PlaceOK(d)'
  BY DEF Inv, PlaceOK, Moves, SendOps, SendPlaces
<1>3. StatusOK'
  BY DEF Inv, StatusOK
<1>4. KeptOK'
  BY DEF Inv, KeptOK, Moves
<1>5. CalmOK'
  <2>. SUFFICES ASSUME ~raced'
                PROVE  UndisturbedApproval' /\ \A d \in Calls : SenderOK(d)'
    BY DEF CalmOK
  <2>1. UndisturbedApproval /\ SenderOK(c) /\ \A d \in Calls : SenderOK(d)
    BY DEF Inv, CalmOK
  <2>2. \A d \in Calls \ {c} : call'[d] = call[d] /\ call[d].op \notin SendOps
    BY <2>1 DEF SenderOK, Moves
  <2>3. /\ ~\E d \in Calls : call'[d].op = "send" /\ call'[d].at = "mark"
        /\ ~\E d \in Calls : call[d].op = "send" /\ call[d].at = "mark"
    BY <2>2 DEF SendOps
  <2>4. UndisturbedApproval'
    BY <2>1, <2>3 DEF UndisturbedApproval
  <2>5. \A d \in Calls : SenderOK(d)'
    BY <2>1, <2>2 DEF SenderOK, SendOps
  <2>. QED
    BY <2>4, <2>5
<1>. QED
  BY <1>1, <1>2, <1>3, <1>4, <1>5 DEF Inv

-----------------------------------------------------------------------------
(* The steps of a send. *)

(* A send that begins while another is under way disturbs it.               *)
LEMMA BeginSendStep ==
    ASSUME Inv, NEW c \in Calls, BeginSend(c)
    PROVE  Inv'
<1>. DEFINE row == [Idle EXCEPT !.op = "send", !.at = "review", !.text = review.text,
                                !.own = (review.draft = "none")]
<1>1. /\ call' = [call EXCEPT ![c] = row]
      /\ {"op", "at", "text", "own"} \subseteq DOMAIN row
      /\ row.op = "send" /\ row.at = "review" /\ row.text = review.text
      /\ row.own = (review.draft = "none")
  BY DEF BeginSend, Idle
<1>. HIDE DEF row
<1>2. /\ Moves(c) /\ call'[c].op = "send" /\ call'[c].at = "review"
      /\ call'[c].text = review.text /\ call'[c].own = (review.draft = "none")
  BY <1>1, CallBecomes DEF Inv
<1>3. /\ review.status \in Open /\ raced' = (raced \/ Sending)
      /\ UNCHANGED <<provider, review, mailbox, delivered>>
  BY DEF BeginSend
<1>4. Typed'
  BY <1>2, <1>3 DEF Inv, Typed, Moves, Sending
<1>5. \A d \in Calls : PlaceOK(d)'
  BY <1>2, <1>3 DEF Inv, PlaceOK, Moves, SendOps, SendPlaces, Open
<1>6. StatusOK' /\ KeptOK'
  BY <1>2, <1>3 DEF Inv, StatusOK, KeptOK, Moves
<1>7. CalmOK'
  <2>. SUFFICES ASSUME ~raced'
                PROVE  UndisturbedApproval' /\ \A d \in Calls : SenderOK(d)'
    BY DEF CalmOK
  <2>1. \A d \in Calls : call[d].op \notin SendOps
    BY <1>3 DEF Sending, InFlight, Inv, PlaceOK, SendOps, SendPlaces
  <2>2. delivered = <<>>
    BY <1>3, <2>1 DEF Inv, CalmOK, UndisturbedApproval, SendOps, Open
  <2>3. UndisturbedApproval'
    BY <1>2, <1>3, <2>1, <2>2 DEF UndisturbedApproval, SendOps, Moves, Open
  <2>4. \A d \in Calls : SenderOK(d)'
    BY <1>2, <1>3, <2>1 DEF SenderOK, Moves, Open
  <2>. QED
    BY <2>3, <2>4
<1>. QED
  BY <1>4, <1>5, <1>6, <1>7 DEF Inv

(* The steps up to the delivery.                                            *)
LEMMA PrepareStep ==
    ASSUME Inv, NEW c \in Calls,
           CheckConnection(c) \/ CheckRepository(c) \/ PrepareDraft(c)
    PROVE  Inv'
<1>1. /\ call[c].op = "send" /\ call[c].at \in {"review", "draft"}
      /\ UNCHANGED <<provider, review, delivered>> /\ raced' = raced /\ raced' \in BOOLEAN
  BY DEF Inv, Typed, PlaceOK, CheckConnection, CheckRepository, PrepareDraft, reviewVars
<1>2. ASSUME mailbox' = mailbox, Finish(c)
      PROVE  Inv'
  BY <1>1, <1>2, Finishes, SenderStep DEF Inv, SendOps
<1>3. ASSUME call' = [call EXCEPT ![c].at = "token"], mailbox' = mailbox
      PROVE  Inv'
  <2>1. /\ Moves(c) /\ call'[c].op = call[c].op /\ call'[c].own = call[c].own
        /\ call'[c].text = call[c].text /\ call'[c].at = "token"
    BY <1>3 DEF Inv, Typed, Moves
  <2>. QED
    BY <1>1, <1>3, <2>1, SenderStep DEF SendOps, SendPlaces
<1>4. CASE CheckConnection(c)
  <2>1. CASE connection.mock
    <3>1. call' = [call EXCEPT ![c].op = "simulate", ![c].at = "mark"]
      BY <1>4, <2>1 DEF CheckConnection
    <3>2. /\ Moves(c) /\ call'[c].op = "simulate" /\ call'[c].own = call[c].own
          /\ call'[c].text = call[c].text /\ call'[c].at = "mark"
      BY <3>1 DEF Inv, Typed, Moves
    <3>3. mailbox' = mailbox
      BY <1>4 DEF CheckConnection, reviewVars
    <3>. QED
      BY <1>1, <3>2, <3>3, SenderStep DEF SendOps, SendPlaces
  <2>. QED
    BY <1>3, <1>4, <2>1 DEF CheckConnection, reviewVars
<1>5. CASE CheckRepository(c)
  BY <1>2, <1>3, <1>5 DEF CheckRepository, reviewVars
<1>6. CASE PrepareDraft(c)
  <2>1. CASE Finish(c) /\ mailbox' = mailbox
    BY <1>2, <2>1
  <2>2. CASE /\ call' = [call EXCEPT ![c].at = "deliver"]
             /\ \/ call[c].own /\ mailbox' = mailbox
                \/ mailbox # Null /\ mailbox' = call[c].text
    <3>1. /\ Moves(c) /\ call'[c].op = call[c].op /\ call'[c].own = call[c].own
          /\ call'[c].text = call[c].text /\ call'[c].at = "deliver"
      BY <2>2 DEF Inv, Typed, Moves
    <3>. QED
      BY <1>1, <2>2, <3>1, SenderStep DEF SendOps, SendPlaces
  <2>. QED
    BY <1>6, <2>1, <2>2 DEF PrepareDraft
<1>. QED
  BY <1>4, <1>5, <1>6

(* The token is read or refreshed, for a send or for a revision.            *)
LEMMA SendTokenStep ==
    ASSUME Inv, NEW c \in Calls, SendToken(c) \/ SendRefresh(c)
    PROVE  Inv'
<1>1. /\ call[c].op \in {"send", "revise"} /\ UNCHANGED reviewVars /\ provider' = provider
      /\ ReadToken(c, "draft") \/ Refresh(c, "draft")
  BY DEF SendToken, SendRefresh
<1>2. /\ Moves(c) /\ call[c].at \in {"token", "refresh"}
      /\ \/ call'[c].op = "none" /\ call'[c].at = "done" /\ call'[c].own = FALSE
         \/ /\ call'[c].at \in {"draft", "refresh"} /\ call'[c].op = call[c].op
            /\ call'[c].own = call[c].own /\ call'[c].text = call[c].text
  BY <1>1, TokenStep DEF Inv
<1>3. /\ review' = review /\ mailbox' = mailbox /\ delivered' = delivered
      /\ raced' = raced /\ raced' \in BOOLEAN
  BY <1>1 DEF reviewVars, Inv, Typed
<1>4. CASE call[c].op = "send"
  BY <1>1, <1>2, <1>3, <1>4, SenderStep DEF SendOps, SendPlaces
<1>5. CASE call[c].op = "revise"
  <2>1. call[c].own = FALSE /\ provider = "GMAIL"
    BY <1>5 DEF Inv, Typed, PlaceOK, SendOps
  <2>2. AllAside
    BY <1>2, <1>5, <2>1, OneAside DEF SendOps
  <2>. QED
    BY <1>1, <1>3, <2>2, AsideStep
<1>. QED
  BY <1>1, <1>4, <1>5

(* The provider gets the text.                                              *)
LEMMA DeliverStep ==
    ASSUME Inv, NEW c \in Calls, call[c].op = "send", call[c].at \in {"draft", "deliver"},
           NEW text, Delivered(c, text), ~raced => text = review.text,
           review.draft = "kept" => mailbox # Null /\ mailbox' = Null,
           UNCHANGED <<provider, review, raced>>
    PROVE  Inv'
<1>. DEFINE delivery == [text |-> text, approved |-> call[c].text]
<1>1. /\ Moves(c) /\ call'[c].op = "send" /\ call'[c].at = "mark"
      /\ call'[c].own = call[c].own /\ call'[c].text = call[c].text
  BY DEF Inv, Typed, Moves, Delivered
<1>2. delivered' = Append(delivered, delivery)
  BY DEF Delivered
<1>. HIDE DEF delivery
<1>3. delivered = <<>> => delivered' = <<delivery>>
  BY <1>2
<1>4. Typed'
  BY <1>1 DEF Inv, Typed, Moves
<1>5. \A d \in Calls : PlaceOK(d)'
  BY <1>1 DEF Inv, PlaceOK, Moves, SendOps, SendPlaces
<1>6. StatusOK'
  BY DEF Inv, StatusOK, PlaceOK, SendOps
<1>7. KeptOK'
  BY <1>1, <1>3 DEF Inv, KeptOK, Moves
<1>8. CalmOK'
  <2>. SUFFICES ASSUME ~raced'
                PROVE  UndisturbedApproval' /\ \A d \in Calls : SenderOK(d)'
    BY DEF CalmOK
  <2>1. ~raced /\ UndisturbedApproval /\ SenderOK(c)
    BY DEF Inv, CalmOK
  <2>2. \A d \in Calls \ {c} : call[d].op \notin SendOps /\ call'[d].op \notin SendOps
    BY <1>1, <2>1 DEF SenderOK, Moves, SendOps
  <2>3. delivered = <<>>
    BY <2>1, <2>2 DEF UndisturbedApproval, SenderOK, SendOps, Open
  <2>4. delivery = [text |-> review.text, approved |-> review.text]
    BY <2>1 DEF delivery, SenderOK, SendOps
  <2>5. UndisturbedApproval'
    BY <1>1, <1>3, <2>3, <2>4 DEF UndisturbedApproval
  <2>6. \A d \in Calls : SenderOK(d)'
    BY <1>1, <2>1, <2>2 DEF SenderOK, SendOps
  <2>. QED
    BY <2>5, <2>6
<1>. QED
  BY <1>4, <1>5, <1>6, <1>7, <1>8 DEF Inv

LEMMA SendStep ==
    ASSUME Inv, NEW c \in Calls, SendDraft(c) \/ PostAction(c)
    PROVE  Inv'
<1>1. call[c].op = "send" /\ UNCHANGED <<provider, review, raced>>
  BY DEF Inv, PlaceOK, SendDraft, PostAction
<1>2. ~raced => SenderOK(c)
  BY DEF Inv, CalmOK
<1>3. review.draft = "kept" => ~call[c].own
  BY DEF Inv, KeptOK
<1>4. CASE PostAction(c)
  <2>1. review.draft = "none"
    BY <1>4 DEF PostAction, Inv, StatusOK
  <2>. QED
    BY <1>1, <1>2, <1>4, <2>1, DeliverStep DEF PostAction, SenderOK, SendOps
<1>5. CASE SendDraft(c)
  <2>1. CASE call[c].own
    BY <1>1, <1>2, <1>3, <1>5, <2>1, DeliverStep DEF SendDraft, SenderOK, SendOps
  <2>2. CASE ~call[c].own /\ mailbox # Null
    BY <1>1, <1>2, <1>5, <2>2, DeliverStep DEF SendDraft, SenderOK, SendOps
  <2>3. CASE ~call[c].own /\ mailbox = Null
    <3>1. /\ Moves(c) /\ call'[c].op = "none" /\ call'[c].at = "done"
          /\ call'[c].own = FALSE /\ mailbox' = mailbox /\ delivered' = delivered
      BY <1>5, <2>3, Finishes DEF Inv, SendDraft
    <3>2. raced' = raced /\ raced' \in BOOLEAN /\ call[c].at = "deliver"
      BY <1>1, <1>5 DEF Inv, Typed, SendDraft
    <3>3. /\ call[c].op \in SendOps /\ (raced => raced')
          /\ UNCHANGED <<provider, review, delivered>>
      BY <1>1, <3>1, <3>2 DEF SendOps
    <3>4. /\ mailbox' = mailbox \/ mailbox # Null
          /\ call[c].at = "mark" /\ call[c].op = "send" => raced'
      BY <3>1, <3>2
    <3>. QED
      BY <3>1, <3>2, <3>3, <3>4, SenderStep
  <2>. QED
    BY <2>1, <2>2, <2>3
<1>. QED
  BY <1>4, <1>5

(* The row learns of the delivery, unless it has been decided meanwhile.    *)
LEMMA MarkStep ==
    ASSUME Inv, NEW c \in Calls, MarkSent(c)
    PROVE  Inv'
<1>1. /\ call[c].at = "mark" /\ call[c].op \in SendOps /\ review.status # "none"
      /\ UNCHANGED <<provider, mailbox, delivered, raced>>
  BY DEF Inv, PlaceOK, MarkSent
<1>2. /\ Moves(c) /\ call'[c].op = "none" /\ call'[c].at = "done" /\ call'[c].own = FALSE
  BY Finishes DEF Inv, MarkSent
<1>3. \/ review.status \notin Open /\ review' = review
      \/ /\ {"status", "text", "draft", "simulated"} \subseteq DOMAIN review'
         /\ review.status \in Open
         /\ review'.status = "SENT" /\ review'.text = review.text
         /\ review'.simulated = (call[c].op = "simulate")
         /\ \/ review'.draft = review.draft
            \/ provider = "GMAIL" /\ review.draft = "none" /\ review'.draft = "new"
  BY DEF Inv, Typed, MarkSent
<1>4. Typed'
  BY <1>1, <1>2, <1>3 DEF Inv, Typed, Moves
<1>5. \A d \in Calls : PlaceOK(d)'
  BY <1>1, <1>2, <1>3 DEF Inv, PlaceOK, Moves, SendOps
<1>6. StatusOK' /\ KeptOK'
  BY <1>1, <1>2, <1>3 DEF Inv, StatusOK, KeptOK, Moves
<1>7. CalmOK'
  <2>. SUFFICES ASSUME ~raced'
                PROVE  UndisturbedApproval' /\ \A d \in Calls : SenderOK(d)'
    BY DEF CalmOK
  <2>1. ~raced /\ UndisturbedApproval /\ SenderOK(c)
    BY <1>1 DEF Inv, CalmOK
  <2>2. \A d \in Calls \ {c} : call[d].op \notin SendOps
    BY <1>1, <2>1 DEF SenderOK
  <2>3. \A d \in Calls : call'[d].op \notin SendOps
    BY <1>2, <2>2 DEF Moves, SendOps
  <2>4. review.status \in Open
    BY <1>1, <2>1 DEF SenderOK
  <2>5. \A d \in Calls : SenderOK(d)'
    BY <2>3 DEF SenderOK
  <2>6. CASE call[c].op = "send"
    BY <1>1, <1>3, <2>1, <2>3, <2>4, <2>5, <2>6 DEF UndisturbedApproval, SendOps
  <2>7. CASE call[c].op = "simulate"
    <3>1. ~\E d \in Calls : call[d].op = "send" /\ call[d].at = "mark"
      BY <2>2, <2>7 DEF SendOps
    <3>2. delivered = <<>>
      BY <2>1, <2>4, <3>1 DEF UndisturbedApproval, Open
    <3>. QED
      BY <1>1, <1>3, <2>3, <2>4, <2>5, <2>7, <3>2 DEF UndisturbedApproval, SendOps
  <2>. QED
    BY <1>1, <2>6, <2>7 DEF SendOps
<1>. QED
  BY <1>4, <1>5, <1>6, <1>7 DEF Inv

-----------------------------------------------------------------------------
(* The steps of the agent's revision, and of a call that breaks off. *)

LEMMA BeginReviseStep ==
    ASSUME Inv, NEW c \in Calls, BeginRevise(c)
    PROVE  Inv'
<1>. DEFINE row == [Idle EXCEPT !.op = "revise", !.at = "token", !.text = texts']
<1>1. /\ call' = [call EXCEPT ![c] = row]
      /\ {"op", "at", "text", "own"} \subseteq DOMAIN row
      /\ row.op = "revise" /\ row.at = "token" /\ row.own = FALSE
  BY DEF BeginRevise, Idle
<1>. HIDE DEF row
<1>2. /\ Moves(c) /\ call'[c].op = "revise" /\ call'[c].at = "token" /\ call'[c].own = FALSE
  BY <1>1, CallBecomes DEF Inv
<1>3. /\ provider = "GMAIL" /\ call[c].at = "idle"
      /\ UNCHANGED <<provider, review, mailbox, delivered>>
      /\ raced' \in BOOLEAN /\ (raced => raced')
  BY DEF BeginRevise, Inv, Typed
<1>4. call[c].op \notin SendOps
  BY <1>3 DEF Inv, PlaceOK, SendPlaces
<1>5. AllAside
  BY <1>2, <1>3, <1>4, OneAside DEF SendOps
<1>. QED
  BY <1>3, <1>5, AsideStep

(* A revision that ends, or has changed the mailbox, is aside of the sends. *)
LEMMA ReviserAside ==
    ASSUME Inv, NEW c \in Calls, call[c].op \notin SendOps,
           Finish(c) \/ call' = [call EXCEPT ![c].at = "edit"]
    PROVE  AllAside
<1>1. CASE Finish(c)
  BY <1>1, Finishes, OneAside DEF Inv, SendOps
<1>2. CASE call' = [call EXCEPT ![c].at = "edit"]
  <2>1. Moves(c) /\ call'[c].op = call[c].op /\ call'[c].own = call[c].own /\ call'[c].at = "edit"
    BY <1>2 DEF Inv, Typed, Moves
  <2>2. call[c].own = FALSE /\ (call[c].op = "revise" => provider = "GMAIL")
    BY DEF Inv, Typed, PlaceOK
  <2>. QED
    BY <2>1, <2>2, OneAside
<1>. QED
  BY <1>1, <1>2

LEMMA ReviseDraftStep ==
    ASSUME Inv, NEW c \in Calls, ReviseDraft(c)
    PROVE  Inv'
<1>1. /\ AllAside /\ UNCHANGED <<provider, review, delivered>>
  BY ReviserAside DEF ReviseDraft, SendOps
<1>2. CASE mailbox' = mailbox /\ raced' = raced
  BY <1>1, <1>2, AsideStep DEF Inv, Typed
<1>3. CASE mailbox # Null /\ raced' = (raced \/ Sending)
  <2>1. Typed'
    BY <1>1, <1>3 DEF Inv, Typed, AllAside, Aside, Sending
  <2>2. \A d \in Calls : PlaceOK(d)'
    BY <1>1 DEF Inv, PlaceOK, AllAside, Aside, SendOps
  <2>3. \A d \in Calls : call'[d].own => call'[d] = call[d]
    BY <1>1 DEF AllAside, Aside
  <2>4. StatusOK' /\ KeptOK'
    BY <1>1, <1>3, <2>3 DEF Inv, StatusOK, KeptOK
  <2>5. CalmOK'
    <3>. SUFFICES ASSUME ~raced'
                  PROVE  UndisturbedApproval' /\ \A d \in Calls : SenderOK(d)'
      BY DEF CalmOK
    <3>1. \A d \in Calls : call[d].op \notin SendOps
      BY <1>3 DEF Sending, InFlight, Inv, PlaceOK, SendOps, SendPlaces
    <3>2. \A d \in Calls : call'[d].op \notin SendOps
      BY <1>1, <3>1 DEF AllAside, Aside
    <3>3. ~raced /\ UndisturbedApproval
      BY <1>3 DEF Inv, CalmOK
    <3>4. UndisturbedApproval'
      BY <1>1, <3>1, <3>2, <3>3 DEF UndisturbedApproval, SendOps
    <3>. QED
      BY <3>2, <3>4 DEF SenderOK
  <2>. QED
    BY <2>1, <2>2, <2>4, <2>5 DEF Inv
<1>. QED
  BY <1>2, <1>3 DEF ReviseDraft

LEMMA ReviseRowStep ==
    ASSUME Inv, NEW c \in Calls, ReviseRow(c)
    PROVE  Inv'
<1>1. call[c].op \notin SendOps
  BY DEF ReviseRow, Inv, PlaceOK, SendPlaces
<1>2. AllAside /\ UNCHANGED <<provider, mailbox, delivered>>
  BY <1>1, ReviserAside DEF ReviseRow
<1>3. CASE review.status \in Open
  <2>1. /\ {"status", "text", "draft", "simulated"} \subseteq DOMAIN review'
        /\ review'.status = "UPDATED" /\ review'.draft = review.draft
        /\ review'.simulated = review.simulated /\ raced' = (raced \/ Sending)
    BY <1>3 DEF Inv, Typed, ReviseRow
  <2>. QED
    BY <1>2, <1>3, <2>1, EditStep
<1>4. CASE review.status \notin Open
  BY <1>2, <1>4, AsideStep DEF ReviseRow, Inv, Typed
<1>. QED
  BY <1>3, <1>4

LEMMA BreakOffStep ==
    ASSUME Inv, NEW c \in Calls, BreakOff(c)
    PROVE  Inv'
<1>1. /\ Moves(c) /\ call'[c].op = "none" /\ call'[c].at = "done" /\ call'[c].own = FALSE
      /\ provider' = provider /\ review' = review
      /\ mailbox' = mailbox /\ delivered' = delivered
      /\ raced' = (raced \/ (call[c].op = "send" /\ call[c].at = "mark"))
  BY Finishes DEF BreakOff, Abandon, Inv
<1>2. raced' \in BOOLEAN /\ (raced => raced')
  BY <1>1 DEF Inv, Typed
<1>3. CASE call[c].op \in SendOps
  BY <1>1, <1>2, <1>3, SenderStep
<1>4. CASE call[c].op \notin SendOps
  <2>1. AllAside
    BY <1>4, ReviserAside DEF BreakOff, Abandon
  <2>. QED
    BY <1>1, <1>2, <2>1, AsideStep
<1>. QED
  BY <1>3, <1>4

-----------------------------------------------------------------------------
LEMMA InvInit ==
    ASSUME Init
    PROVE  Inv
<1>1. /\ call = [c \in Calls |-> Idle] /\ provider \in {"GMAIL", "GITHUB"}
      /\ review = [status |-> "none", text |-> 0, draft |-> "none",
                   repository |-> Null, simulated |-> FALSE]
      /\ delivered = <<>> /\ raced = FALSE
  BY DEF Init, ConnectionsInit
<1>2. /\ {"op", "at", "text", "own"} \subseteq DOMAIN Idle
      /\ Idle.op = "none" /\ Idle.at = "idle" /\ Idle.own = FALSE
  BY DEF Idle
<1>3. \A c \in Calls : call[c] = Idle
  BY <1>1
<1>4. Typed /\ StatusOK /\ KeptOK
  BY <1>1, <1>2, <1>3 DEF Typed, StatusOK, KeptOK
<1>5. \A c \in Calls : PlaceOK(c) /\ SenderOK(c)
  BY <1>2, <1>3 DEF PlaceOK, SenderOK, SendOps
<1>6. UndisturbedApproval
  BY <1>1, <1>2, <1>3 DEF UndisturbedApproval
<1>. QED
  BY <1>4, <1>5, <1>6 DEF Inv, CalmOK

LEMMA InvNext ==
    ASSUME Inv, [Next]_vars
    PROVE  Inv'
<1>1. CASE UNCHANGED vars
  <2>1. /\ call' = call /\ UNCHANGED <<provider, review, mailbox, delivered>>
        /\ raced' = raced
    BY <1>1 DEF vars, connectionVars, reviewVars
  <2>. QED
    BY <2>1, AsideStep DEF AllAside, Aside, Inv, Typed
<1>2. CASE ConnectionsNext /\ UNCHANGED reviewVars
  BY <1>2, ConnectionStep
<1>3. CASE ReviewNext
  BY <1>3, CreateStep, UserStep, BeginSendStep, PrepareStep, SendTokenStep, SendStep, MarkStep,
     BeginReviseStep, ReviseDraftStep, ReviseRowStep, BreakOffStep DEF ReviewNext
<1>. QED
  BY <1>1, <1>2, <1>3 DEF Next

(* The inductive invariant: a call's place tells what it does, and a send   *)
(* that nothing has disturbed is alone and works on the row's own text.     *)
THEOREM Invariance == Spec => []Inv
BY InvInit, InvNext, PTL DEF Spec

(* Whatever the agent, the users and the connection do, a review that       *)
(* nothing disturbed has delivered the text it shows, once if it was sent   *)
(* and not at all before.                                                   *)
THEOREM ApprovedIsDelivered == Spec => []UndisturbedApproval
<1>1. Inv => UndisturbedApproval
  BY DEF Inv, CalmOK, UndisturbedApproval
<1>. QED
  BY <1>1, Invariance, PTL

(* A review made with its Gmail draft is mailed once at most, however many  *)
(* sends race and however often one of them breaks off.                     *)
THEOREM KeptDraftsAreSentOnce == Spec => []KeptDraftSentOnce
<1>1. Inv => KeptDraftSentOnce
  <2>1. \A x : Len(<<x>>) <= 1
    OBVIOUS
  <2>2. Len(<<>>) <= 1
    OBVIOUS
  <2>. QED
    BY <2>1, <2>2 DEF Inv, KeptOK, KeptDraftSentOnce
<1>. QED
  BY <1>1, Invariance, PTL

(* No edit, revision or late mark changes a review once it was sent or      *)
(* rejected: sendDraftReview() and the updates all ask for an open one.     *)
THEOREM DecisionsAreFinal == Spec => DecisionIsFinal
<1>1. [Next]_vars => [review.status \in {"SENT", "REJECTED"} => review' = review]_vars
  BY DEF Next, ReviewNext, vars, reviewVars, Open, CreateDraftReview, CreateActionReview,
     UpdateReview, RejectReview, BeginSend, CheckConnection, CheckRepository, SendToken,
     SendRefresh, PrepareDraft, SendDraft, PostAction, MarkSent, BeginRevise, ReviseDraft,
     ReviseRow, BreakOff
<1>. QED
  BY <1>1, PTL DEF Spec, DecisionIsFinal

-----------------------------------------------------------------------------
(* The connection, whatever the reviews do with it. *)

(* Where a call stands in the connection tells what it does.                *)
PartOK(c) ==
    /\ call[c].op = "sync" => provider = "GITHUB"
    /\ call[c].at \in {"installation", "repositories"} => call[c].op = "sync"
    /\ call[c].op = "disconnect" <=> call[c].at = "clear"
    /\ call[c].at = "clear" => call[c].left \in {{"connection"}, {"installations"}}

(* A flow's code is good once, and whoever waits to store its tokens is the *)
(* only one who had it.                                                     *)
CodesOK ==
    /\ \A f \in Flows : flow[f].code => flow[f].at = "returned"
    /\ \A f \in stored : flow[f].at = "returned" /\ ~flow[f].code
    /\ \A c \in Calls : call[c].at \in {"redeem", "store"} =>
                          flow[call[c].token].at = "returned"
    /\ \A c \in Calls : call[c].at = "store" => ~flow[call[c].token].code
    /\ ConsentStoredOnce

(* Every token in the row or in the hands of a call that will write it back *)
(* was stored, and what a disconnect cleared was stored before.             *)
TokensOK ==
    /\ older \subseteq stored
    /\ {connection.access, connection.refresh} \subseteq stored \cup {Null}
    /\ connection.status = "CONNECTED" => connection.access # Null
    /\ \A c \in Calls : /\ call[c].previous \in stored \cup {Null}
                        /\ call[c].at = "refresh" => call[c].token \in stored
    /\ provider = "GMAIL" => \A x \in Repositories : listing[x] = Null

(* The call c will not bring back what was cleared, and a Gmail refresh     *)
(* still has its refresh token.                                             *)
HandsOK(c) ==
    /\ call[c].at \in {"refresh", "installation", "repositories"} => call[c].token \notin older
    /\ call[c].at \in {"redeem", "store"} => call[c].previous \notin older
    /\ call[c].at = "refresh" /\ provider = "GMAIL" => connection.refresh # Null

(* A disconnect that is half done is alone, and has cleared the other half. *)
HalfOK(c) ==
    call[c].at = "clear" =>
      /\ \A d \in Calls : InFlight(d) => d = c
      /\ \/ call[c].left = {"connection"} /\ \A x \in Repositories : listing[x] = Null
         \/ /\ call[c].left = {"installations"}
            /\ connection.access = Null /\ connection.refresh = Null

(* The row of a connected provider keeps the token its calls ask for.       *)
TokenKept == ~disturbed /\ connection.status = "CONNECTED" => HasToken

CalmConnection ==
    ~disturbed =>
      /\ \A c \in Calls : HandsOK(c) /\ HalfOK(c)
      /\ DisconnectSticks /\ TokenKept

ConnectionInv ==
    /\ TypeOK /\ CodesOK /\ TokensOK /\ CalmConnection
    /\ \A c \in Calls : PartOK(c)

-----------------------------------------------------------------------------
(* The types of the rows, the flows and the calls. *)

(* The tokens a call needs are there, and its text is a number.             *)
CallsOK(calls) ==
    /\ calls \in [Calls -> Call]
    /\ \A c \in Calls : /\ calls[c].at \in {"redeem", "store", "refresh",
                                           "installation", "repositories"} =>
                             calls[c].token \in Flows
                        /\ calls[c].text \in 0 .. MaxTexts

LEMMA TypeParts ==
    TypeOK <=>
      /\ provider \in {"GMAIL", "GITHUB"} /\ connection \in Connection
      /\ installation \in {"none", "ACTIVE", "INACTIVE"}
      /\ listing \in [Repositories -> Tokens] /\ flow \in [Flows -> Flow]
      /\ CallsOK(call)
      /\ stored \subseteq Flows /\ older \subseteq Flows /\ disturbed \in BOOLEAN
      /\ review \in Review /\ mailbox \in (0 .. MaxTexts) \cup {Null}
      /\ delivered \in Seq(Delivery) /\ texts \in 0 .. MaxTexts /\ raced \in BOOLEAN
BY DEF TypeOK, ConnectionsTypeOK, CallsOK

LEMMA OneCall ==
    ASSUME CallsOK(call), NEW c \in Calls, NEW row \in Call, row.text \in 0 .. MaxTexts,
           row.at \in {"redeem", "store", "refresh", "installation", "repositories"} =>
             row.token \in Flows,
           call' = [call EXCEPT ![c] = row]
    PROVE  CallsOK(call')
BY DEF CallsOK

LEMMA NewRows ==
    /\ Idle \in Call /\ Idle.text \in 0 .. MaxTexts /\ Idle.at = "idle" /\ Idle.op = "none"
    /\ Over \in Call /\ Over.text \in 0 .. MaxTexts /\ Over.at = "done" /\ Over.op = "none"
<1>1. Idle \in Call /\ Idle.text = 0 /\ Idle.at = "idle" /\ Idle.op = "none"
  BY DEF Idle, Call, PCs, Tokens
<1>2. Over \in Call /\ Over.text = 0 /\ Over.at = "done" /\ Over.op = "none"
  BY <1>1 DEF Over, Call, PCs
<1>3. 0 \in 0 .. MaxTexts
  BY MaxTextsAssumption
<1>. QED
  BY <1>1, <1>2, <1>3

LEMMA FinishTyped ==
    ASSUME CallsOK(call), NEW c \in Calls, Finish(c)
    PROVE  CallsOK(call')
BY OneCall, NewRows DEF Finish

LEMMA GoOnTyped ==
    ASSUME CallsOK(call), NEW c \in Calls, NEW next \in PCs, NEW token \in Flows,
           GoOn(c, next, token)
    PROVE  CallsOK(call')
<1>1. CASE next = "done"
  BY <1>1, FinishTyped DEF GoOn
<1>2. CASE next # "done"
  <2>. DEFINE row == [call[c] EXCEPT !.at = next, !.token = IF next = "draft" THEN Null ELSE token]
  <2>1. call' = [call EXCEPT ![c] = row]
    BY <1>2 DEF GoOn, CallsOK
  <2>2. /\ row \in Call /\ row.text \in 0 .. MaxTexts
        /\ row.at = next /\ (next # "draft" => row.token = token)
    BY DEF CallsOK, Call, Tokens
  <2>. HIDE DEF row
  <2>. QED
    BY <2>1, <2>2, OneCall
<1>. QED
  BY <1>1, <1>2

LEMMA TokenTyped ==
    ASSUME TypeOK, NEW c \in Calls, NEW next \in PCs, ReadToken(c, next) \/ Refresh(c, next)
    PROVE  CallsOK(call')
<1>0. connection.access \in Tokens /\ connection.refresh \in Tokens /\ CallsOK(call)
  BY TypeParts DEF Connection
<1>1. CASE ReadToken(c, next)
  BY <1>0, <1>1, FinishTyped, GoOnTyped DEF ReadToken, HasToken, Usable, Refreshes, Tokens, PCs
<1>2. CASE Refresh(c, next)
  BY <1>0, <1>2, GoOnTyped DEF Refresh, CallsOK
<1>. QED
  BY <1>1, <1>2

LEMMA TypesKept ==
    ASSUME provider' \in {"GMAIL", "GITHUB"}, connection' \in Connection,
           installation' \in {"none", "ACTIVE", "INACTIVE"},
           listing' \in [Repositories -> Tokens], flow' \in [Flows -> Flow], CallsOK(call'),
           stored' \subseteq Flows, older' \subseteq Flows, disturbed' \in BOOLEAN,
           review' \in Review, mailbox' \in (0 .. MaxTexts) \cup {Null},
           delivered' \in Seq(Delivery), texts' \in 0 .. MaxTexts, raced' \in BOOLEAN
    PROVE  TypeOK'
BY DEF TypeOK, ConnectionsTypeOK, CallsOK

LEMMA UpsertTyped ==
    ASSUME NEW access \in Tokens, NEW refresh \in Tokens, NEW mock \in BOOLEAN,
           NEW expiry \in Expiries, UpsertConnection(access, refresh, expiry, mock)
    PROVE  connection' \in Connection
BY DEF UpsertConnection, Connection

LEMMA ExpiriesTyped ==
    {NullExpiry, "good", "due", "past"} \subseteq Expiries /\ GrantedExpiries \subseteq Expiries
BY DEF NullExpiry, GrantedExpiries, Expiries

LEMMA ConnectionsTyped ==
    ASSUME TypeOK, ConnectionsNext, UNCHANGED reviewVars
    PROVE  TypeOK'
<1>0. /\ provider \in {"GMAIL", "GITHUB"} /\ connection \in Connection
      /\ installation \in {"none", "ACTIVE", "INACTIVE"}
      /\ listing \in [Repositories -> Tokens] /\ flow \in [Flows -> Flow] /\ CallsOK(call)
      /\ stored \subseteq Flows /\ older \subseteq Flows /\ disturbed \in BOOLEAN
  BY TypeParts
<1>1. UNCHANGED <<provider, review, mailbox, delivered, texts, raced>>
  BY DEF ConnectionsNext, reviewVars, Connect, Consent, FlowLost, ConnectDevMock,
     BeginComplete, BeginDisconnect, Redeem, StoreTokens, EndDisconnect, BeginTool, ToolToken,
     ToolRefresh, BeginSync, SyncToken, SyncInstallation, SyncRepository, TokenExpires, Webhook
<1>k. ASSUME connection' \in Connection, installation' \in {"none", "ACTIVE", "INACTIVE"},
             listing' \in [Repositories -> Tokens], flow' \in [Flows -> Flow], CallsOK(call'),
             stored' \subseteq Flows, older' \subseteq Flows, disturbed' \in BOOLEAN
      PROVE  TypeOK'
  BY <1>1, <1>k, TypeParts, TypesKept
<1>2. ASSUME NEW f \in Flows, Connect(f) \/ Consent(f) \/ FlowLost(f) \/ ConnectDevMock(f)
      PROVE  TypeOK'
  <2>1. flow' \in [Flows -> Flow]
    <3>1. CASE Connect(f)
      BY <1>0, <3>1, DeploymentAssumption DEF Connect, Flow
    <3>2. CASE Consent(f)
      BY <1>0, <3>2 DEF Consent, Flow
    <3>3. CASE FlowLost(f)
      BY ZenonT(40), <1>0, <3>3 DEF FlowLost, Flow
    <3>4. CASE ConnectDevMock(f)
      BY <1>0, <3>4 DEF ConnectDevMock, Flow
    <3>. QED
      BY <1>2, <3>1, <3>2, <3>3, <3>4
  <2>2. /\ call' = call /\ connection' \in Connection /\ stored' \subseteq Flows
        /\ installation' = installation /\ listing' = listing /\ older' = older
        /\ disturbed' \in BOOLEAN
    <3>1. CASE ConnectDevMock(f)
      <4>1. connection' \in Connection
        BY <3>1, UpsertTyped, ExpiriesTyped DEF ConnectDevMock, Tokens
      <4>. QED
        BY <1>0, <3>1, <4>1 DEF ConnectDevMock, Disconnecting, InFlight
    <3>2. CASE Connect(f) \/ Consent(f) \/ FlowLost(f)
      BY <1>0, <3>2 DEF Connect, Consent, FlowLost, rows, history
    <3>. QED
      BY <1>2, <3>1, <3>2
  <2>. QED
    BY <1>0, <1>k, <2>1, <2>2 DEF CallsOK
<1>3. ASSUME NEW c \in Calls, NEW f \in Flows, BeginComplete(c, f)
      PROVE  TypeOK'
  <2>1. CallsOK(call')
    <3>. DEFINE previous == IF provider = "GMAIL" THEN connection.refresh ELSE Null
                row == [Idle EXCEPT !.op = "complete", !.at = "redeem", !.token = f,
                                    !.previous = previous]
    <3>1. previous \in Tokens
      BY <1>0 DEF Connection, Tokens
    <3>2. row \in Call /\ row.text \in 0 .. MaxTexts /\ row.token = f
      BY <3>1, NewRows DEF Call, PCs, Tokens
    <3>3. call' = [call EXCEPT ![c] = row]
      BY <1>3 DEF BeginComplete
    <3>. HIDE DEF row
    <3>. QED
      BY <1>0, <3>2, <3>3, OneCall
  <2>2. disturbed' \in BOOLEAN
    BY <1>0, <1>3 DEF BeginComplete, Disconnecting, InFlight
  <2>. QED
    BY <1>0, <1>k, <1>3, <2>1, <2>2 DEF BeginComplete, rows
<1>4. ASSUME NEW part \in Parts, ClearPart(part)
      PROVE  /\ connection' \in Connection /\ listing' \in [Repositories -> Tokens]
             /\ installation' \in {"none", "ACTIVE", "INACTIVE"} /\ older' \subseteq Flows
  BY <1>0, <1>4, ExpiriesTyped
  DEF ClearPart, ClearConnection, ClearInstallations, Connection, Tokens
<1>5. ASSUME NEW c \in Calls, NEW part \in Parts, BeginDisconnect(c, part)
      PROVE  TypeOK'
  <2>1. CallsOK(call')
    <3>1. CASE Parts = {part}
      BY <1>0, <1>5, <3>1, FinishTyped DEF BeginDisconnect, Finish
    <3>2. CASE Parts # {part}
      <4>. DEFINE row == [Idle EXCEPT !.op = "disconnect", !.at = "clear",
                                      !.left = Parts \ {part}]
      <4>1. call' = [call EXCEPT ![c] = row]
        BY <1>5, <3>2 DEF BeginDisconnect
      <4>2. Parts \ {part} \in SUBSET (Repositories \cup {"connection", "installations"})
        BY DEF Parts
      <4>3. row \in Call /\ row.text \in 0 .. MaxTexts /\ row.at = "clear"
        BY <4>2, NewRows DEF Call, PCs
      <4>. HIDE DEF row
      <4>. QED
        BY <1>0, <4>1, <4>3, OneCall
    <3>. QED
      BY <3>1, <3>2
  <2>2. disturbed' \in BOOLEAN
    BY <1>0, <1>5 DEF BeginDisconnect, InFlight
  <2>3. ClearPart(part)
    BY <1>0, <1>5 DEF BeginDisconnect
  <2>. QED
    BY <1>0, <1>k, <1>4, <1>5, <2>1, <2>2, <2>3 DEF BeginDisconnect
<1>6. ASSUME NEW c \in Calls, Redeem(c)
      PROVE  TypeOK'
  <2>1. CallsOK(call')
    <3>1. CASE Finish(c)
      BY <1>0, <3>1, FinishTyped
    <3>2. CASE call' = [call EXCEPT ![c].at = "store"]
      BY <1>0, <1>6, <3>2 DEF Redeem, CallsOK, Call, PCs
    <3>. QED
      BY <1>0, <1>6, <3>1, <3>2 DEF Redeem
  <2>2. flow' \in [Flows -> Flow]
    BY ZenonT(40), <1>0, <1>6, DeploymentAssumption DEF Redeem, Flow, Asks, CallsOK
  <2>. QED
    BY <1>0, <1>k, <1>6, <2>1, <2>2 DEF Redeem, rows, history
<1>7. ASSUME NEW c \in Calls, StoreTokens(c)
      PROVE  TypeOK'
  <2>1. CallsOK(call') /\ call[c].token \in Flows /\ call[c].previous \in Tokens
    BY <1>0, <1>7, FinishTyped DEF StoreTokens, CallsOK, Call
  <2>2. connection' \in Connection /\ stored' \subseteq Flows
    BY <1>0, <1>7, <2>1, UpsertTyped, ExpiriesTyped DEF StoreTokens, Tokens
  <2>. QED
    BY <1>0, <1>k, <1>7, <2>1, <2>2 DEF StoreTokens
<1>8. ASSUME NEW c \in Calls, EndDisconnect(c)
      PROVE  TypeOK'
  <2>1. CallsOK(call') /\ call[c].left \subseteq Repositories \cup {"connection", "installations"}
    BY <1>0, <1>8, FinishTyped DEF EndDisconnect, CallsOK, Call
  <2>2. PICK part : ClearPart(part)
    BY <1>0, <1>8 DEF EndDisconnect
  <2>3. /\ connection' \in Connection /\ listing' \in [Repositories -> Tokens]
        /\ installation' \in {"none", "ACTIVE", "INACTIVE"} /\ older' \subseteq Flows
    BY <1>0, <2>2, ExpiriesTyped
    DEF ClearPart, ClearConnection, ClearInstallations, Connection, Tokens
  <2>. QED
    BY <1>0, <1>k, <1>8, <2>1, <2>3 DEF EndDisconnect
<1>9. ASSUME NEW c \in Calls, BeginTool(c) \/ BeginSync(c)
      PROVE  TypeOK'
  <2>1. PICK op \in {"tool", "sync"} : Begin(c, op, "token")
    BY <1>0, <1>9 DEF BeginTool, BeginSync
  <2>2. CallsOK(call')
    <3>. DEFINE row == [Idle EXCEPT !.op = op, !.at = "token"]
    <3>1. call' = [call EXCEPT ![c] = row]
      BY <2>1 DEF Begin
    <3>2. row \in Call /\ row.text \in 0 .. MaxTexts /\ row.at = "token"
      BY NewRows DEF Call, PCs
    <3>. HIDE DEF row
    <3>. QED
      BY <1>0, <3>1, <3>2, OneCall
  <2>3. disturbed' \in BOOLEAN
    BY <2>1 DEF Begin, Disconnecting, InFlight
  <2>. QED
    BY <1>0, <1>k, <1>9, <2>2, <2>3 DEF BeginTool, BeginSync, rows
<1>10. ASSUME NEW c \in Calls, ToolToken(c) \/ SyncToken(c)
       PROVE  TypeOK'
  <2>1. CallsOK(call')
    BY <1>0, <1>10, TokenTyped DEF ToolToken, SyncToken, PCs
  <2>. QED
    BY <1>0, <1>k, <1>10, <2>1 DEF ToolToken, SyncToken, rows, history
<1>11. ASSUME NEW c \in Calls, ToolRefresh(c)
       PROVE  TypeOK'
  <2>1. CallsOK(call')
    BY <1>0, <1>11, TokenTyped DEF ToolRefresh, PCs
  <2>2. connection' \in Connection
    BY <1>0, <1>11, ExpiriesTyped DEF ToolRefresh, Refresh, Connection, Tokens, CallsOK
  <2>. QED
    BY <1>0, <1>k, <1>11, <2>1, <2>2 DEF ToolRefresh, history
<1>12. ASSUME NEW c \in Calls, SyncInstallation(c) \/ SyncRepository(c)
       PROVE  TypeOK'
  <2>1. CallsOK(call')
    <3>1. CASE Finish(c)
      BY <1>0, <3>1, FinishTyped
    <3>2. CASE ~Finish(c)
      BY <1>0, <1>12, <3>2 DEF SyncInstallation, SyncRepository, CallsOK, Call, PCs
    <3>. QED
      BY <3>1, <3>2
  <2>2. listing' \in [Repositories -> Tokens] /\ installation' \in {"none", "ACTIVE", "INACTIVE"}
    BY <1>0, <1>12 DEF SyncInstallation, SyncRepository, CallsOK, Tokens
  <2>. QED
    BY <1>0, <1>k, <1>12, <2>1, <2>2 DEF SyncInstallation, SyncRepository, history
<1>13. ASSUME TokenExpires \/ Webhook
       PROVE  TypeOK'
  BY <1>0, <1>k, <1>13, ExpiriesTyped DEF TokenExpires, Webhook, Connection, CallsOK, history
<1>. QED
  BY <1>0, <1>2, <1>3, <1>5, <1>6, <1>7, <1>8, <1>9, <1>10, <1>11, <1>12, <1>13 DEF ConnectionsNext

LEMMA ReviewTyped ==
    ASSUME TypeOK, ReviewNext
    PROVE  TypeOK'
<1>0. /\ provider \in {"GMAIL", "GITHUB"} /\ connection \in Connection
      /\ installation \in {"none", "ACTIVE", "INACTIVE"}
      /\ listing \in [Repositories -> Tokens] /\ flow \in [Flows -> Flow] /\ CallsOK(call)
      /\ stored \subseteq Flows /\ older \subseteq Flows /\ disturbed \in BOOLEAN
      /\ review \in Review /\ mailbox \in (0 .. MaxTexts) \cup {Null}
      /\ delivered \in Seq(Delivery) /\ texts \in 0 .. MaxTexts /\ raced \in BOOLEAN
  BY TypeParts
<1>1. /\ UNCHANGED <<provider, flow, stored, older>>
      /\ installation' = installation /\ listing' = listing
      /\ disturbed' \in BOOLEAN /\ raced' \in BOOLEAN
  BY ZenonT(40), <1>0
  DEF ReviewNext, CreateDraftReview, CreateActionReview, UpdateReview, RejectReview,
     BeginSend, CheckConnection, CheckRepository, SendToken, SendRefresh, PrepareDraft, SendDraft,
     PostAction, MarkSent, BeginRevise, ReviseDraft, ReviseRow, BreakOff, Abandon, Sending,
     Disconnecting, InFlight, connectionVars, rows, history, reviewVars
<1>k. ASSUME connection' \in Connection, CallsOK(call'), review' \in Review,
             mailbox' \in (0 .. MaxTexts) \cup {Null}, delivered' \in Seq(Delivery),
             texts' \in 0 .. MaxTexts
      PROVE  TypeOK'
  BY <1>0, <1>1, <1>k, TypesKept
<1>2. CASE CreateDraftReview \/ CreateActionReview \/ UpdateReview \/ RejectReview
  <2>1. review' \in Review /\ mailbox' \in (0 .. MaxTexts) \cup {Null} /\ texts' \in 0 .. MaxTexts
    <3>0. {0, 1} \subseteq 0 .. MaxTexts
      BY MaxTextsAssumption
    <3>1. CASE CreateDraftReview
      <4>1. PICK draft \in {"none", "kept"} :
               /\ review' = [review EXCEPT !.status = "NEEDS_REVIEW", !.text = 1, !.draft = draft]
               /\ mailbox' = IF draft = "kept" THEN 1 ELSE Null
        BY <3>1 DEF CreateDraftReview
      <4>2. review' \in Review
        BY <1>0, <3>0, <4>1 DEF Review
      <4>. QED
        BY <3>0, <3>1, <4>1, <4>2 DEF CreateDraftReview
    <3>2. CASE CreateActionReview
      <4>1. PICK x \in Repositories :
               review' = [review EXCEPT !.status = "NEEDS_REVIEW", !.text = 1, !.repository = x]
        BY <3>2 DEF CreateActionReview
      <4>2. review' \in Review
        BY <1>0, <3>0, <4>1 DEF Review
      <4>. QED
        BY <1>0, <3>0, <3>2, <4>2 DEF CreateActionReview
    <3>3. CASE UpdateReview
      <4>1. texts' \in 0 .. MaxTexts
        BY <1>0, <3>3, MaxTextsAssumption DEF UpdateReview
      <4>2. review' \in Review
        BY <1>0, <3>3, <4>1 DEF UpdateReview, Review
      <4>. QED
        BY <1>0, <3>3, <4>1, <4>2 DEF UpdateReview
    <3>4. CASE RejectReview
      BY <1>0, <3>4 DEF RejectReview, Review
    <3>. QED
      BY <1>2, <3>1, <3>2, <3>3, <3>4
  <2>2. connection' = connection /\ call' = call /\ delivered' = delivered
    BY <1>2 DEF CreateDraftReview, CreateActionReview, UpdateReview, RejectReview,
       connectionVars, rows
  <2>. QED
    BY <1>0, <1>k, <2>1, <2>2
<1>3. ASSUME NEW c \in Calls, BeginSend(c) \/ BeginRevise(c)
      PROVE  TypeOK'
  <2>1. texts' \in 0 .. MaxTexts /\ connection' = connection /\ review' = review
        /\ mailbox' = mailbox /\ delivered' = delivered
    BY <1>0, <1>3, MaxTextsAssumption DEF BeginSend, BeginRevise, rows
  <2>2. CASE BeginSend(c)
    <3>. DEFINE row == [Idle EXCEPT !.op = "send", !.at = "review", !.text = review.text,
                                    !.own = (review.draft = "none")]
    <3>1. call' = [call EXCEPT ![c] = row]
      BY <2>2 DEF BeginSend
    <3>2. row \in Call /\ row.text \in 0 .. MaxTexts /\ row.at = "review"
      <4>1. review.text \in 0 .. MaxTexts /\ \A n \in 0 .. MaxTexts : n \in Nat
        BY <1>0, MaxTextsAssumption DEF Review
      <4>. QED
        BY <4>1, NewRows DEF Call, PCs
    <3>. HIDE DEF row
    <3>. QED
      BY <1>0, <1>k, <2>1, <3>1, <3>2, OneCall
  <2>3. CASE BeginRevise(c)
    <3>. DEFINE row == [Idle EXCEPT !.op = "revise", !.at = "token", !.text = texts']
    <3>1. call' = [call EXCEPT ![c] = row]
      BY <2>3 DEF BeginRevise
    <3>2. row \in Call /\ row.text \in 0 .. MaxTexts /\ row.at = "token"
      <4>1. \A n \in 0 .. MaxTexts : n \in Nat
        BY MaxTextsAssumption
      <4>. QED
        BY <2>1, <4>1, NewRows DEF Call, PCs
    <3>. HIDE DEF row
    <3>. QED
      BY <1>0, <1>k, <2>1, <3>1, <3>2, OneCall
  <2>. QED
    BY <1>3, <2>2, <2>3
<1>4. ASSUME NEW c \in Calls,
             CheckConnection(c) \/ CheckRepository(c) \/ PrepareDraft(c) \/ SendDraft(c)
               \/ PostAction(c) \/ MarkSent(c) \/ ReviseDraft(c) \/ ReviseRow(c) \/ BreakOff(c)
      PROVE  TypeOK'
  <2>1. CallsOK(call')
    <3>1. CASE Finish(c)
      BY <1>0, <3>1, FinishTyped
    <3>2. ASSUME NEW row, row \in Call, row.text = call[c].text, call' = [call EXCEPT ![c] = row],
                 row.at \in {"mark", "token", "deliver", "edit"}
          PROVE  CallsOK(call')
      <4>1. row.text \in 0 .. MaxTexts
        BY <1>0, <3>2 DEF CallsOK
      <4>. QED
        BY <1>0, <3>2, <4>1, OneCall
    <3>3. ASSUME NEW at \in {"mark", "token", "deliver", "edit"}
          PROVE  /\ [call[c] EXCEPT !.at = at] \in Call
                 /\ [call[c] EXCEPT !.at = at].text = call[c].text
                 /\ [call[c] EXCEPT !.at = at].at = at
      BY ZenonT(40), <1>0 DEF CallsOK, Call, PCs
    <3>4. /\ [call[c] EXCEPT !.op = "simulate", !.at = "mark"] \in Call
          /\ [call[c] EXCEPT !.op = "simulate", !.at = "mark"].text = call[c].text
          /\ [call[c] EXCEPT !.op = "simulate", !.at = "mark"].at = "mark"
      BY ZenonT(40), <1>0 DEF CallsOK, Call, PCs
    <3>5. \/ Finish(c)
          \/ \E at \in {"mark", "token", "deliver", "edit"} :
                call' = [call EXCEPT ![c] = [call[c] EXCEPT !.at = at]]
          \/ call' = [call EXCEPT ![c] = [call[c] EXCEPT !.op = "simulate", !.at = "mark"]]
      BY <1>0, <1>4 DEF CheckConnection, CheckRepository, PrepareDraft, SendDraft, PostAction,
         Delivered, MarkSent, ReviseDraft, ReviseRow, BreakOff, Abandon, CallsOK, Call
    <3>. QED
      BY <3>1, <3>2, <3>3, <3>4, <3>5
  <2>2. call[c].text \in 0 .. MaxTexts /\ connection' = connection /\ texts' = texts
    BY <1>0, <1>4 DEF CheckConnection, CheckRepository, PrepareDraft, SendDraft, PostAction,
       Delivered, MarkSent, ReviseDraft, ReviseRow, BreakOff, Abandon, rows, reviewVars, CallsOK
  <2>3. review' \in Review
    <3>1. CASE MarkSent(c)
      BY <1>0, <3>1 DEF MarkSent, Review
    <3>2. CASE ReviseRow(c)
      BY <1>0, <2>2, <3>2 DEF ReviseRow, Review
    <3>3. CASE ~MarkSent(c) /\ ~ReviseRow(c)
      BY <1>0, <1>4, <3>3 DEF CheckConnection, CheckRepository, PrepareDraft, SendDraft,
         PostAction, ReviseDraft, BreakOff, reviewVars
    <3>. QED
      BY <3>1, <3>2, <3>3
  <2>4. mailbox' \in (0 .. MaxTexts) \cup {Null}
    BY <1>0, <1>4, <2>2 DEF CheckConnection, CheckRepository, PrepareDraft, SendDraft, PostAction,
       MarkSent, ReviseDraft, ReviseRow, BreakOff, reviewVars
  <2>5. delivered' \in Seq(Delivery)
    <3>1. ASSUME NEW text \in 0 .. MaxTexts, Delivered(c, text)
          PROVE  delivered' \in Seq(Delivery)
      <4>1. [text |-> text, approved |-> call[c].text] \in Delivery
        BY <2>2 DEF Delivery
      <4>. QED
        BY <1>0, <3>1, <4>1 DEF Delivered
    <3>2. CASE SendDraft(c) \/ PostAction(c)
      BY <1>0, <2>2, <3>1, <3>2 DEF SendDraft, PostAction
    <3>3. CASE ~SendDraft(c) /\ ~PostAction(c)
      BY <1>0, <1>4, <3>3 DEF CheckConnection, CheckRepository, PrepareDraft, MarkSent,
         ReviseDraft, ReviseRow, BreakOff, reviewVars
    <3>. QED
      BY <3>2, <3>3
  <2>. QED
    BY <1>k, <2>1, <2>2, <2>3, <2>4, <2>5, <1>0
<1>5. ASSUME NEW c \in Calls, SendToken(c) \/ SendRefresh(c)
      PROVE  TypeOK'
  <2>1. CallsOK(call')
    BY <1>5, TokenTyped DEF SendToken, SendRefresh, PCs
  <2>2. connection' \in Connection
    BY <1>0, <1>5, ExpiriesTyped
    DEF SendToken, SendRefresh, Refresh, Connection, Tokens, CallsOK, rows
  <2>. QED
    BY <1>0, <1>k, <1>5, <2>1, <2>2 DEF SendToken, SendRefresh, reviewVars
<1>. QED
  BY <1>2, <1>3, <1>4, <1>5 DEF ReviewNext

LEMMA TypeInit ==
    ASSUME Init
    PROVE  TypeOK
<1>1. CallsOK(call)
  BY NewRows DEF Init, ConnectionsInit, CallsOK
<1>2. /\ provider \in {"GMAIL", "GITHUB"} /\ installation \in {"none", "ACTIVE", "INACTIVE"}
      /\ stored \subseteq Flows /\ older \subseteq Flows /\ disturbed \in BOOLEAN
  BY DEF Init, ConnectionsInit
<1>3. connection \in Connection /\ listing \in [Repositories -> Tokens]
  <2>0. NoConnection \in Connection
    BY ExpiriesTyped DEF NoConnection, Connection, Tokens
  <2>1. CASE connection = NoConnection /\ listing = [x \in Repositories |-> Null]
    BY <2>0, <2>1 DEF Tokens
  <2>2. ASSUME NEW f \in Flows, NEW refresh \in Tokens,
               connection = [NoConnection EXCEPT !.status = "CONNECTED", !.access = f,
                                                 !.refresh = refresh]
        PROVE  connection \in Connection
    BY <2>0, <2>2 DEF Connection, Tokens
  <2>. QED
    BY <2>1, <2>2 DEF Init, ConnectionsInit, Tokens
<1>4. flow \in [Flows -> Flow]
  BY DEF Init, ConnectionsInit, Flow
<1>5. /\ review \in Review /\ mailbox \in (0 .. MaxTexts) \cup {Null}
      /\ delivered \in Seq(Delivery) /\ texts \in 0 .. MaxTexts /\ raced \in BOOLEAN
  <2>1. 0 \in 0 .. MaxTexts
    BY MaxTextsAssumption
  <2>2. review \in Review
    BY <2>1 DEF Init, Review
  <2>3. <<>> \in Seq(Delivery)
    OBVIOUS
  <2>. QED
    BY <2>1, <2>2, <2>3 DEF Init
<1>. QED
  BY <1>1, <1>2, <1>3, <1>4, <1>5, TypeParts

LEMMA TypeNext ==
    ASSUME TypeOK, [Next]_vars
    PROVE  TypeOK'
<1>1. CASE UNCHANGED vars
  BY <1>1 DEF vars, connectionVars, reviewVars, rows, history, TypeOK, ConnectionsTypeOK
<1>. QED
  BY <1>1, ReviewTyped, ConnectionsTyped DEF Next

-----------------------------------------------------------------------------
(* The connection: what every call holds. *)

(* Only the call c moves; what it takes in hand and a later step writes     *)
(* back is a token of the row.                                              *)
Works(c) ==
    /\ \A d \in Calls \ {c} : call'[d] = call[d]
    /\ call'[c].at \notin {"redeem", "store", "clear"}
    /\ call'[c].op # "disconnect" /\ (call'[c].op = "sync" => provider = "GITHUB")
    /\ call'[c].previous \in {call[c].previous, Null}
    /\ call'[c].at = "refresh" =>
         InFlight(c) /\ call[c].at # "clear" /\ call'[c].token = connection.refresh
    /\ call'[c].at \in {"installation", "repositories"} =>
         /\ InFlight(c) /\ call[c].at # "clear" /\ call'[c].op = "sync"
         /\ \/ call'[c].token = connection.access
            \/ /\ call[c].at \in {"installation", "repositories"}
               /\ call'[c].token = call[c].token

(* The rows and the flows stay, but for codes that are lost.                *)
RowsStay ==
    /\ connection'.access = connection.access /\ connection'.refresh = connection.refresh
    /\ connection'.status = connection.status
    /\ \A f \in Flows : flow'[f].at = flow[f].at /\ (flow'[f].code => flow[f].code)
    /\ UNCHANGED <<provider, listing, stored, older>>

LEMMA Clearing ==
    ASSUME \A c \in Calls : PartOK(c)
    PROVE  /\ \A c \in Calls : (InFlight(c) /\ call[c].op = "disconnect") <=> call[c].at = "clear"
           /\ Disconnecting <=> \E c \in Calls : call[c].at = "clear"
BY DEF PartOK, InFlight, Disconnecting

(* While nothing disturbed the last disconnect, a call other than the one   *)
(* that clears the row finds only later tokens in it.                       *)
LEMMA RowIsNew ==
    ASSUME ConnectionInv, ~disturbed, NEW c \in Calls, InFlight(c), call[c].at # "clear"
    PROVE  /\ ~Disconnecting
           /\ connection.access \notin older /\ connection.refresh \notin older
           /\ \A x \in Repositories : listing[x] \notin older
BY Clearing DEF ConnectionInv, CalmConnection, HalfOK, DisconnectSticks

(* Such a step, when no disconnect is cut short or overlapped unnoticed,    *)
(* keeps the invariant.                                                     *)
LEMMA WorkStep ==
    ASSUME ConnectionInv, TypeOK', NEW c \in Calls, Works(c), RowsStay,
           disturbed => disturbed',
           InFlight(c)' /\ Disconnecting => InFlight(c) \/ disturbed',
           call[c].at = "clear" => disturbed'
    PROVE  ConnectionInv'
<1>0. \A d \in Calls : /\ call[d].at \in {"redeem", "store", "refresh", "installation",
                                         "repositories"} => call[d].token \in Flows
                       /\ call'[d].at \in {"redeem", "store", "refresh", "installation",
                                         "repositories"} => call'[d].token \in Flows
  BY DEF ConnectionInv, TypeOK, ConnectionsTypeOK
<1>1. CodesOK'
  <2>1. /\ \A f \in Flows : flow'[f].code => flow'[f].at = "returned"
        /\ \A f \in stored' : flow'[f].at = "returned" /\ ~flow'[f].code
    BY DEF ConnectionInv, CodesOK, RowsStay, TypeOK, ConnectionsTypeOK
  <2>2. \A d \in Calls : call'[d].at \in {"redeem", "store"} => d # c /\ call'[d] = call[d]
    BY DEF Works
  <2>3. /\ \A d \in Calls : call'[d].at \in {"redeem", "store"} =>
                              flow'[call'[d].token].at = "returned"
        /\ \A d \in Calls : call'[d].at = "store" => ~flow'[call'[d].token].code
    BY <1>0, <2>2 DEF ConnectionInv, CodesOK, RowsStay
  <2>4. ConsentStoredOnce'
    BY <2>2 DEF ConnectionInv, CodesOK, ConsentStoredOnce, RowsStay
  <2>. QED
    BY <2>1, <2>3, <2>4 DEF CodesOK
<1>2. TokensOK'
  <2>1. Null \notin Flows
    BY NullAssumption
  <2>. QED
    BY <1>0, <2>1 DEF ConnectionInv, TokensOK, Works, RowsStay
<1>3. \A d \in Calls : PartOK(d)'
  BY DEF ConnectionInv, PartOK, Works, RowsStay
<1>4. CalmConnection'
  <2>. SUFFICES ASSUME ~disturbed'
                PROVE  /\ \A d \in Calls : HandsOK(d)' /\ HalfOK(d)'
                       /\ DisconnectSticks' /\ TokenKept'
    BY DEF CalmConnection
  <2>1. /\ ~disturbed /\ \A d \in Calls : HandsOK(d) /\ HalfOK(d)
        /\ DisconnectSticks /\ TokenKept
    BY DEF ConnectionInv, CalmConnection
  <2>2. \A d \in Calls : HandsOK(d)'
    <3>1. \A d \in Calls \ {c} : HandsOK(d)'
      BY <2>1 DEF HandsOK, Works, RowsStay
    <3>2. HandsOK(c)'
      <4>1. CASE call'[c].at = "refresh"
        BY <1>0, <2>1, <4>1, RowIsNew, NullAssumption DEF HandsOK, Works, RowsStay
      <4>2. CASE call'[c].at \in {"installation", "repositories"}
        BY <2>1, <4>2, RowIsNew DEF HandsOK, Works, RowsStay
      <4>. QED
        BY <4>1, <4>2 DEF HandsOK, Works
    <3>. QED
      BY <3>1, <3>2
  <2>3. \A d \in Calls : call'[d].at = "clear" => d # c /\ call'[d] = call[d]
    BY DEF Works
  <2>4. \A d \in Calls : call[d].at = "clear" => d # c /\ call'[d] = call[d]
    BY DEF Works
  <2>5. Disconnecting' <=> Disconnecting
    <3>1. Disconnecting <=> \E d \in Calls : call[d].at = "clear"
      BY Clearing DEF ConnectionInv
    <3>2. Disconnecting' <=> \E d \in Calls : call'[d].at = "clear"
      BY <1>3 DEF PartOK, InFlight, Disconnecting
    <3>. QED
      BY <2>3, <2>4, <3>1, <3>2
  <2>6. \A d \in Calls : HalfOK(d)'
    <3>1. \A d \in Calls : call[d].at = "clear" => Disconnecting
      BY Clearing DEF ConnectionInv
    <3>. QED
      BY <2>1, <2>3, <3>1 DEF HalfOK, InFlight, Works, RowsStay
  <2>7. DisconnectSticks'
    BY <2>1, <2>5 DEF DisconnectSticks, RowsStay
  <2>8. TokenKept'
    BY <2>1 DEF TokenKept, HasToken, RowsStay
  <2>. QED
    BY <2>2, <2>6, <2>7, <2>8
<1>. QED
  BY <1>1, <1>2, <1>3, <1>4 DEF ConnectionInv

(* A step of the rows alone.                                                *)
LEMMA StillStep ==
    ASSUME ConnectionInv, TypeOK', call' = call, RowsStay, disturbed' = disturbed
    PROVE  ConnectionInv'
<1>0. \A d \in Calls : call[d].at \in {"redeem", "store", "refresh"} => call[d].token \in Flows
  BY DEF ConnectionInv, TypeOK, ConnectionsTypeOK
<1>1. CodesOK'
  <2>1. /\ \A f \in Flows : flow'[f].code => flow'[f].at = "returned"
        /\ \A f \in stored' : flow'[f].at = "returned" /\ ~flow'[f].code
    BY DEF ConnectionInv, CodesOK, RowsStay, TypeOK, ConnectionsTypeOK
  <2>. QED
    BY <1>0, <2>1 DEF ConnectionInv, CodesOK, ConsentStoredOnce, RowsStay
<1>2. TokensOK' /\ \A d \in Calls : PartOK(d)'
  BY DEF ConnectionInv, TokensOK, PartOK, RowsStay
<1>3. CalmConnection'
  BY DEF ConnectionInv, CalmConnection, HandsOK, HalfOK, InFlight, DisconnectSticks,
     Disconnecting, TokenKept, HasToken, RowsStay
<1>. QED
  BY <1>1, <1>2, <1>3 DEF ConnectionInv

(* A call that ends lays down what it held.                                 *)
LEMMA FinishWorks ==
    ASSUME CallsOK(call), NEW c \in Calls, Finish(c)
    PROVE  Works(c) /\ ~InFlight(c)' /\ call'[c].at = "done"
<1>1. Over.op = "none" /\ Over.at = "done" /\ Over.previous = Null
  BY DEF Over, Idle
<1>. QED
  BY <1>1 DEF Finish, CallsOK, Works, InFlight

(* A call that works on takes what it reads in the row.                     *)
LEMMA TokenWorks ==
    ASSUME ConnectionInv, NEW c \in Calls, NEW next \in {"done", "draft", "installation"},
           next = "installation" => call[c].op = "sync", ReadToken(c, next)
    PROVE  Works(c) /\ InFlight(c) /\ call[c].at = "token"
<1>1. CallsOK(call) /\ PartOK(c) /\ call[c].at = "token"
  BY TypeParts DEF ConnectionInv, ReadToken
<1>2. CASE Finish(c)
  BY <1>1, <1>2, FinishWorks DEF InFlight
<1>3. ASSUME NEW at \in {"draft", "installation", "refresh"}, NEW token,
             at = "refresh" => token = connection.refresh,
             at = "installation" => token = connection.access /\ call[c].op = "sync",
             GoOn(c, at, token)
      PROVE  Works(c)
  <2>. DEFINE held == IF at = "draft" THEN Null ELSE token
  <2>1. call' = [call EXCEPT ![c].at = at, ![c].token = held]
    BY <1>3 DEF GoOn
  <2>2. /\ \A d \in Calls \ {c} : call'[d] = call[d]
        /\ call'[c].at = at /\ call'[c].token = held
        /\ call'[c].op = call[c].op /\ call'[c].previous = call[c].previous
    BY <1>1, <2>1 DEF CallsOK, Call
  <2>. QED
    BY <1>1, <1>3, <2>2 DEF Works, PartOK, InFlight
<1>4. \/ Finish(c)
      \/ GoOn(c, "refresh", connection.refresh)
      \/ next # "done" /\ GoOn(c, next, connection.access)
  BY DEF ReadToken, GoOn
<1>. QED
  BY <1>1, <1>2, <1>3, <1>4 DEF InFlight

(* Steps of a call that read the connection, or leave it alone.             *)
LEMMA ReaderStep ==
    ASSUME ConnectionInv, TypeOK', NEW c \in Calls,
           ToolToken(c) \/ SyncToken(c) \/ SendToken(c)
    PROVE  ConnectionInv'
<1>1. Works(c) /\ InFlight(c) /\ call[c].at = "token"
  BY TokenWorks DEF ToolToken, SyncToken, SendToken
<1>2. RowsStay /\ disturbed' = disturbed
  BY DEF ToolToken, SyncToken, SendToken, RowsStay, rows, history
<1>. QED
  BY <1>1, <1>2, WorkStep

(* A new call of any kind but those that complete or disconnect.            *)
LEMMA BeginStep ==
    ASSUME ConnectionInv, TypeOK', NEW c \in Calls,
           BeginTool(c) \/ BeginSync(c) \/ BeginSend(c) \/ BeginRevise(c)
    PROVE  ConnectionInv'
<1>0. CallsOK(call)
  BY TypeParts DEF ConnectionInv
<1>1. PICK row : /\ call' = [call EXCEPT ![c] = row]
                 /\ row.op \in {"tool", "sync", "send", "revise"} /\ row.previous = Null
                 /\ row.op = "sync" => provider = "GITHUB"
                 /\ row.at \in {"token", "review"}
  <2>2. CASE BeginTool(c) \/ BeginSync(c)
    <3>1. PICK op \in {"tool", "sync"} : Begin(c, op, "token") /\ (op = "sync" => provider = "GITHUB")
      BY <2>2 DEF BeginTool, BeginSync
    <3>. DEFINE row == [Idle EXCEPT !.op = op, !.at = "token"]
    <3>2. row.op = op /\ row.at = "token" /\ row.previous = Null
      BY DEF Idle
    <3>3. call' = [call EXCEPT ![c] = row]
      BY <3>1 DEF Begin
    <3>. HIDE DEF row
    <3>. QED
      BY <3>1, <3>2, <3>3
  <2>3. CASE BeginSend(c)
    <3>. DEFINE row == [Idle EXCEPT !.op = "send", !.at = "review", !.text = review.text,
                                    !.own = (review.draft = "none")]
    <3>2. row.op = "send" /\ row.at = "review" /\ row.previous = Null
      BY DEF Idle
    <3>3. call' = [call EXCEPT ![c] = row]
      BY <2>3 DEF BeginSend
    <3>. HIDE DEF row
    <3>. QED
      BY <3>2, <3>3
  <2>4. CASE BeginRevise(c)
    <3>. DEFINE row == [Idle EXCEPT !.op = "revise", !.at = "token", !.text = texts']
    <3>2. row.op = "revise" /\ row.at = "token" /\ row.previous = Null
      BY DEF Idle
    <3>3. call' = [call EXCEPT ![c] = row]
      BY <2>4 DEF BeginRevise
    <3>. HIDE DEF row
    <3>. QED
      BY <3>2, <3>3
  <2>. QED
    BY <2>2, <2>3, <2>4
<1>2. Works(c)
  BY <1>0, <1>1 DEF CallsOK, Works
<1>3. RowsStay /\ disturbed' = (disturbed \/ Disconnecting) /\ call[c].at = "idle"
  BY DEF BeginTool, BeginSync, Begin, BeginSend, BeginRevise, RowsStay, rows
<1>. QED
  BY <1>2, <1>3, WorkStep

(* Steps of a send or a revision that leave the connection alone, and the   *)
(* end of any call.                                                         *)
LEMMA AloofStep ==
    ASSUME ConnectionInv, TypeOK', NEW c \in Calls,
           CheckConnection(c) \/ CheckRepository(c) \/ PrepareDraft(c) \/ SendDraft(c)
             \/ PostAction(c) \/ MarkSent(c) \/ ReviseDraft(c) \/ ReviseRow(c) \/ BreakOff(c)
    PROVE  ConnectionInv'
<1>0. CallsOK(call) /\ PartOK(c)
  BY TypeParts DEF ConnectionInv
<1>1. RowsStay
  <2>1. UNCHANGED <<provider, connection, listing, flow, stored, older>>
    BY DEF CheckConnection, CheckRepository, PrepareDraft, SendDraft, PostAction, MarkSent,
       ReviseDraft, ReviseRow, BreakOff, Abandon, rows, history
  <2>. QED
    BY <2>1 DEF RowsStay
<1>2. CASE BreakOff(c)
  BY <1>0, <1>1, <1>2, FinishWorks, WorkStep DEF BreakOff, Abandon
<1>3. CASE ~BreakOff(c)
  <2>1. call[c].at \in {"review", "draft", "deliver", "mark", "edit"}
    BY <1>3 DEF CheckConnection, CheckRepository, PrepareDraft, SendDraft, PostAction, MarkSent,
       ReviseDraft, ReviseRow
  <2>4. disturbed' = disturbed
    BY <1>3 DEF CheckConnection, CheckRepository, PrepareDraft, SendDraft, PostAction, MarkSent,
       ReviseDraft, ReviseRow, history
  <2>2. \/ Finish(c)
        \/ \E at \in {"mark", "token", "deliver", "edit"} : call' = [call EXCEPT ![c].at = at]
        \/ call' = [call EXCEPT ![c].op = "simulate", ![c].at = "mark"]
    BY <1>3 DEF CheckConnection, CheckRepository, PrepareDraft, SendDraft, PostAction, Delivered,
       MarkSent, ReviseDraft, ReviseRow
  <2>3. Works(c)
    <3>1. CASE Finish(c)
      BY <1>0, <3>1, FinishWorks
    <3>2. ASSUME NEW at \in {"mark", "token", "deliver", "edit"},
                 call' = [call EXCEPT ![c].at = at]
          PROVE  Works(c)
      <4>1. /\ \A d \in Calls \ {c} : call'[d] = call[d]
            /\ call'[c].at = at /\ call'[c].op = call[c].op
            /\ call'[c].previous = call[c].previous
        BY <1>0, <3>2 DEF CallsOK, Call
      <4>. QED
        BY <1>0, <2>1, <4>1 DEF Works, PartOK
    <3>3. CASE call' = [call EXCEPT ![c].op = "simulate", ![c].at = "mark"]
      <4>1. /\ \A d \in Calls \ {c} : call'[d] = call[d]
            /\ call'[c].at = "mark" /\ call'[c].op = "simulate"
            /\ call'[c].previous = call[c].previous
        BY <1>0, <3>3 DEF CallsOK, Call
      <4>. QED
        BY <4>1 DEF Works
    <3>. QED
      BY <2>2, <3>1, <3>2, <3>3
  <2>. QED
    BY <1>1, <2>1, <2>3, <2>4, WorkStep DEF InFlight
<1>. QED
  BY <1>2, <1>3

LEMMA SyncInstallationStep ==
    ASSUME ConnectionInv, TypeOK', NEW c \in Calls, SyncInstallation(c)
    PROVE  ConnectionInv'
<1>0. CallsOK(call) /\ PartOK(c)
  BY TypeParts DEF ConnectionInv
<1>1. RowsStay /\ call[c].at = "installation" /\ disturbed' = disturbed
  BY DEF SyncInstallation, RowsStay, history
<1>2. Works(c)
  <2>1. CASE Finish(c)
    BY <1>0, <2>1, FinishWorks
  <2>2. CASE ~Finish(c)
    <3>1. PICK found : call' = [call EXCEPT ![c].at = "repositories", ![c].left = found]
      BY <2>2 DEF SyncInstallation
    <3>2. /\ \A d \in Calls \ {c} : call'[d] = call[d]
          /\ call'[c].at = "repositories" /\ call'[c].op = call[c].op
          /\ call'[c].previous = call[c].previous /\ call'[c].token = call[c].token
      BY <1>0, <3>1 DEF CallsOK, Call
    <3>. QED
      BY <1>0, <1>1, <3>2 DEF Works, PartOK, InFlight
  <2>. QED
    BY <2>1, <2>2
<1>. QED
  BY <1>1, <1>2, WorkStep DEF InFlight

(* The review's own steps leave the connection where it is.                 *)
LEMMA UserRowStep ==
    ASSUME ConnectionInv, TypeOK',
           CreateDraftReview \/ CreateActionReview \/ UpdateReview \/ RejectReview
             \/ TokenExpires \/ Webhook \/ (\E f \in Flows : FlowLost(f)) \/ UNCHANGED vars
    PROVE  ConnectionInv'
<1>1. call' = call /\ disturbed' = disturbed /\ UNCHANGED <<provider, listing, stored, older>>
  BY DEF CreateDraftReview, CreateActionReview, UpdateReview, RejectReview, TokenExpires,
     Webhook, FlowLost, vars, connectionVars, rows, history
<1>2. /\ connection'.access = connection.access /\ connection'.refresh = connection.refresh
      /\ connection'.status = connection.status
  BY DEF CreateDraftReview, CreateActionReview, UpdateReview, RejectReview, TokenExpires,
     Webhook, FlowLost, vars, connectionVars, rows, ConnectionInv, TypeOK, ConnectionsTypeOK,
     Connection
<1>3. \A f \in Flows : flow'[f].at = flow[f].at /\ (flow'[f].code => flow[f].code)
  <2>1. CASE flow' = flow
    BY <2>1
  <2>2. ASSUME NEW f \in Flows, FlowLost(f)
        PROVE  \A g \in Flows : flow'[g].at = flow[g].at /\ (flow'[g].code => flow[g].code)
    <3>1. flow \in [Flows -> Flow]
      BY DEF ConnectionInv, TypeOK, ConnectionsTypeOK
    <3>2. PICK field \in {"verifier", "code"} : flow' = [flow EXCEPT ![f][field] = FALSE]
      BY <2>2 DEF FlowLost
    <3>. QED
      BY <3>1, <3>2 DEF Flow
  <2>. QED
    BY <2>1, <2>2 DEF CreateDraftReview, CreateActionReview, UpdateReview, RejectReview,
       TokenExpires, Webhook, vars, connectionVars
<1>. QED
  BY <1>1, <1>2, <1>3, StillStep DEF RowsStay

-----------------------------------------------------------------------------
(* The steps that write tokens. *)

(* A new consent: no code of it is stored or in hand yet.                   *)
LEMMA FlowStep ==
    ASSUME ConnectionInv, TypeOK', NEW f \in Flows, Connect(f) \/ Consent(f)
    PROVE  ConnectionInv'
<1>0. /\ call' = call /\ disturbed' = disturbed
      /\ UNCHANGED <<provider, connection, listing, stored, older>>
      /\ flow \in [Flows -> Flow] /\ flow[f].at \in {"idle", "consent"}
      /\ flow' \in [Flows -> Flow] /\ \A g \in Flows \ {f} : flow'[g] = flow[g]
      /\ flow'[f].code => flow'[f].at = "returned"
  BY DEF Connect, Consent, rows, history, ConnectionInv, CodesOK, TypeOK, ConnectionsTypeOK, Flow
<1>1. /\ f \notin stored
      /\ \A c \in Calls : call[c].at \in {"redeem", "store"} => call[c].token \in Flows \ {f}
  BY <1>0 DEF ConnectionInv, CodesOK, TypeOK, ConnectionsTypeOK
<1>2. CodesOK'
  BY <1>0, <1>1 DEF ConnectionInv, CodesOK, ConsentStoredOnce, TypeOK, ConnectionsTypeOK
<1>3. TokensOK' /\ \A c \in Calls : PartOK(c)'
  BY <1>0 DEF ConnectionInv, TokensOK, PartOK
<1>4. CalmConnection'
  BY <1>0 DEF ConnectionInv, CalmConnection, HandsOK, HalfOK, InFlight, DisconnectSticks,
     Disconnecting, TokenKept, HasToken
<1>. QED
  BY <1>2, <1>3, <1>4 DEF ConnectionInv

(* The mock's flow is new, and so are the tokens it lends its name to.      *)
LEMMA DevMockStep ==
    ASSUME ConnectionInv, TypeOK', NEW f \in Flows, ConnectDevMock(f)
    PROVE  ConnectionInv'
<1>0. /\ call' = call /\ disturbed' = (disturbed \/ Disconnecting)
      /\ UNCHANGED <<provider, listing, older>> /\ provider = "GMAIL"
      /\ stored' = stored \cup {f}
      /\ connection'.access = f /\ connection'.refresh = f
      /\ flow \in [Flows -> Flow] /\ flow[f].at = "idle"
  BY DEF ConnectDevMock, UpsertConnection, ConnectionInv, TypeOK, ConnectionsTypeOK
<1>1. /\ f \notin stored /\ ~flow[f].code
      /\ \A c \in Calls : call[c].at \in {"redeem", "store"} => call[c].token \in Flows \ {f}
  BY <1>0 DEF ConnectionInv, CodesOK, TypeOK, ConnectionsTypeOK
<1>2. /\ \A g \in Flows \ {f} : flow'[g] = flow[g]
      /\ flow'[f].at = "returned" /\ ~flow'[f].code
  BY <1>0, <1>1 DEF ConnectDevMock, Flow
<1>3. CodesOK'
  BY <1>0, <1>1, <1>2 DEF ConnectionInv, CodesOK, ConsentStoredOnce, TypeOK, ConnectionsTypeOK
<1>4. TokensOK' /\ \A c \in Calls : PartOK(c)'
  BY <1>0, NullAssumption DEF ConnectionInv, TokensOK, PartOK
<1>5. CalmConnection'
  <2>. SUFFICES ASSUME ~disturbed'
                PROVE  /\ \A c \in Calls : HandsOK(c)' /\ HalfOK(c)'
                       /\ DisconnectSticks' /\ TokenKept'
    BY DEF CalmConnection
  <2>1. /\ \A c \in Calls : HandsOK(c)
        /\ DisconnectSticks /\ ~disturbed /\ ~Disconnecting /\ \A c \in Calls : call[c].at # "clear"
    BY <1>0, Clearing DEF ConnectionInv, CalmConnection
  <2>2. f \notin older /\ f # Null
    BY <1>1, NullAssumption DEF ConnectionInv, TokensOK
  <2>3. \A c \in Calls : HandsOK(c)' /\ HalfOK(c)'
    BY <1>0, <2>1, <2>2 DEF HandsOK, HalfOK
  <2>4. DisconnectSticks' /\ TokenKept'
    BY <1>0, <2>1, <2>2 DEF DisconnectSticks, TokenKept, HasToken
  <2>. QED
    BY <2>3, <2>4
<1>. QED
  BY <1>3, <1>4, <1>5 DEF ConnectionInv

LEMMA BeginCompleteStep ==
    ASSUME ConnectionInv, TypeOK', NEW c \in Calls, NEW f \in Flows, BeginComplete(c, f)
    PROVE  ConnectionInv'
<1>. DEFINE previous == IF provider = "GMAIL" THEN connection.refresh ELSE Null
            row == [Idle EXCEPT !.op = "complete", !.at = "redeem", !.token = f,
                                !.previous = previous]
<1>0. /\ call' = [call EXCEPT ![c] = row] /\ disturbed' = (disturbed \/ Disconnecting)
      /\ UNCHANGED <<provider, connection, listing, flow, stored, older>>
      /\ flow[f].at = "returned" /\ call[c].at = "idle"
  BY DEF BeginComplete, rows
<1>1. row.op = "complete" /\ row.at = "redeem" /\ row.token = f /\ row.previous = previous
  BY DEF Idle
<1>. HIDE DEF row
<1>2. call'[c] = row /\ \A d \in Calls \ {c} : call'[d] = call[d]
  BY <1>0 DEF ConnectionInv, TypeOK, ConnectionsTypeOK
<1>3. CodesOK' /\ \A d \in Calls : PartOK(d)'
  BY <1>0, <1>1, <1>2 DEF ConnectionInv, CodesOK, ConsentStoredOnce, PartOK
<1>4. TokensOK'
  BY <1>0, <1>1, <1>2 DEF ConnectionInv, TokensOK
<1>5. CalmConnection'
  <2>. SUFFICES ASSUME ~disturbed'
                PROVE  /\ \A d \in Calls : HandsOK(d)' /\ HalfOK(d)'
                       /\ DisconnectSticks' /\ TokenKept'
    BY DEF CalmConnection
  <2>1. /\ DisconnectSticks /\ TokenKept /\ \A d \in Calls : HandsOK(d)
        /\ ~disturbed /\ ~Disconnecting /\ \A d \in Calls : call[d].at # "clear"
    BY <1>0, Clearing DEF ConnectionInv, CalmConnection
  <2>2. previous \notin older
    BY <2>1, NullAssumption DEF DisconnectSticks, ConnectionInv, TypeOK, ConnectionsTypeOK
  <2>3. \A d \in Calls : HandsOK(d)' /\ HalfOK(d)'
    BY <1>0, <1>1, <1>2, <2>1, <2>2 DEF HandsOK, HalfOK
  <2>4. DisconnectSticks' /\ TokenKept'
    BY <1>0, <2>1 DEF DisconnectSticks, TokenKept, HasToken
  <2>. QED
    BY <2>3, <2>4
<1>. QED
  BY <1>3, <1>4, <1>5 DEF ConnectionInv

(* Whoever gets the tokens for a code has used it up.                       *)
LEMMA RedeemStep ==
    ASSUME ConnectionInv, TypeOK', NEW c \in Calls, Redeem(c)
    PROVE  ConnectionInv'
<1>. DEFINE f == call[c].token
<1>0. /\ CallsOK(call) /\ flow \in [Flows -> Flow] /\ f \in Flows /\ call[c].at = "redeem"
      /\ PartOK(c)
  BY DEF ConnectionInv, TypeOK, ConnectionsTypeOK, CallsOK, Redeem
<1>1. /\ UNCHANGED <<provider, connection, listing, stored, older>> /\ disturbed' = disturbed
      /\ \A g \in Flows \ {f} : flow'[g] = flow[g]
      /\ flow'[f].at = flow[f].at /\ (flow'[f].code => flow[f].code)
      /\ Asks(f) => ~flow'[f].code
  BY <1>0 DEF Redeem, rows, history, Flow
<1>2. CASE Finish(c)
  <2>1. RowsStay
    BY <1>1 DEF RowsStay
  <2>. QED
    BY <1>0, <1>1, <1>2, <2>1, FinishWorks, WorkStep
<1>3. CASE ~Finish(c)
  <2>1. Asks(f) /\ flow[f].code /\ call' = [call EXCEPT ![c].at = "store"]
    BY <1>3 DEF Redeem
  <2>2. /\ \A d \in Calls \ {c} : call'[d] = call[d]
        /\ call'[c].at = "store" /\ call'[c].token = f /\ call'[c].op = call[c].op
        /\ call'[c].previous = call[c].previous
    BY <1>0, <2>1 DEF CallsOK, Call
  <2>3. f \notin stored /\ \A d \in Calls : call[d].at = "store" => call[d].token # f
    BY <2>1 DEF ConnectionInv, CodesOK
  <2>4. CodesOK'
    <3>1. \A g \in Flows : flow'[g].code => flow'[g].at = "returned"
      BY <1>0, <1>1 DEF ConnectionInv, CodesOK
    <3>2. \A g \in stored : flow'[g].at = "returned" /\ ~flow'[g].code
      BY <1>1, <2>3 DEF ConnectionInv, CodesOK, TypeOK, ConnectionsTypeOK
    <3>3. \A d \in Calls : call'[d].at \in {"redeem", "store"} =>
                             flow'[call'[d].token].at = "returned"
      <4>1. \A d \in Calls : call[d].at \in {"redeem", "store"} =>
                               call[d].token \in Flows /\ flow[call[d].token].at = "returned"
        BY DEF ConnectionInv, CodesOK, TypeOK, ConnectionsTypeOK
      <4>2. \A g \in Flows : flow'[g].at = flow[g].at
        BY <1>1
      <4>3. flow'[f].at = "returned"
        BY <1>0, <4>1, <4>2
      <4>. QED
        BY <2>2, <4>1, <4>2, <4>3
    <3>4. \A d \in Calls : call'[d].at = "store" => ~flow'[call'[d].token].code
      BY <1>0, <1>1, <2>1, <2>2, <2>3 DEF ConnectionInv, CodesOK, TypeOK, ConnectionsTypeOK
    <3>5. ConsentStoredOnce'
      BY <1>1, <2>2, <2>3 DEF ConnectionInv, CodesOK, ConsentStoredOnce
    <3>. QED
      BY <1>1, <3>1, <3>2, <3>3, <3>4, <3>5 DEF CodesOK
  <2>5. TokensOK' /\ \A d \in Calls : PartOK(d)'
    BY <1>0, <1>1, <2>2 DEF ConnectionInv, TokensOK, PartOK
  <2>6. CalmConnection'
    <3>. SUFFICES ASSUME ~disturbed'
                  PROVE  /\ \A d \in Calls : HandsOK(d)' /\ HalfOK(d)'
                         /\ DisconnectSticks' /\ TokenKept'
      BY DEF CalmConnection
    <3>1. /\ DisconnectSticks /\ TokenKept /\ \A d \in Calls : HandsOK(d)
          /\ ~Disconnecting /\ \A d \in Calls : call[d].at # "clear"
      BY <1>0, <1>1, RowIsNew, Clearing DEF InFlight, ConnectionInv, CalmConnection
    <3>2. \A d \in Calls : HandsOK(d)' /\ HalfOK(d)'
      BY <1>0, <1>1, <2>2, <3>1 DEF HandsOK, HalfOK
    <3>3. DisconnectSticks' /\ TokenKept'
      BY <1>1, <3>1 DEF DisconnectSticks, TokenKept, HasToken
    <3>. QED
      BY <3>2, <3>3
  <2>. QED
    BY <2>4, <2>5, <2>6 DEF ConnectionInv
<1>. QED
  BY <1>2, <1>3

LEMMA StoreTokensStep ==
    ASSUME ConnectionInv, TypeOK', NEW c \in Calls, StoreTokens(c)
    PROVE  ConnectionInv'
<1>. DEFINE f == call[c].token
<1>0. /\ CallsOK(call) /\ f \in Flows /\ call[c].at = "store" /\ Finish(c)
      /\ UNCHANGED <<provider, listing, flow, older>> /\ disturbed' = disturbed
  BY DEF ConnectionInv, TypeOK, ConnectionsTypeOK, CallsOK, StoreTokens
<1>1. Works(c) /\ ~InFlight(c)' /\ call'[c].at = "done"
  BY <1>0, FinishWorks
<1>2. CASE UNCHANGED <<connection, stored>>
  <2>1. RowsStay
    BY <1>0, <1>2 DEF RowsStay
  <2>. QED
    BY <1>0, <1>1, <2>1, WorkStep
<1>3. ASSUME NEW refresh \in {f, call[c].previous}, provider = "GITHUB" \/ refresh # Null,
             NEW expiry \in GrantedExpiries, UpsertConnection(f, refresh, expiry, FALSE),
             stored' = stored \cup {f}
      PROVE  ConnectionInv'
  <2>1. connection'.access = f /\ connection'.refresh = refresh
    BY <1>3 DEF UpsertConnection
  <2>2. /\ f \notin stored /\ flow[f].at = "returned" /\ ~flow[f].code
        /\ \A d \in Calls \ {c} : call[d].at = "store" => call[d].token # f
        /\ call[c].previous \in stored \cup {Null}
    BY <1>0 DEF ConnectionInv, CodesOK, TokensOK, ConsentStoredOnce
  <2>3. CodesOK'
    BY <1>0, <1>1, <1>3, <2>2 DEF ConnectionInv, CodesOK, ConsentStoredOnce, Works
  <2>4. TokensOK'
    BY <1>0, <1>1, <1>3, <2>1, <2>2, NullAssumption DEF ConnectionInv, TokensOK, Works
  <2>5. \A d \in Calls : PartOK(d)'
    BY <1>0, <1>1 DEF ConnectionInv, PartOK, Works
  <2>6. CalmConnection'
    <3>. SUFFICES ASSUME ~disturbed'
                  PROVE  /\ \A d \in Calls : HandsOK(d)' /\ HalfOK(d)'
                         /\ DisconnectSticks' /\ TokenKept'
      BY DEF CalmConnection
    <3>1. /\ ~disturbed /\ DisconnectSticks /\ \A d \in Calls : HandsOK(d)
          /\ ~Disconnecting /\ \A d \in Calls : call[d].at # "clear"
      BY <1>0, RowIsNew, Clearing DEF InFlight, ConnectionInv, CalmConnection
    <3>2. refresh \notin older /\ f \notin older /\ f # Null
      BY <1>0, <1>3, <2>2, <3>1, NullAssumption DEF HandsOK, ConnectionInv, TokensOK
    <3>3. \A d \in Calls : HandsOK(d)' /\ HalfOK(d)'
      BY <1>0, <1>1, <1>3, <2>1, <3>1 DEF HandsOK, HalfOK, Works
    <3>4. DisconnectSticks' /\ TokenKept'
      BY <1>0, <1>3, <2>1, <3>1, <3>2 DEF DisconnectSticks, TokenKept, HasToken
    <3>. QED
      BY <3>3, <3>4
  <2>. QED
    BY <2>3, <2>4, <2>5, <2>6 DEF ConnectionInv
<1>. QED
  BY <1>2, <1>3 DEF StoreTokens

(* The refreshed access token is written over whatever the row has become.  *)
LEMMA RefreshStep ==
    ASSUME ConnectionInv, TypeOK', NEW c \in Calls, ToolRefresh(c) \/ SendRefresh(c)
    PROVE  ConnectionInv'
<1>. DEFINE f == call[c].token
<1>0. PICK next \in {"done", "draft"} : Refresh(c, next)
  BY DEF ToolRefresh, SendRefresh
<1>1. /\ CallsOK(call) /\ f \in stored /\ f \in Flows /\ call[c].at = "refresh" /\ PartOK(c)
      /\ UNCHANGED <<provider, listing, flow, stored, older>> /\ disturbed' = disturbed
  BY <1>0 DEF ConnectionInv, TypeOK, ConnectionsTypeOK, CallsOK, TokensOK, Refresh, ToolRefresh,
     SendRefresh, history
<1>2. connection'.access = f /\ connection'.refresh = connection.refresh
  BY <1>0 DEF Refresh, ConnectionInv, TypeOK, ConnectionsTypeOK, Connection
<1>3. Works(c) /\ call'[c].at \in {"done", "draft"}
  <2>1. CASE Finish(c)
    BY <1>1, <2>1, FinishWorks
  <2>2. CASE call' = [call EXCEPT ![c].at = "draft", ![c].token = Null]
    <3>1. /\ \A d \in Calls \ {c} : call'[d] = call[d]
          /\ call'[c].at = "draft" /\ call'[c].op = call[c].op
          /\ call'[c].previous = call[c].previous
      BY <1>1, <2>2 DEF CallsOK, Call
    <3>. QED
      BY <1>1, <3>1 DEF Works, PartOK
  <2>. QED
    BY <1>0, <2>1, <2>2 DEF Refresh, GoOn
<1>4. CodesOK'
  BY <1>1, <1>3 DEF ConnectionInv, CodesOK, ConsentStoredOnce, Works
<1>5. TokensOK'
  BY <1>1, <1>2, <1>3, NullAssumption DEF ConnectionInv, TokensOK, Works
<1>6. \A d \in Calls : PartOK(d)'
  BY <1>1, <1>3 DEF ConnectionInv, PartOK, Works
<1>7. CalmConnection'
  <2>. SUFFICES ASSUME ~disturbed'
                PROVE  /\ \A d \in Calls : HandsOK(d)' /\ HalfOK(d)'
                       /\ DisconnectSticks' /\ TokenKept'
    BY DEF CalmConnection
  <2>1. /\ ~disturbed /\ DisconnectSticks /\ \A d \in Calls : HandsOK(d)
        /\ ~Disconnecting /\ \A d \in Calls : call[d].at # "clear"
    BY <1>1, RowIsNew, Clearing DEF InFlight, ConnectionInv, CalmConnection
  <2>2. f \notin older /\ f # Null /\ (provider = "GMAIL" => connection.refresh # Null)
    BY <1>1, <2>1, NullAssumption DEF HandsOK
  <2>3. \A d \in Calls : HandsOK(d)' /\ HalfOK(d)'
    BY <1>1, <1>2, <1>3, <2>1 DEF HandsOK, HalfOK, Works
  <2>4. DisconnectSticks' /\ TokenKept'
    BY <1>1, <1>2, <2>1, <2>2 DEF DisconnectSticks, TokenKept, HasToken
  <2>. QED
    BY <2>3, <2>4
<1>. QED
  BY <1>4, <1>5, <1>6, <1>7 DEF ConnectionInv

LEMMA SyncRepositoryStep ==
    ASSUME ConnectionInv, TypeOK', NEW c \in Calls, SyncRepository(c)
    PROVE  ConnectionInv'
<1>. DEFINE f == call[c].token
<1>0. PICK x \in Repositories : listing' = [listing EXCEPT ![x] = f]
  BY DEF SyncRepository
<1>1. /\ CallsOK(call) /\ call[c].at = "repositories" /\ PartOK(c)
      /\ UNCHANGED <<provider, connection, flow, stored, older>> /\ disturbed' = disturbed
      /\ \A y \in Repositories : listing'[y] \in {listing[y], f}
  BY <1>0 DEF ConnectionInv, TypeOK, ConnectionsTypeOK, CallsOK, SyncRepository, history
<1>2. Works(c) /\ call'[c].at \in {"done", "repositories"}
  <2>1. CASE Finish(c)
    BY <1>1, <2>1, FinishWorks
  <2>2. ASSUME NEW y, call' = [call EXCEPT ![c].left = @ \ {y}]
        PROVE  Works(c) /\ call'[c].at = "repositories"
    <3>1. /\ \A d \in Calls \ {c} : call'[d] = call[d]
          /\ call'[c].at = call[c].at /\ call'[c].op = call[c].op /\ call'[c].token = f
          /\ call'[c].previous = call[c].previous
      BY <1>1, <2>2 DEF CallsOK, Call
    <3>. QED
      BY <1>1, <3>1 DEF Works, PartOK, InFlight
  <2>. QED
    BY <2>1, <2>2 DEF SyncRepository
<1>3. CodesOK'
  BY <1>1, <1>2 DEF ConnectionInv, CodesOK, ConsentStoredOnce, Works
<1>4. TokensOK' /\ \A d \in Calls : PartOK(d)'
  BY <1>1, <1>2 DEF ConnectionInv, TokensOK, PartOK, Works
<1>5. CalmConnection'
  <2>. SUFFICES ASSUME ~disturbed'
                PROVE  /\ \A d \in Calls : HandsOK(d)' /\ HalfOK(d)'
                       /\ DisconnectSticks' /\ TokenKept'
    BY DEF CalmConnection
  <2>1. /\ ~disturbed /\ DisconnectSticks /\ TokenKept /\ \A d \in Calls : HandsOK(d)
        /\ ~Disconnecting /\ \A d \in Calls : call[d].at # "clear"
    BY <1>1, RowIsNew, Clearing DEF InFlight, ConnectionInv, CalmConnection
  <2>2. f \notin older
    BY <1>1, <2>1 DEF HandsOK
  <2>3. \A d \in Calls : HandsOK(d)' /\ HalfOK(d)'
    <3>1. call'[c].at = "repositories" => call'[c].token \notin older
      BY <1>1, <1>2, <2>2, RowIsNew, <2>1 DEF Works, InFlight
    <3>. QED
      BY <1>1, <1>2, <2>1, <3>1 DEF HandsOK, HalfOK, Works
  <2>4. DisconnectSticks' /\ TokenKept'
    BY <1>1, <2>1, <2>2 DEF DisconnectSticks, TokenKept, HasToken
  <2>. QED
    BY <2>3, <2>4
<1>. QED
  BY <1>3, <1>4, <1>5 DEF ConnectionInv

-----------------------------------------------------------------------------
(* The steps that clear. *)

LEMMA PartCleared ==
    ASSUME ConnectionInv, NEW part, ClearPart(part)
    PROVE  /\ part \in {"connection", "installations"}
           /\ part = "connection" =>
                /\ connection'.access = Null /\ connection'.refresh = Null
                /\ connection'.status = "DISCONNECTED" /\ listing' = listing
                /\ older' = older \cup ({connection.access, connection.refresh} \ {Null})
           /\ part = "installations" =>
                /\ connection' = connection /\ older' = older
                /\ \A x \in Repositories : listing'[x] = Null
BY DEF ClearPart, ClearConnection, ClearInstallations, ConnectionInv, TypeOK, ConnectionsTypeOK,
   Connection

(* What clearing leaves is still accounted for.                             *)
LEMMA ClearedAccounted ==
    ASSUME ConnectionInv, NEW part, ClearPart(part), NEW c \in Calls,
           \A d \in Calls \ {c} : call'[d] = call[d],
           call'[c].at \notin {"redeem", "store", "refresh", "installation", "repositories"},
           call'[c].previous = Null, UNCHANGED <<provider, flow, stored>>
    PROVE  CodesOK' /\ TokensOK'
<1>1. CodesOK'
  BY DEF ConnectionInv, CodesOK, ConsentStoredOnce
<1>2. TokensOK'
  BY PartCleared DEF ConnectionInv, TokensOK
<1>. QED
  BY <1>1, <1>2

LEMMA BeginDisconnectStep ==
    ASSUME ConnectionInv, TypeOK', NEW c \in Calls, NEW part \in Parts, BeginDisconnect(c, part)
    PROVE  ConnectionInv'
<1>. DEFINE row == [Idle EXCEPT !.op = "disconnect", !.at = "clear", !.left = Parts \ {part}]
<1>0. /\ call[c].at = "idle" /\ ClearPart(part) /\ UNCHANGED <<provider, flow, stored>>
      /\ disturbed' = \E d \in Calls : InFlight(d)
      /\ call' = [call EXCEPT ![c] = IF Parts = {part} THEN Over ELSE row]
      /\ provider \in {"GMAIL", "GITHUB"} /\ Null \notin older'
  BY NullAssumption DEF BeginDisconnect, ConnectionInv, TypeOK, ConnectionsTypeOK
<1>1. /\ row.op = "disconnect" /\ row.at = "clear" /\ row.left = Parts \ {part}
      /\ row.previous = Null
      /\ Over.op = "none" /\ Over.at = "done" /\ Over.previous = Null
  BY DEF Over, Idle
<1>. HIDE DEF row
<1>2. /\ \A d \in Calls \ {c} : call'[d] = call[d]
      /\ call'[c] = IF Parts = {part} THEN Over ELSE row
  BY <1>0 DEF ConnectionInv, TypeOK, ConnectionsTypeOK
<1>3. /\ provider = "GMAIL" <=> Parts = {part}
      /\ provider = "GMAIL" => part = "connection"
      /\ part = "connection" => Parts \ {part} \subseteq {"installations"}
      /\ part = "installations" => Parts \ {part} = {"connection"}
      /\ Parts # {part} => Parts \ {part} \in {{"connection"}, {"installations"}}
  BY <1>0 DEF Parts
<1>4. CodesOK' /\ TokensOK'
  BY <1>0, <1>1, <1>2, ClearedAccounted
<1>5. \A d \in Calls : PartOK(d)'
  BY <1>0, <1>1, <1>2, <1>3 DEF ConnectionInv, PartOK
<1>6. CalmConnection'
  <2>. SUFFICES ASSUME ~disturbed'
                PROVE  /\ \A d \in Calls : HandsOK(d)' /\ HalfOK(d)'
                       /\ DisconnectSticks' /\ TokenKept'
    BY DEF CalmConnection
  <2>1. \A d \in Calls \ {c} : ~InFlight(d)' /\ call'[d].at \in {"idle", "done"}
    BY <1>0, <1>2 DEF InFlight
  <2>2. \A d \in Calls : HandsOK(d)'
    BY <1>1, <1>2, <2>1 DEF HandsOK
  <2>3. \A d \in Calls : HalfOK(d)'
    BY <1>0, <1>1, <1>2, <1>3, <2>1, PartCleared DEF HalfOK
  <2>4. DisconnectSticks'
    <3>1. CASE provider = "GITHUB"
      <4>1. InFlight(c)' /\ call'[c].op = "disconnect"
        BY <1>1, <1>2, <1>3, <3>1 DEF InFlight
      <4>. QED
        BY <4>1 DEF DisconnectSticks, Disconnecting
    <3>2. CASE provider = "GMAIL"
      BY <1>0, <1>3, <1>4, <3>2, PartCleared DEF DisconnectSticks, TokensOK
    <3>. QED
      BY <1>0, <3>1, <3>2
  <2>5. TokenKept'
    BY <1>0, <1>3, <1>4, PartCleared DEF TokenKept, HasToken, TokensOK
  <2>. QED
    BY <2>2, <2>3, <2>4, <2>5
<1>. QED
  BY <1>4, <1>5, <1>6 DEF ConnectionInv

LEMMA EndDisconnectStep ==
    ASSUME ConnectionInv, TypeOK', NEW c \in Calls, EndDisconnect(c)
    PROVE  ConnectionInv'
<1>0. /\ CallsOK(call) /\ call[c].at = "clear" /\ Finish(c)
      /\ UNCHANGED <<provider, flow, stored>> /\ disturbed' = disturbed
      /\ call[c].left \in {{"connection"}, {"installations"}} /\ Null \notin older'
  BY NullAssumption DEF ConnectionInv, TypeOK, ConnectionsTypeOK, CallsOK, PartOK, EndDisconnect
<1>1. PICK part : call[c].left = {part} /\ ClearPart(part)
  BY <1>0 DEF EndDisconnect
<1>2. /\ \A d \in Calls \ {c} : call'[d] = call[d]
      /\ call'[c].op = "none" /\ call'[c].at = "done" /\ call'[c].previous = Null
  <2>1. Over.op = "none" /\ Over.at = "done" /\ Over.previous = Null
    BY DEF Over, Idle
  <2>. QED
    BY <1>0, <2>1 DEF Finish, CallsOK
<1>3. CodesOK' /\ TokensOK'
  BY <1>0, <1>1, <1>2, ClearedAccounted
<1>4. \A d \in Calls : PartOK(d)'
  BY <1>0, <1>2 DEF ConnectionInv, PartOK
<1>5. CalmConnection'
  <2>. SUFFICES ASSUME ~disturbed'
                PROVE  /\ \A d \in Calls : HandsOK(d)' /\ HalfOK(d)'
                       /\ DisconnectSticks' /\ TokenKept'
    BY DEF CalmConnection
  <2>1. HalfOK(c) /\ TokenKept /\ ~disturbed
    BY <1>0 DEF ConnectionInv, CalmConnection
  <2>2. \A d \in Calls : call'[d].at \in {"idle", "done"}
    BY <1>0, <1>2, <2>1 DEF HalfOK, InFlight
  <2>3. \A d \in Calls : HandsOK(d)' /\ HalfOK(d)'
    BY <2>2 DEF HandsOK, HalfOK
  <2>4. DisconnectSticks'
    BY <1>0, <1>1, <2>1, PartCleared DEF DisconnectSticks, HalfOK
  <2>5. TokenKept'
    BY <1>0, <1>1, <2>1, PartCleared DEF TokenKept, HasToken
  <2>. QED
    BY <2>3, <2>4, <2>5
<1>. QED
  BY <1>3, <1>4, <1>5 DEF ConnectionInv

-----------------------------------------------------------------------------
LEMMA ConnectionInit ==
    ASSUME Init
    PROVE  ConnectionInv
<1>0. TypeOK
  BY TypeInit
<1>1. /\ older = {} /\ \A c \in Calls : call[c] = Idle
      /\ Idle.at = "idle" /\ Idle.op = "none" /\ Idle.previous = Null
      /\ \A f \in Flows : ~flow[f].code /\ (f \in stored => flow[f].at = "returned")
  BY DEF Init, ConnectionsInit, Idle
<1>2. /\ {connection.access, connection.refresh} \subseteq stored \cup {Null}
      /\ connection.status = "CONNECTED" => connection.access # Null /\ HasToken
      /\ provider = "GMAIL" => \A x \in Repositories : listing[x] = Null
  <2>1. CASE connection = NoConnection /\ listing = [x \in Repositories |-> Null]
    BY <2>1 DEF NoConnection
  <2>2. ASSUME NEW f \in Flows, stored = {f},
               NEW refresh \in {f} \cup (IF provider = "GITHUB" THEN {Null} ELSE {}),
               connection = [NoConnection EXCEPT !.status = "CONNECTED", !.access = f,
                                                 !.refresh = refresh],
               \/ listing = [x \in Repositories |-> Null]
               \/ provider = "GITHUB"
        PROVE  /\ {connection.access, connection.refresh} \subseteq stored \cup {Null}
               /\ connection.access # Null /\ HasToken
    <3>1. connection.access = f /\ connection.refresh = refresh
      BY <2>2 DEF NoConnection
    <3>. QED
      BY <2>2, <3>1, NullAssumption DEF HasToken
  <2>3. \/ connection = NoConnection /\ listing = [x \in Repositories |-> Null]
        \/ \E f \in Flows : stored = {f} /\
             \E refresh \in {f} \cup (IF provider = "GITHUB" THEN {Null} ELSE {}) :
               /\ connection = [NoConnection EXCEPT !.status = "CONNECTED", !.access = f,
                                                    !.refresh = refresh]
               /\ listing = [x \in Repositories |-> Null] \/ provider = "GITHUB"
    BY DEF Init, ConnectionsInit
  <2>4. provider \in {"GMAIL", "GITHUB"}
    BY DEF Init, ConnectionsInit
  <2>. QED
    BY <2>1, <2>2, <2>3, <2>4
<1>3. CodesOK /\ TokensOK
  <2>1. stored \subseteq Flows
    BY <1>0 DEF TypeOK, ConnectionsTypeOK
  <2>2. CodesOK
    BY <1>1, <2>1 DEF CodesOK, ConsentStoredOnce
  <2>3. TokensOK
    BY <1>1, <1>2 DEF TokensOK
  <2>. QED
    BY <2>2, <2>3
<1>4. CalmConnection
  <2>1. \A c \in Calls : HandsOK(c) /\ HalfOK(c)
    BY <1>1 DEF HandsOK, HalfOK
  <2>2. DisconnectSticks /\ TokenKept
    BY <1>1, <1>2 DEF DisconnectSticks, TokenKept, Init, ConnectionsInit
  <2>. QED
    BY <2>1, <2>2 DEF CalmConnection
<1>5. \A c \in Calls : PartOK(c)
  BY <1>1 DEF PartOK
<1>. QED
  BY <1>0, <1>3, <1>4, <1>5 DEF ConnectionInv

LEMMA ConnectionNext ==
    ASSUME ConnectionInv, [Next]_vars
    PROVE  ConnectionInv'
<1>1. TypeOK'
  BY TypeNext DEF ConnectionInv
<1>2. CASE ConnectionsNext
  BY <1>1, <1>2, FlowStep, DevMockStep, UserRowStep, BeginCompleteStep, BeginDisconnectStep,
     RedeemStep, StoreTokensStep, EndDisconnectStep, BeginStep, ReaderStep, RefreshStep,
     SyncInstallationStep, SyncRepositoryStep DEF ConnectionsNext
<1>3. CASE ReviewNext
  BY <1>1, <1>3, UserRowStep, BeginStep, AloofStep, ReaderStep, RefreshStep DEF ReviewNext
<1>. QED
  BY <1>1, <1>2, <1>3, UserRowStep DEF Next

(* The rows, the flows and the calls keep their types; a call that will     *)
(* write under a token's name has one.                                      *)
THEOREM TypeCorrect == Spec => []TypeOK
BY TypeInit, TypeNext, PTL DEF Spec

(* The inductive invariant of the connection.  It adds to the three         *)
(* properties where a token may be: a code is good for one call, what is in *)
(* the row or about to be written back was stored, and while nothing        *)
(* disturbed the last disconnect no call holds what it cleared.             *)
THEOREM ConnectionInvariance == Spec => []ConnectionInv
BY ConnectionInit, ConnectionNext, PTL DEF Spec

(* However often the callback page posts, and whatever the API or the       *)
(* broker forgets, completeOAuth() stores the tokens of a consent once.     *)
THEOREM ConsentsAreStoredOnce == Spec => []ConsentStoredOnce
<1>1. ConnectionInv => ConsentStoredOnce
  BY DEF ConnectionInv, CodesOK
<1>. QED
  BY <1>1, ConnectionInvariance, PTL

(* After a disconnect that nothing overlapped and that ran to its end, no   *)
(* later step of any call brings back a token it cleared or leaves a        *)
(* repository listed that was listed with one.                              *)
THEOREM DisconnectionSticks == Spec => []DisconnectSticks
<1>1. ConnectionInv => DisconnectSticks
  BY DEF ConnectionInv, CalmConnection, DisconnectSticks
<1>. QED
  BY <1>1, ConnectionInvariance, PTL

(* In a configured deployment, whatever calls, refreshes, disconnects and   *)
(* expiries have met: where status() answers CONNECTED, accessToken() finds *)
(* a token it can use or refresh, and so does the worker's provider but for *)
(* a GitHub token without refresh token in its last minute.  For Gmail the  *)
(* last disconnect must not have been overlapped; for GitHub it may.        *)
THEOREM ConnectedIsUsable == Spec => []ShownConnectedWorks
<1>1. ConnectionInv => ShownConnectedWorks
  <2>. SUFFICES ASSUME ConnectionInv, Configured, Shown = "CONNECTED",
                       provider = "GITHUB" \/ ~disturbed
                PROVE  /\ FindsToken("send")
                       /\ connection.expiry = "good" \/ connection.refresh # Null
                            => FindsToken("tool")
    BY DEF ShownConnectedWorks
  <2>1. provider \in {"GMAIL", "GITHUB"} /\ connection.expiry \in {"good", "due", "past"}
    BY DEF ConnectionInv, TypeOK, ConnectionsTypeOK, Connection, Expiries
  <2>2. connection.status = "CONNECTED" /\ connection.expiry # "past"
    BY <2>1 DEF Shown, gmailStatus, githubStatus, connectionState
  <2>3. connection.access # Null
    BY <2>2 DEF ConnectionInv, TokensOK
  <2>4. CASE provider = "GMAIL"
    <3>1. HasToken /\ connection.refresh # Null
      BY <2>2, <2>4 DEF ConnectionInv, CalmConnection, TokenKept, HasToken
    <3>. QED
      BY <2>4, <3>1 DEF FindsToken, Refreshes
  <2>5. CASE provider = "GITHUB"
    <3>1. HasToken /\ Usable("send")
      BY <2>1, <2>2, <2>3, <2>5 DEF HasToken, Usable
    <3>2. connection.expiry = "good" => Usable("tool")
      BY <2>3 DEF Usable
    <3>3. connection.refresh # Null => Refreshes("tool")
      BY DEF Refreshes
    <3>. QED
      BY <3>1, <3>2, <3>3 DEF FindsToken
  <2>. QED
    BY <2>1, <2>4, <2>5
<1>. QED
  BY <1>1, ConnectionInvariance, PTL

=============================================================================
