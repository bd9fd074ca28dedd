------------------------- MODULE AuthSessionsProofs -------------------------
(***************************************************************************)
(* What holds of AuthSessions for every number of tabs, requests and       *)
(* troubles.                                                               *)
(***************************************************************************)
EXTENDS AuthSessions, TLAPS

(* A row that is not there yet is in no family but its own, and a family's *)
(* first row is there.                                                     *)
RowsOK ==
    /\ \A s \in Sessions : ~Created(s) => family[s] = s /\ replacedBy[s] = NoSession
    /\ \A s \in Sessions : Created(s) => Created(family[s])

(* The session a request creates is there only once it is answered.        *)
FreshOK == \A r \in Requests : Created(r) => req[r].pc \in {"reply", "over"}

(* The browser's token was issued.                                         *)
CookieOK == cookie # NoSession => Created(cookie)

(* A locked row is live, and locked once.                                  *)
LocksOK ==
    /\ \A r \in Requests : req[r].pc = "locked" => IsLive(req[r].token)
    /\ \A p, q \in Requests :
          /\ req[p].pc = "locked" /\ req[q].pc = "locked"
          /\ req[p].token = req[q].token
          => p = q

(* Only a refresh rotates, and only an answered request has an answer.     *)
PlaceOK(r) ==
    /\ req[r].token # NoSession => Created(req[r].token)
    /\ req[r].pc \in Working \ {"revoke"} => req[r].op = "refresh"
    /\ req[r].reply # "none" => req[r].pc \in {"reply", "over"}

(* What an answer that grants a session tells of the rows.                 *)
GrantOK(r) == req[r].reply = "ok" =>
    /\ req[r].op = "enter" => Created(r)
    /\ req[r].op = "refresh" =>
          /\ Created(r) /\ req[r].token \in Sessions /\ replacedBy[req[r].token] = r

(* What the snapshot of a failed rotation tells of the family.             *)
RestOK(r) == req[r].pc = "rest" =>
    /\ \A s \in req[r].seen : family[s] = family[req[r].token] /\ Created(s)
    /\ req[r].seen = {} => LiveKin(req[r].token) = {}

(* What an answer of reuse tells of the family.                            *)
ReuseOK(r) ==
    /\ req[r].pc = "waiting" => req[r].raced /\ \A s \in req[r].seen : Created(s)
    /\ req[r].reply = "reuse" =>
          /\ req[r].token \in Sessions
          /\ ~req[r].raced => LiveKin(req[r].token) = {}

RequestOK(r) == PlaceOK(r) /\ GrantOK(r) /\ RestOK(r) /\ ReuseOK(r)

Inv ==
    /\ TypeOK /\ RowsOK /\ FamilyIsALine /\ FreshOK /\ CookieOK /\ LocksOK
    /\ \A r \in Requests : RequestOK(r)

-----------------------------------------------------------------------------
(* How a request moves. *)

LEMMA Places ==
    /\ {"unsent", "find", "reply", "over"} \cup Working \subseteq PCs
    /\ {"unsent", "find", "reply", "over"} \cap Working = {}
    /\ {"claim", "blocked", "locked", "family", "waiting", "rest", "revoke"} \subseteq Working
BY DEF PCs, Working

LEMMA Numbers == Requests \subseteq Sessions /\ 0 \in Sessions /\ NoSession \notin Sessions
BY BoundsAssumption, NamesAssumption DEF Requests, Sessions

LEMMA GoToMoves ==
    ASSUME req \in [Requests -> Request], NEW r \in Requests, NEW p \in PCs, GoTo(r, p)
    PROVE  /\ req' \in [Requests -> Request]
           /\ req'[r].pc = p /\ req'[r].op = req[r].op /\ req'[r].token = req[r].token
           /\ req'[r].seen = req[r].seen /\ req'[r].reply = req[r].reply
           /\ req'[r].raced = req[r].raced
           /\ \A q \in Requests \ {r} : req'[q] = req[q]
<1>1. req'[r] = [req[r] EXCEPT !.pc = p] /\ req[r] \in Request
  BY DEF GoTo
<1>. QED
  BY <1>1 DEF GoTo, Request

LEMMA AnswerMoves ==
    ASSUME req \in [Requests -> Request], NEW r \in Requests,
           NEW y \in {"ok", "unauthorized", "reuse", "error"}, Answer(r, y)
    PROVE  /\ req' \in [Requests -> Request]
           /\ req'[r].pc = "reply" /\ req'[r].op = req[r].op
           /\ req'[r].token = req[r].token /\ req'[r].seen = req[r].seen
           /\ req'[r].reply = y /\ req'[r].raced = req[r].raced
           /\ \A q \in Requests \ {r} : req'[q] = req[q]
<1>1. req'[r] = [req[r] EXCEPT !.pc = "reply", !.reply = y] /\ req[r] \in Request
  BY DEF Answer
<1>2. "reply" \in PCs
  BY Places
<1>. QED
  BY <1>1, <1>2 DEF Answer, Request

(* The requests that look at a family take a snapshot with them.           *)
LEMMA SnapshotMoves ==
    ASSUME req \in [Requests -> Request], NEW r \in Requests, NEW S \in SUBSET Sessions,
           req' = [req EXCEPT ![r].pc = "rest", ![r].seen = S]
    PROVE  /\ req' \in [Requests -> Request]
           /\ req'[r].pc = "rest" /\ req'[r].op = req[r].op /\ req'[r].token = req[r].token
           /\ req'[r].seen = S /\ req'[r].reply = req[r].reply
           /\ \A q \in Requests \ {r} : req'[q] = req[q]
<1>1. req'[r] = [req[r] EXCEPT !.pc = "rest", !.seen = S] /\ req[r] \in Request
  OBVIOUS
<1>2. "rest" \in PCs
  BY Places
<1>. QED
  BY <1>1, <1>2 DEF Request

LEMMA WaitMoves ==
    ASSUME req \in [Requests -> Request], NEW r \in Requests, NEW S \in SUBSET Sessions,
           req' = [req EXCEPT ![r].pc = "waiting", ![r].seen = S, ![r].raced = TRUE]
    PROVE  /\ req' \in [Requests -> Request]
           /\ req'[r].pc = "waiting" /\ req'[r].op = req[r].op
           /\ req'[r].token = req[r].token /\ req'[r].seen = S
           /\ req'[r].reply = req[r].reply /\ req'[r].raced
           /\ \A q \in Requests \ {r} : req'[q] = req[q]
<1>1. /\ req'[r] = [req[r] EXCEPT !.pc = "waiting", !.seen = S, !.raced = TRUE]
      /\ req[r] \in Request
  OBVIOUS
<1>2. "waiting" \in PCs
  BY Places
<1>. QED
  BY <1>1, <1>2 DEF Request

LEMMA SentTyped ==
    ASSUME TypeOK, NEW r \in Requests, NEW t \in Tabs,
           NEW o \in {"refresh", "enter", "logout"}
    PROVE  /\ Sent(r, t, o) \in Request
           /\ Sent(r, t, o).pc = "find" /\ Sent(r, t, o).op = o
           /\ Sent(r, t, o).token = cookie /\ Sent(r, t, o).reply = "none"
BY Places, NamesAssumption DEF TypeOK, Sent, Unsent, Request

LEMMA OpenMoves ==
    ASSUME TypeOK, NEW r \in Requests, NEW t \in Tabs, Open(r, t)
    PROVE  /\ req' \in [Requests -> Request] /\ req[r].pc = "unsent"
           /\ req'[r].pc = "find" /\ req'[r].token = cookie /\ req'[r].reply = "none"
           /\ \A q \in Requests \ {r} :
                 /\ req'[q].pc = req[q].pc /\ req'[q].op = req[q].op
                 /\ req'[q].token = req[q].token /\ req'[q].seen = req[q].seen
                 /\ req'[q].reply = req[q].reply /\ req'[q].raced = req[q].raced
<1>1. req \in [Requests -> Request]
  BY DEF TypeOK
<1>2. Sent(r, t, "refresh") \in Request
  BY SentTyped
<1>3. \A q \in Requests : [req[q] EXCEPT !.tab = NoTab] \in Request
  BY <1>1 DEF Request
<1>4. req' \in [Requests -> Request]
  BY <1>1, <1>2, <1>3 DEF Open
<1>5. req'[r] = Sent(r, t, "refresh") /\ req[r].pc = "unsent"
  BY DEF Open, IsNext
<1>6. ASSUME NEW q \in Requests \ {r}
      PROVE  /\ req'[q].pc = req[q].pc /\ req'[q].op = req[q].op
             /\ req'[q].token = req[q].token /\ req'[q].seen = req[q].seen
             /\ req'[q].reply = req[q].reply /\ req'[q].raced = req[q].raced
  <2>1. req'[q] = req[q] \/ req'[q] = [req[q] EXCEPT !.tab = NoTab]
    BY DEF Open
  <2>. QED
    BY <1>1, <2>1 DEF Request
<1>. QED
  BY <1>4, <1>5, <1>6, SentTyped

LEMMA SignMoves ==
    ASSUME TypeOK, NEW r \in Requests, NEW t \in Tabs, SignIn(r, t) \/ SignOut(r, t)
    PROVE  /\ req' \in [Requests -> Request] /\ req[r].pc = "unsent"
           /\ req'[r].pc = "find" /\ req'[r].token = cookie /\ req'[r].reply = "none"
           /\ \A q \in Requests \ {r} : req'[q] = req[q]
<1>1. req \in [Requests -> Request]
  BY DEF TypeOK
<1>2. PICK o \in {"enter", "logout"} : req' = [req EXCEPT ![r] = Sent(r, t, o)]
  BY DEF SignIn, SignOut
<1>. QED
  BY <1>1, <1>2, SentTyped DEF SignIn, SignOut, IsNext

LEMMA FinishedMoves ==
    ASSUME req \in [Requests -> Request], NEW r \in Requests, req' = Finished(r)
    PROVE  /\ req' \in [Requests -> Request]
           /\ req'[r].pc = "over" /\ req'[r].op = req[r].op
           /\ req'[r].token = req[r].token /\ req'[r].seen = req[r].seen
           /\ req'[r].reply = req[r].reply /\ req'[r].raced = req[r].raced
           /\ \A q \in Requests \ {r} : req'[q] = req[q]
<1>1. req'[r] = [req[r] EXCEPT !.pc = "over", !.tab = NoTab] /\ req[r] \in Request
  BY DEF Finished
<1>2. "over" \in PCs
  BY Places
<1>. QED
  BY <1>1, <1>2 DEF Finished, Request

-----------------------------------------------------------------------------
(* How the rows move: a family is founded, rows are revoked, or a session  *)
(* is replaced.                                                            *)

Founds(r) ==
    /\ ~Created(r)
    /\ session' = [session EXCEPT ![r] = "live"]
    /\ UNCHANGED <<family, replacedBy>>

Revokes(S) ==
    /\ \A s \in S : s \in Sessions /\ Created(s) /\ s \notin Locked
    /\ Revoke(S)
    /\ UNCHANGED <<family, replacedBy>>

Replaces(s, r) ==
    /\ IsLive(s) /\ ~Created(r)
    /\ session' = [session EXCEPT ![s] = "revoked", ![r] = "live"]
    /\ family' = [family EXCEPT ![r] = family[s]]
    /\ replacedBy' = [replacedBy EXCEPT ![s] = r]

RowStep ==
    \/ UNCHANGED <<session, family, replacedBy>>
    \/ \E r \in Requests : Founds(r)
    \/ \E S \in SUBSET Sessions : Revokes(S)
    \/ \E s \in Sessions, r \in Requests : Replaces(s, r)

RowsTyped ==
    /\ session \in [Sessions -> {"none", "live", "revoked"}]
    /\ family \in [Sessions -> Sessions]
    /\ replacedBy \in [Sessions -> Sessions \cup {NoSession}]

(* A row that is there stays, in its family, and is replaced once.         *)
LEMMA RowsPersist ==
    ASSUME RowsTyped, FamilyIsALine, RowStep
    PROVE  /\ RowsTyped'
           /\ \A s \in Sessions : Created(s) => Created(s)' /\ family'[s] = family[s]
           /\ \A s \in Sessions :
                 replacedBy[s] # NoSession => replacedBy'[s] = replacedBy[s]
<1>1. CASE UNCHANGED <<session, family, replacedBy>>
  BY <1>1 DEF RowsTyped, Created
<1>2. CASE \E r \in Requests : Founds(r)
  BY <1>2, Numbers DEF RowsTyped, Created, Founds
<1>3. CASE \E S \in SUBSET Sessions : Revokes(S)
  BY <1>3 DEF RowsTyped, Created, Revokes, Revoke
<1>4. CASE \E s \in Sessions, r \in Requests : Replaces(s, r)
  BY <1>4, Numbers DEF RowsTyped, Created, IsLive, Replaces, FamilyIsALine
<1>. QED
  BY <1>1, <1>2, <1>3, <1>4 DEF RowStep

(* The families stay lines.                                                *)
LEMMA LinePreserved ==
    ASSUME RowsTyped, RowsOK, FamilyIsALine, RowStep
    PROVE  RowsOK' /\ FamilyIsALine'
<1>1. CASE UNCHANGED <<session, family, replacedBy>>
  BY <1>1 DEF RowsOK, FamilyIsALine, Created
<1>2. CASE \E r \in Requests : Founds(r)
  <2>1. PICK r \in Requests : Founds(r)
    BY <1>2
  <2>2. r \in Sessions /\ family[r] = r /\ replacedBy[r] = NoSession
    BY <2>1, Numbers DEF Founds, RowsOK
  <2>3. RowsOK'
    BY <2>1, <2>2 DEF RowsTyped, RowsOK, Founds, Created
  <2>4. FamilyIsALine'
    <3>1. \A s \in Sessions : replacedBy'[s] # NoSession =>
             /\ session'[s] = "revoked" /\ session'[replacedBy'[s]] # "none"
             /\ family'[replacedBy'[s]] = family'[s]
      BY <2>1, <2>2 DEF RowsTyped, FamilyIsALine, Founds, Created
    <3>2. \A s \in Sessions : Created(s)' /\ family'[s] # s =>
             \E p \in Sessions : replacedBy'[p] = s
      BY <2>1, <2>2 DEF RowsTyped, FamilyIsALine, Founds, Created
    <3>3. \A p, q \in Sessions :
             replacedBy'[p] = replacedBy'[q] /\ replacedBy'[p] # NoSession => p = q
      BY <2>1 DEF FamilyIsALine, Founds
    <3>4. \A s, q \in Sessions :
             /\ Created(s)' /\ Created(q)' /\ family'[s] = family'[q]
             /\ replacedBy'[s] = NoSession /\ replacedBy'[q] = NoSession
             => s = q
      BY <2>1, <2>2 DEF RowsTyped, RowsOK, FamilyIsALine, Founds, Created
    <3>. QED
      BY <3>1, <3>2, <3>3, <3>4 DEF FamilyIsALine, Created
  <2>. QED
    BY <2>3, <2>4
<1>3. CASE \E S \in SUBSET Sessions : Revokes(S)
  <2>1. \A s \in Sessions : /\ Created(s)' <=> Created(s)
                            /\ session[s] = "revoked" => session'[s] = "revoked"
    BY <1>3 DEF RowsTyped, Created, Revokes, Revoke
  <2>2. family' = family /\ replacedBy' = replacedBy
    BY <1>3 DEF Revokes
  <2>. QED
    BY <2>1, <2>2 DEF RowsTyped, RowsOK, FamilyIsALine, Created
<1>4. CASE \E s \in Sessions, r \in Requests : Replaces(s, r)
  <2>1. PICK s \in Sessions, r \in Requests : Replaces(s, r)
    BY <1>4
  <2>2. /\ r \in Sessions /\ family[r] = r /\ replacedBy[r] = NoSession /\ r # s
        /\ replacedBy[s] = NoSession /\ Created(s) /\ ~Created(r)
        /\ r # NoSession
    BY <2>1, Numbers DEF Replaces, RowsOK, FamilyIsALine, IsLive, Created
  <2>3. /\ \A p \in Sessions \ {s, r} :
              /\ session'[p] = session[p] /\ family'[p] = family[p]
              /\ replacedBy'[p] = replacedBy[p]
        /\ session'[s] = "revoked" /\ session'[r] = "live"
        /\ family'[s] = family[s] /\ family'[r] = family[s]
        /\ replacedBy'[s] = r /\ replacedBy'[r] = NoSession
    BY <2>1, <2>2 DEF RowsTyped, Replaces
  <2>4. \A p \in Sessions : /\ Created(p)' <=> Created(p) \/ p = r
                            /\ replacedBy[p] # r
    BY <2>2, <2>3 DEF Created, FamilyIsALine
  <2>5. RowsOK'
    BY <2>2, <2>3, <2>4 DEF RowsTyped, RowsOK
  <2>6. FamilyIsALine'
    <3>1. \A p \in Sessions : replacedBy'[p] # NoSession =>
             /\ session'[p] = "revoked" /\ session'[replacedBy'[p]] # "none"
             /\ family'[replacedBy'[p]] = family'[p]
      BY <2>2, <2>3, <2>4 DEF RowsTyped, FamilyIsALine, Created
    <3>2. \A p \in Sessions : Created(p)' /\ family'[p] # p =>
             \E q \in Sessions : replacedBy'[q] = p
      <4>. SUFFICES ASSUME NEW p \in Sessions, Created(p)', family'[p] # p
                    PROVE  \E q \in Sessions : replacedBy'[q] = p
        OBVIOUS
      <4>1. CASE p = r
        BY <4>1, <2>3
      <4>2. CASE p # r
        <5>1. Created(p) /\ family[p] # p
          BY <4>2, <2>3, <2>4
        <5>2. PICK q \in Sessions : replacedBy[q] = p
          BY <5>1 DEF FamilyIsALine
        <5>3. replacedBy'[q] = p
          BY <5>2, <2>2, <2>3, Numbers
        <5>. QED
          BY <5>3
      <4>. QED
        BY <4>1, <4>2
    <3>3. \A p, q \in Sessions :
             replacedBy'[p] = replacedBy'[q] /\ replacedBy'[p] # NoSession => p = q
      BY <2>2, <2>3, <2>4 DEF FamilyIsALine
    <3>4. \A p, q \in Sessions :
             /\ Created(p)' /\ Created(q)' /\ family'[p] = family'[q]
             /\ replacedBy'[p] = NoSession /\ replacedBy'[q] = NoSession
             => p = q
      BY <2>2, <2>3, <2>4 DEF FamilyIsALine
    <3>. QED
      BY <3>1, <3>2, <3>3, <3>4 DEF FamilyIsALine, Created
  <2>. QED
    BY <2>5, <2>6
<1>. QED
  BY <1>1, <1>2, <1>3, <1>4 DEF RowStep

(* A family that has ended stays ended.                                    *)
LEMMA EndedStays ==
    ASSUME RowsTyped, RowsOK, RowStep, NEW s \in Sessions, Created(s), LiveKin(s) = {}
    PROVE  LiveKin(s)' = {}
<1>. SUFFICES ASSUME NEW q \in Sessions, session'[q] = "live", family'[q] = family'[s]
              PROVE  FALSE
  BY DEF LiveKin, IsLive
<1>0. \A p \in Sessions : ~(session[p] = "live" /\ family[p] = family[s])
  BY DEF LiveKin, IsLive
<1>1. CASE UNCHANGED <<session, family, replacedBy>>
  BY <1>0, <1>1
<1>2. CASE \E r \in Requests : Founds(r)
  BY <1>0, <1>2, Numbers DEF RowsTyped, RowsOK, Created, Founds
<1>3. CASE \E S \in SUBSET Sessions : Revokes(S)
  BY <1>0, <1>3 DEF RowsTyped, Revokes, Revoke
<1>4. CASE \E p \in Sessions, r \in Requests : Replaces(p, r)
  BY <1>0, <1>4, Numbers DEF RowsTyped, RowsOK, Created, IsLive, Replaces
<1>. QED
  BY <1>1, <1>2, <1>3, <1>4 DEF RowStep

-----------------------------------------------------------------------------
(* How the steps of one request leave the others. *)

SameRequest(q) ==
    /\ req'[q].pc = req[q].pc /\ req'[q].op = req[q].op
    /\ req'[q].token = req[q].token /\ req'[q].seen = req[q].seen
    /\ req'[q].reply = req[q].reply /\ req'[q].raced = req[q].raced

LEMMA OthersOK ==
    ASSUME RowsTyped, RowsOK, FamilyIsALine, RowStep, req \in [Requests -> Request],
           NEW q \in Requests, RequestOK(q), SameRequest(q),
           req[q].pc \in Working => req[q].token \in Sessions
    PROVE  RequestOK(q)'
<1>. /\ req[q] \in Request /\ req[q].token \in Sessions \cup {NoSession}
     /\ req[q].seen \subseteq Sessions
  BY DEF Request
<1>1. /\ \A s \in Sessions : Created(s) => Created(s)' /\ family'[s] = family[s]
      /\ \A s \in Sessions : replacedBy[s] # NoSession => replacedBy'[s] = replacedBy[s]
  BY RowsPersist
<1>2. \A s \in Sessions : Created(s) /\ LiveKin(s) = {} => LiveKin(s)' = {}
  BY EndedStays
<1>3. PlaceOK(q)'
  BY <1>1 DEF RequestOK, PlaceOK, SameRequest, Created
<1>4. GrantOK(q)'
  BY <1>1, Numbers DEF RequestOK, GrantOK, SameRequest, Created
<1>7. (LiveKin(req[q].token) = {} /\ req[q].token \in Sessions /\ Created(req[q].token))
          => LiveKin(req[q].token)' = {}
  <2>. SUFFICES ASSUME LiveKin(req[q].token) = {}, req[q].token \in Sessions,
                       Created(req[q].token)
                PROVE  LiveKin(req[q].token)' = {}
    OBVIOUS
  <2>. PICK t \in Sessions : t = req[q].token
    OBVIOUS
  <2>1. LiveKin(t)' = {}
    BY <1>2
  <2>2. req'[q].token = t
    BY DEF SameRequest
  <2>. QED
    BY <2>1, <2>2 DEF LiveKin, IsLive
<1>5. RestOK(q)'
  <2>. SUFFICES ASSUME req'[q].pc = "rest"
                PROVE  /\ \A s \in req'[q].seen :
                             family'[s] = family'[req'[q].token] /\ Created(s)'
                       /\ req'[q].seen = {} => LiveKin(req[q].token)' = {}
    BY DEF RestOK
  <2>1. req[q].pc = "rest" /\ req[q].seen = req'[q].seen /\ req[q].token = req'[q].token
    BY DEF SameRequest
  <2>2. req[q].token \in Sessions /\ Created(req[q].token)
    BY <2>1, Places, Numbers DEF RequestOK, PlaceOK
  <2>3. \A s \in req[q].seen : family[s] = family[req[q].token] /\ Created(s)
    BY <2>1 DEF RequestOK, RestOK
  <2>4. req[q].seen = {} => LiveKin(req[q].token)' = {}
    BY <1>7, <2>1, <2>2 DEF RequestOK, RestOK
  <2>. QED
    BY <1>1, <2>1, <2>2, <2>3, <2>4
<1>6. ReuseOK(q)'
  <2>1. req[q].pc = "waiting" => req[q].raced /\ \A s \in req[q].seen : Created(s)'
    BY <1>1 DEF RequestOK, ReuseOK
  <2>2. req[q].reply = "reuse" =>
          /\ req[q].token \in Sessions
          /\ ~req[q].raced => LiveKin(req[q].token)' = {}
    BY <1>7, Numbers DEF RequestOK, ReuseOK, PlaceOK
  <2>. QED
    BY <2>1, <2>2 DEF ReuseOK, SameRequest, Created
<1>. QED
  BY <1>3, <1>4, <1>5, <1>6 DEF RequestOK
(* Row locks survive what the others do.                                   *)
LocksHold(r) ==
    /\ \A q \in Requests \ {r} : req[q].pc = "locked" => session'[req[q].token] = "live"
    /\ req'[r].pc = "locked" =>
          /\ session'[req'[r].token] = "live"
          /\ \A q \in Requests \ {r} : req[q].pc = "locked" => req[q].token # req'[r].token

(* A row that is new is the row of the request that answers.               *)
FreshStep(r) ==
    /\ \A s \in Sessions : Created(s)' => Created(s) \/ s = r
    /\ Created(r)' => req'[r].pc \in {"reply", "over"}

BrowserTyped ==
    /\ expired \subseteq Sessions /\ cookie \in Sessions \cup {NoSession}
    /\ tab \in [Tabs -> Tab] /\ troubles \in 0 .. MaxTroubles

(* What is left to show of a step of one request.                          *)
LEMMA StepKeeps ==
    ASSUME Inv, RowStep, NEW r \in Requests, req' \in [Requests -> Request],
           \A q \in Requests \ {r} : SameRequest(q),
           RequestOK(r)', req'[r].pc \in Working => req'[r].token \in Sessions,
           LocksHold(r), FreshStep(r), BrowserTyped',
           cookie' = cookie \/ CookieOK'
    PROVE  Inv'
<1>0. RowsTyped /\ RowsOK /\ FamilyIsALine /\ req \in [Requests -> Request]
  BY DEF Inv, TypeOK, RowsTyped
<1>1. /\ RowsTyped' /\ RowsOK' /\ FamilyIsALine'
      /\ \A s \in Sessions : Created(s) => Created(s)'
  BY <1>0, RowsPersist, LinePreserved
<1>2. \A q \in Requests : RequestOK(q)'
  <2>. SUFFICES ASSUME NEW q \in Requests, q # r PROVE RequestOK(q)'
    OBVIOUS
  <2>1. RequestOK(q) /\ SameRequest(q) /\ (req[q].pc \in Working => req[q].token \in Sessions)
    BY DEF Inv, TypeOK
  <2>. QED
    BY <1>0, <2>1, OthersOK
<1>3. TypeOK'
  <2>1. \A q \in Requests : req'[q].pc \in Working =>
           req'[q].token \in Sessions /\ session'[req'[q].token] # "none"
    <3>. SUFFICES ASSUME NEW q \in Requests, req'[q].pc \in Working
                  PROVE  req'[q].token \in Sessions /\ session'[req'[q].token] # "none"
      BY DEF Created
    <3>1. req'[q].token \in Sessions
      BY DEF Inv, TypeOK, SameRequest
    <3>2. req'[q].token # NoSession
      BY <3>1, Numbers
    <3>. QED
      BY <1>2, <3>1, <3>2 DEF RequestOK, PlaceOK, Created
  <2>. QED
    BY <1>1, <2>1 DEF TypeOK, RowsTyped, BrowserTyped, Created
<1>4. FreshOK'
  BY Numbers DEF Inv, FreshOK, FreshStep, SameRequest
<1>5. CookieOK'
  <2>. SUFFICES ASSUME cookie' = cookie, cookie # NoSession PROVE session'[cookie] # "none"
    BY DEF CookieOK, Created
  <2>. QED
    BY <1>1 DEF Inv, TypeOK, CookieOK, Created
<1>6. LocksOK'
  BY DEF Inv, LocksOK, LocksHold, SameRequest, IsLive
<1>. QED
  BY <1>1, <1>2, <1>3, <1>4, <1>5, <1>6 DEF Inv

(* A step of the API that changes no row.                                  *)
LEMMA TurnKeeps ==
    ASSUME Inv, UNCHANGED <<rows, browser>>, NEW r \in Requests,
           req' \in [Requests -> Request],
           \A q \in Requests \ {r} : SameRequest(q),
           RequestOK(r)', req'[r].pc \in Working => req'[r].token \in Sessions,
           req'[r].pc = "locked" =>
              IsLive(req'[r].token) /\ (req[r].pc = "locked" \/ req'[r].token \notin Locked),
           req'[r].token = req[r].token,
           Created(r) => req'[r].pc \in {"reply", "over"},
           troubles' \in 0 .. MaxTroubles
    PROVE  Inv'
<1>1. RowStep
  BY DEF RowStep, rows
<1>2. FreshStep(r) /\ BrowserTyped' /\ cookie' = cookie
  BY DEF FreshStep, BrowserTyped, Inv, TypeOK, rows, browser, Created
<1>3. LocksHold(r)
  BY DEF LocksHold, Inv, LocksOK, Locked, rows, IsLive
<1>. QED
  BY <1>1, <1>2, <1>3, StepKeeps
-----------------------------------------------------------------------------
(* Each action keeps the invariant. *)

LEMMA InvFacts ==
    ASSUME Inv, NEW r \in Requests
    PROVE  /\ req \in [Requests -> Request] /\ RequestOK(r)
           /\ RowsTyped /\ RowsOK /\ FamilyIsALine
           /\ cookie \in Sessions \cup {NoSession} /\ troubles \in 0 .. MaxTroubles
           /\ req[r] \in Request /\ req[r].token \in Sessions \cup {NoSession}
           /\ req[r].seen \subseteq Sessions
           /\ req[r].pc \in Working => req[r].token \in Sessions /\ Created(req[r].token)
           /\ req[r].token \in Sessions => Created(req[r].token)
           /\ req[r].pc \notin {"reply", "over"} => ~Created(r)
           /\ r \in Sessions
<1>1. req \in [Requests -> Request] /\ RowsTyped
  BY DEF Inv, TypeOK, RowsTyped
<1>2. req[r] \in Request /\ req[r].token \in Sessions \cup {NoSession} /\ req[r].seen \subseteq Sessions
  BY <1>1 DEF Request
<1>3. req[r].token \in Sessions => Created(req[r].token)
  BY Numbers DEF Inv, RequestOK, PlaceOK
<1>. QED
  BY <1>1, <1>2, <1>3, Numbers DEF Inv, TypeOK, FreshOK, Created

(* A request goes to a place where nothing more is asked of it.            *)
LEMMA GoToKeeps ==
    ASSUME Inv, NEW r \in Requests, UNCHANGED <<rows, browser, troubles>>,
           NEW p \in {"claim", "blocked", "locked", "family", "revoke"},
           GoTo(r, p), req[r].pc \in {"find", "claim", "blocked"},
           req[r].token \in Sessions,
           p # "revoke" => req[r].op = "refresh",
           p = "locked" => IsLive(req[r].token) /\ req[r].token \notin Locked
    PROVE  Inv'
<1>1. p \in PCs /\ p \in Working /\ p \notin {"rest", "waiting", "reply", "over"}
  BY Places DEF Working
<1>2. /\ req' \in [Requests -> Request]
      /\ req'[r].pc = p /\ req'[r].op = req[r].op /\ req'[r].token = req[r].token
      /\ req'[r].reply = req[r].reply /\ req'[r].raced = req[r].raced
      /\ \A q \in Requests \ {r} : req'[q] = req[q]
  BY <1>1, GoToMoves, InvFacts
<1>3. req[r].reply = "none"
  BY InvFacts, Places DEF RequestOK, PlaceOK
<1>4. RequestOK(r)'
  <2>1. PlaceOK(r)'
    BY <1>1, <1>2, <1>3, InvFacts DEF RequestOK, PlaceOK, rows, Created
  <2>2. GrantOK(r)' /\ RestOK(r)' /\ ReuseOK(r)'
    BY <1>1, <1>2, <1>3 DEF GrantOK, RestOK, ReuseOK
  <2>. QED
    BY <2>1, <2>2 DEF RequestOK
<1>5. \A q \in Requests \ {r} : SameRequest(q)
  BY <1>2 DEF SameRequest
<1>6. ~Created(r) /\ troubles' \in 0 .. MaxTroubles
  BY InvFacts, Places
<1>7. p = "locked" => IsLive(req'[r].token) /\ req'[r].token \notin Locked
  BY <1>2
<1>. QED
  BY <1>1, <1>2, <1>4, <1>5, <1>6, <1>7, TurnKeeps

(* A request is refused, or a logout finds nothing to revoke.              *)
LEMMA RefusalKeeps ==
    ASSUME Inv, NEW r \in Requests, UNCHANGED <<rows, browser>>,
           troubles' \in 0 .. MaxTroubles,
           NEW y \in {"ok", "unauthorized", "error"}, Answer(r, y),
           y = "ok" => req[r].op = "logout"
    PROVE  Inv'
<1>1. /\ req' \in [Requests -> Request]
      /\ req'[r].pc = "reply" /\ req'[r].op = req[r].op /\ req'[r].token = req[r].token
      /\ req'[r].reply = y
      /\ \A q \in Requests \ {r} : req'[q] = req[q]
  BY AnswerMoves, InvFacts
<1>2. RequestOK(r)'
  <2>1. PlaceOK(r)'
    BY <1>1, Places, InvFacts DEF RequestOK, PlaceOK, rows, Created
  <2>2. GrantOK(r)' /\ RestOK(r)' /\ ReuseOK(r)'
    BY <1>1 DEF GrantOK, RestOK, ReuseOK
  <2>. QED
    BY <2>1, <2>2 DEF RequestOK
<1>3. \A q \in Requests \ {r} : SameRequest(q)
  BY <1>1 DEF SameRequest
<1>. QED
  BY <1>1, <1>2, <1>3, Places, TurnKeeps

(* Rows of nobody's lock are revoked and the request is answered.          *)
LEMMA RevokesKeeps ==
    ASSUME Inv, NEW r \in Requests, NEW S \in SUBSET Sessions, Revokes(S),
           UNCHANGED <<expired, browser, troubles>>,
           NEW y \in {"ok", "unauthorized", "reuse"}, Answer(r, y),
           req[r].pc \in Working,
           y = "ok" => req[r].op = "logout",
           y = "reuse" => req[r].raced \/ LiveKin(req[r].token)' = {}
    PROVE  Inv'
<1>1. /\ req' \in [Requests -> Request]
      /\ req'[r].pc = "reply" /\ req'[r].op = req[r].op /\ req'[r].token = req[r].token
      /\ req'[r].reply = y /\ req'[r].raced = req[r].raced
      /\ \A q \in Requests \ {r} : req'[q] = req[q]
  BY AnswerMoves, InvFacts
<1>2. RowStep
  BY DEF RowStep
<1>3. req[r].token \in Sessions /\ Created(req[r].token) /\ RowsTyped
  BY InvFacts
<1>4. \A s \in Sessions : /\ session'[s] = IF s \in S THEN "revoked" ELSE session[s]
                          /\ Created(s)' <=> Created(s)
  BY <1>3 DEF Revokes, Revoke, RowsTyped, Created
<1>5. RequestOK(r)'
  <2>1. PlaceOK(r)'
    BY <1>1, <1>3, <1>4, Places DEF PlaceOK, Created
  <2>2. GrantOK(r)' /\ RestOK(r)' /\ ReuseOK(r)'
    BY <1>1, <1>3 DEF GrantOK, RestOK, ReuseOK
  <2>. QED
    BY <2>1, <2>2 DEF RequestOK
<1>6. \A q \in Requests \ {r} : SameRequest(q)
  BY <1>1 DEF SameRequest
<1>7. FreshStep(r)
  BY <1>1, <1>4 DEF FreshStep
<1>8. LocksHold(r)
  <2>1. \A q \in Requests : req[q].pc = "locked" =>
           req[q].token \in Sessions /\ IsLive(req[q].token) /\ req[q].token \in Locked
    BY Places DEF Inv, TypeOK, LocksOK, Locked
  <2>2. \A q \in Requests : req[q].pc = "locked" => req[q].token \notin S
    BY <2>1 DEF Revokes
  <2>. QED
    BY <1>1, <1>4, <2>1, <2>2 DEF LocksHold, IsLive
<1>9. BrowserTyped' /\ cookie' = cookie
  BY DEF Inv, TypeOK, BrowserTyped, browser
<1>. QED
  BY <1>1, <1>2, <1>5, <1>6, <1>7, <1>8, <1>9, Places, StepKeeps
LEMMA CookieStays == ASSUME Inv PROVE cookie # NoSession => Created(cookie)
BY DEF Inv, CookieOK

(* The three ways the browser sends.                                       *)
LEMMA SendKeeps ==
    ASSUME Inv, NEW r \in Requests, NEW t \in Tabs,
           Open(r, t) \/ SignIn(r, t) \/ SignOut(r, t)
    PROVE  Inv'
<1>0. TypeOK /\ UNCHANGED <<rows, cookie, troubles>>
  BY DEF Inv, Open, SignIn, SignOut, browser
<1>1. /\ req' \in [Requests -> Request] /\ req[r].pc = "unsent"
      /\ req'[r].pc = "find" /\ req'[r].token = cookie /\ req'[r].reply = "none"
      /\ \A q \in Requests \ {r} : SameRequest(q)
  <2>1. CASE Open(r, t)
    BY <1>0, <2>1, OpenMoves DEF SameRequest
  <2>2. CASE SignIn(r, t) \/ SignOut(r, t)
    BY <1>0, <2>2, SignMoves DEF SameRequest
  <2>. QED
    BY <2>1, <2>2
<1>2. RowStep
  BY <1>0 DEF RowStep, rows
<1>3. RequestOK(r)'
  <2>1. PlaceOK(r)'
    BY <1>0, <1>1, Places, CookieStays DEF PlaceOK, rows, Created
  <2>2. GrantOK(r)' /\ RestOK(r)' /\ ReuseOK(r)'
    BY <1>1 DEF GrantOK, RestOK, ReuseOK
  <2>. QED
    BY <2>1, <2>2 DEF RequestOK
<1>4. ~Created(r)
  BY <1>1, InvFacts
<1>5. FreshStep(r)
  BY <1>0, <1>4 DEF FreshStep, rows, Created
<1>6. LocksHold(r)
  BY <1>0, <1>1 DEF LocksHold, Inv, LocksOK, rows, IsLive
<1>7. BrowserTyped'
  <2>1. tab' \in [Tabs -> Tab]
    BY <1>0, NamesAssumption
       DEF TypeOK, Tab, Open, SignIn, SignOut, Closed, browser
  <2>. QED
    BY <1>0, <2>1 DEF TypeOK, BrowserTyped, rows
<1>. QED
  BY <1>0, <1>1, <1>2, <1>3, <1>5, <1>6, <1>7, Places, StepKeeps

LEMMA EnterKeeps == ASSUME Inv, NEW r \in Requests, Enter(r) PROVE Inv'
<1>0. UNCHANGED <<family, replacedBy, expired, browser, troubles>> /\ req[r].op = "enter"
  BY DEF Enter
<1>1. CASE Answer(r, "unauthorized") /\ UNCHANGED session
  BY <1>0, <1>1, InvFacts, RefusalKeeps DEF rows
<1>2. CASE session' = [session EXCEPT ![r] = "live"] /\ Answer(r, "ok")
  <2>1. ~Created(r)
    BY InvFacts DEF Enter
  <2>2. RowStep
    BY <1>0, <1>2, <2>1 DEF RowStep, Founds
  <2>3. \A s \in Sessions : session'[s] = IF s = r THEN "live" ELSE session[s]
    BY <1>2, InvFacts DEF RowsTyped
  <2>4. /\ req' \in [Requests -> Request]
        /\ req'[r].pc = "reply" /\ req'[r].op = req[r].op /\ req'[r].token = req[r].token
        /\ req'[r].reply = "ok" /\ req'[r].raced = req[r].raced
        /\ \A q \in Requests \ {r} : req'[q] = req[q]
    BY <1>2, AnswerMoves, InvFacts
  <2>5. RequestOK(r)'
    <3>1. PlaceOK(r)'
      BY <2>3, <2>4, Places, InvFacts DEF PlaceOK, Created
    <3>2. GrantOK(r)' /\ RestOK(r)' /\ ReuseOK(r)'
      BY <1>0, <2>3, <2>4, Numbers DEF GrantOK, RestOK, ReuseOK, Created
    <3>. QED
      BY <3>1, <3>2 DEF RequestOK
  <2>6. \A q \in Requests \ {r} : SameRequest(q)
    BY <2>4 DEF SameRequest
  <2>7. FreshStep(r)
    BY <2>3, <2>4 DEF FreshStep, Created
  <2>8. LocksHold(r)
    BY <2>3, <2>4, Places DEF LocksHold, Inv, TypeOK, LocksOK, IsLive
  <2>9. BrowserTyped' /\ cookie' = cookie
    BY <1>0 DEF Inv, TypeOK, BrowserTyped, browser
  <2>. QED
    BY <2>2, <2>4, <2>5, <2>6, <2>7, <2>8, <2>9, Places, StepKeeps
<1>. QED
  BY <1>1, <1>2 DEF Enter

LEMMA FindForRefreshKeeps == ASSUME Inv, NEW r \in Requests, FindForRefresh(r) PROVE Inv'
<1>0. /\ UNCHANGED <<rows, browser, troubles>> /\ req[r].op = "refresh" /\ req[r].pc = "find"
      /\ troubles' \in 0 .. MaxTroubles /\ req[r].token \in Sessions \cup {NoSession}
  BY InvFacts DEF FindForRefresh
<1>1. \/ Answer(r, "unauthorized")
      \/ req[r].token # NoSession /\ (\E p \in {"family", "revoke", "claim"} : GoTo(r, p))
  BY DEF FindForRefresh
<1>. QED
  BY <1>0, <1>1, RefusalKeeps, GoToKeeps

LEMMA ClaimKeeps == ASSUME Inv, NEW r \in Requests, Claim(r) PROVE Inv'
<1>0. /\ UNCHANGED <<rows, browser, troubles>> /\ req[r].pc = "claim"
      /\ troubles' \in 0 .. MaxTroubles
  BY InvFacts DEF Claim
<1>1. req[r].token \in Sessions /\ Created(req[r].token) /\ req[r].op = "refresh"
  BY <1>0, Places, InvFacts DEF RequestOK, PlaceOK
<1>2. CASE GoTo(r, "blocked")
  BY <1>0, <1>1, <1>2, GoToKeeps
<1>3. CASE IsLive(req[r].token) /\ req[r].token \notin Locked /\ GoTo(r, "locked")
  BY <1>0, <1>1, <1>3, GoToKeeps
<1>4. CASE req' = [req EXCEPT ![r].pc = "rest", ![r].seen = LiveKin(req[r].token)]
  <2>. DEFINE kin == LiveKin(req[r].token)
  <2>1. kin \in SUBSET Sessions
    BY DEF LiveKin
  <2>2. req' = [req EXCEPT ![r].pc = "rest", ![r].seen = kin] /\ req \in [Requests -> Request]
    BY <1>4, InvFacts
  <2>4. /\ req' \in [Requests -> Request]
        /\ req'[r].pc = "rest" /\ req'[r].op = req[r].op /\ req'[r].token = req[r].token
        /\ req'[r].seen = kin /\ req'[r].reply = req[r].reply
        /\ \A q \in Requests \ {r} : req'[q] = req[q]
    <3>. HIDE DEF kin
    <3>. QED
      BY <2>1, <2>2, SnapshotMoves
  <2>5. req[r].reply = "none"
    BY <1>0, InvFacts DEF RequestOK, PlaceOK
  <2>6. RequestOK(r)'
    <3>1. PlaceOK(r)'
      BY <1>0, <1>1, <2>4, <2>5 DEF PlaceOK, rows, Created
    <3>2. RestOK(r)'
      BY <1>0, <2>4 DEF RestOK, LiveKin, rows, IsLive, Created
    <3>3. GrantOK(r)' /\ ReuseOK(r)'
      BY <2>4, <2>5 DEF GrantOK, ReuseOK
    <3>. QED
      BY <3>1, <3>2, <3>3 DEF RequestOK
  <2>7. \A q \in Requests \ {r} : SameRequest(q)
    BY <2>4 DEF SameRequest
  <2>8. ~Created(r)
    BY <1>0, InvFacts
  <2>. QED
    BY <1>0, <1>1, <2>4, <2>6, <2>7, <2>8, TurnKeeps
<1>. QED
  BY <1>2, <1>3, <1>4 DEF Claim

LEMMA UnblockKeeps == ASSUME Inv, NEW r \in Requests, Unblock(r) PROVE Inv'
<1>0. /\ UNCHANGED <<rows, browser, troubles>> /\ req[r].pc = "blocked"
      /\ troubles' \in 0 .. MaxTroubles /\ req[r].token \notin Locked
  BY InvFacts DEF Unblock
<1>1. req[r].token \in Sessions /\ req[r].op = "refresh"
  BY <1>0, Places, InvFacts DEF RequestOK, PlaceOK
<1>2. CASE IsLive(req[r].token) /\ GoTo(r, "locked")
  BY <1>0, <1>1, <1>2, GoToKeeps
<1>3. CASE Answer(r, "error")
  BY <1>0, <1>3, RefusalKeeps
<1>. QED
  BY <1>2, <1>3 DEF Unblock

LEMMA RotateKeeps == ASSUME Inv, NEW r \in Requests, Rotate(r) PROVE Inv'
<1>. DEFINE s == req[r].token
<1>0. /\ UNCHANGED <<expired, browser, troubles>> /\ req[r].pc = "locked"
      /\ Answer(r, "ok") /\ replacedBy' = [replacedBy EXCEPT ![s] = r]
      /\ session' = [session EXCEPT ![s] = "revoked", ![r] = "live"]
      /\ family' = [family EXCEPT ![r] = family[s]]
  BY DEF Rotate
<1>1. s \in Sessions /\ req[r].op = "refresh" /\ ~Created(r) /\ r \in Sessions /\ RowsTyped
  BY <1>0, Places, InvFacts DEF RequestOK, PlaceOK
<1>2. IsLive(s) /\ s # r
  BY <1>0, <1>1 DEF Inv, LocksOK, IsLive, Created
<1>3. RowStep
  BY <1>0, <1>1, <1>2 DEF RowStep, Replaces
<1>4. /\ \A p \in Sessions \ {s, r} : session'[p] = session[p]
      /\ session'[s] = "revoked" /\ session'[r] = "live" /\ replacedBy'[s] = r
  BY <1>0, <1>1, <1>2 DEF RowsTyped
<1>5. /\ req' \in [Requests -> Request]
      /\ req'[r].pc = "reply" /\ req'[r].op = req[r].op /\ req'[r].token = s
      /\ req'[r].reply = "ok"
      /\ \A q \in Requests \ {r} : req'[q] = req[q]
  BY <1>0, AnswerMoves, InvFacts
<1>. HIDE DEF s
<1>6. RequestOK(r)'
  <2>1. PlaceOK(r)'
    BY <1>1, <1>4, <1>5, Places DEF PlaceOK, Created
  <2>2. GrantOK(r)' /\ RestOK(r)' /\ ReuseOK(r)'
    BY <1>1, <1>4, <1>5 DEF GrantOK, RestOK, ReuseOK, Created
  <2>. QED
    BY <2>1, <2>2 DEF RequestOK
<1>7. \A q \in Requests \ {r} : SameRequest(q)
  BY <1>5 DEF SameRequest
<1>8. FreshStep(r)
  BY <1>2, <1>4, <1>5 DEF FreshStep, Created, IsLive
<1>9. LocksHold(r)
  <2>1. \A q \in Requests \ {r} : req[q].pc = "locked" =>
           req[q].token \in Sessions /\ IsLive(req[q].token) /\ req[q].token # s
    BY <1>0, Places DEF Inv, TypeOK, LocksOK, s
  <2>. QED
    BY <1>1, <1>4, <1>5, <2>1 DEF LocksHold, IsLive, Created
<1>10. BrowserTyped' /\ cookie' = cookie
  BY <1>0 DEF Inv, TypeOK, BrowserTyped, browser
<1>. QED
  BY <1>3, <1>5, <1>6, <1>7, <1>8, <1>9, <1>10, Places, StepKeeps
LEMMA RevokeRestKeeps == ASSUME Inv, NEW r \in Requests, RevokeRest(r) PROVE Inv'
<1>0. /\ UNCHANGED <<family, replacedBy, expired, browser, troubles>> /\ req[r].pc = "rest"
      /\ req[r].seen \cap Locked = {} /\ troubles' \in 0 .. MaxTroubles
  BY InvFacts DEF RevokeRest
<1>1. CASE Answer(r, "error") /\ UNCHANGED session
  BY <1>0, <1>1, RefusalKeeps DEF rows
<1>2. CASE (\A s \in req[r].seen : IsLive(s)) /\ Revoke(req[r].seen) /\ Answer(r, "reuse")
  <2>0. /\ req[r].seen \in SUBSET Sessions /\ RowsTyped /\ FamilyIsALine /\ RowsOK
        /\ req[r].token \in Sessions /\ Created(req[r].token) /\ req[r].pc \in Working
    BY <1>0, Places, InvFacts
  <2>1. Revokes(req[r].seen)
    BY <1>0, <1>2, <2>0 DEF Revokes, IsLive, Created
  <2>2. RowStep
    BY <2>0, <2>1 DEF RowStep
  <2>3. req'[r].token = req[r].token
    BY <1>2, AnswerMoves, InvFacts
  <2>4. LiveKin(req[r].token)' = {}
    <3>. PICK t \in Sessions : t = req[r].token
      BY <2>0
    <3>1. LiveKin(t)' = {}
      <4>1. CASE req[r].seen = {}
        <5>1. LiveKin(t) = {} /\ Created(t)
          BY <1>0, <2>0, <4>1, InvFacts DEF RequestOK, RestOK
        <5>. QED
          BY <2>0, <2>2, <5>1, EndedStays
      <4>2. CASE req[r].seen # {}
        <5>1. PICK x \in req[r].seen : IsLive(x) /\ family[x] = family[t] /\ x \in Sessions
          BY <1>0, <1>2, <2>0, <4>2, InvFacts DEF RequestOK, RestOK
        <5>2. \A y \in Sessions : IsLive(y) /\ family[y] = family[t] => y = x
          BY <2>0, <5>1 DEF FamilyIsALine, IsLive, Created
        <5>3. \A y \in Sessions : session'[y] = IF y \in req[r].seen THEN "revoked" ELSE session[y]
          BY <1>2, <2>0 DEF Revoke
        <5>. QED
          BY <1>0, <5>1, <5>2, <5>3 DEF LiveKin, IsLive
      <4>. QED
        BY <4>1, <4>2
    <3>. QED
      BY <2>3, <3>1 DEF LiveKin, IsLive
  <2>. QED
    BY <1>0, <1>2, <2>0, <2>1, <2>4, RevokesKeeps
<1>. QED
  BY <1>1, <1>2 DEF RevokeRest

LEMMA RevokeFamilyKeeps == ASSUME Inv, NEW r \in Requests, RevokeFamily(r) PROVE Inv'
<1>. DEFINE kin == LiveKin(req[r].token)
<1>0. /\ UNCHANGED <<family, replacedBy, expired, browser, troubles>> /\ req[r].pc = "family"
      /\ troubles' \in 0 .. MaxTroubles
  BY InvFacts DEF RevokeFamily
<1>1. /\ kin \in SUBSET Sessions /\ req[r].token \in Sessions /\ Created(req[r].token)
      /\ req[r].pc \in Working /\ req[r].op = "refresh" /\ req[r].reply = "none"
      /\ req \in [Requests -> Request] /\ \A s \in kin : Created(s)
  BY <1>0, Places, InvFacts DEF LiveKin, IsLive, Created, RequestOK, PlaceOK
<1>2. CASE kin \cap Locked = {} /\ Revoke(kin) /\ Answer(r, "reuse")
  <2>1. Revokes(kin)
    BY <1>0, <1>1, <1>2 DEF Revokes
  <2>2. req'[r].token = req[r].token
    BY <1>2, AnswerMoves, InvFacts
  <2>3. LiveKin(req[r].token)' = {}
    BY <1>0, <1>2, <2>2 DEF LiveKin, IsLive, Revoke
  <2>. HIDE DEF kin
  <2>. QED
    BY <1>0, <1>1, <1>2, <2>1, <2>3, RevokesKeeps
<1>3. CASE /\ req' = [req EXCEPT ![r].pc = "waiting", ![r].seen = kin, ![r].raced = TRUE]
           /\ UNCHANGED session
  <2>1. /\ req' \in [Requests -> Request]
        /\ req'[r].pc = "waiting" /\ req'[r].op = req[r].op
        /\ req'[r].token = req[r].token /\ req'[r].seen = kin
        /\ req'[r].reply = req[r].reply /\ req'[r].raced
        /\ \A q \in Requests \ {r} : req'[q] = req[q]
    <3>. HIDE DEF kin
    <3>. QED
      BY <1>1, <1>3, WaitMoves
  <2>. HIDE DEF kin
  <2>2. RequestOK(r)'
    <3>1. PlaceOK(r)'
      BY <1>1, <1>3, <2>1 DEF PlaceOK, Created
    <3>2. GrantOK(r)' /\ RestOK(r)' /\ ReuseOK(r)'
      BY <1>1, <1>3, <2>1 DEF GrantOK, RestOK, ReuseOK, Created
    <3>. QED
      BY <3>1, <3>2 DEF RequestOK
  <2>3. \A q \in Requests \ {r} : SameRequest(q)
    BY <2>1 DEF SameRequest
  <2>4. ~Created(r)
    BY <1>0, InvFacts
  <2>. QED
    BY <1>0, <1>1, <1>3, <2>1, <2>2, <2>3, <2>4, TurnKeeps DEF rows
<1>. QED
  BY <1>2, <1>3 DEF RevokeFamily

LEMMA RevokeAwaitedKeeps == ASSUME Inv, NEW r \in Requests, RevokeAwaited(r) PROVE Inv'
<1>0. /\ UNCHANGED <<family, replacedBy, expired, browser, troubles>>
      /\ req[r].pc = "waiting" /\ req[r].seen \cap Locked = {}
      /\ Revoke(req[r].seen) /\ Answer(r, "reuse")
  BY DEF RevokeAwaited
<1>1. /\ req[r].seen \in SUBSET Sessions /\ req[r].raced /\ req[r].pc \in Working
      /\ \A s \in req[r].seen : Created(s)
  BY <1>0, Places, InvFacts DEF RequestOK, ReuseOK
<1>2. Revokes(req[r].seen)
  BY <1>0, <1>1 DEF Revokes
<1>. QED
  BY <1>0, <1>1, <1>2, RevokesKeeps

LEMMA FindForLogoutKeeps == ASSUME Inv, NEW r \in Requests, FindForLogout(r) PROVE Inv'
<1>0. /\ UNCHANGED <<rows, browser, troubles>> /\ req[r].op = "logout" /\ req[r].pc = "find"
      /\ troubles' \in 0 .. MaxTroubles /\ req[r].token \in Sessions \cup {NoSession}
  BY InvFacts DEF FindForLogout
<1>1. CASE req[r].token # NoSession /\ GoTo(r, "revoke")
  BY <1>0, <1>1, GoToKeeps
<1>2. CASE Answer(r, "ok")
  BY <1>0, <1>2, RefusalKeeps
<1>. QED
  BY <1>1, <1>2 DEF FindForLogout

LEMMA RevokeOneKeeps == ASSUME Inv, NEW r \in Requests, RevokeOne(r) PROVE Inv'
<1>0. /\ UNCHANGED <<family, replacedBy, expired, browser, troubles>>
      /\ req[r].pc = "revoke" /\ req[r].token \notin Locked /\ Revoke({req[r].token})
      /\ Answer(r, IF req[r].op = "logout" THEN "ok" ELSE "unauthorized")
  BY DEF RevokeOne
<1>1. {req[r].token} \in SUBSET Sessions /\ req[r].pc \in Working /\ Created(req[r].token)
  BY <1>0, Places, InvFacts
<1>2. Revokes({req[r].token})
  BY <1>0, <1>1 DEF Revokes
<1>3. CASE req[r].op = "logout"
  <2>1. Answer(r, "ok")
    BY <1>0, <1>3
  <2>. QED
    BY <1>0, <1>1, <1>2, <1>3, <2>1, RevokesKeeps
<1>4. CASE req[r].op # "logout"
  <2>1. Answer(r, "unauthorized")
    BY <1>0, <1>4
  <2>. QED
    BY <1>0, <1>1, <1>2, <2>1, RevokesKeeps
<1>. QED
  BY <1>3, <1>4

LEMMA TroubleTyped ==
    ASSUME Inv, Trouble PROVE troubles' \in 0 .. MaxTroubles
BY BoundsAssumption DEF Inv, TypeOK, Trouble

LEMMA FailKeeps == ASSUME Inv, NEW r \in Requests, Fail(r) PROVE Inv'
<1>1. UNCHANGED <<rows, browser>> /\ Answer(r, "error") /\ Trouble
  BY DEF Fail
<1>. QED
  BY <1>1, TroubleTyped, RefusalKeeps

LEMMA ClearedTyped == ASSUME NEW t \in Tabs PROVE Cleared(t) \in Tab
BY DEF Cleared, Closed, Tab

(* An answer arrives or is lost.                                           *)
LEMMA ReceiveKeeps ==
    ASSUME Inv, NEW r \in Requests, Deliver(r) \/ Lose(r)
    PROVE  Inv'
<1>0. UNCHANGED rows /\ req[r].pc = "reply" /\ req' = Finished(r)
  BY DEF Deliver, Lose
<1>1. /\ req' \in [Requests -> Request]
      /\ req'[r].pc = "over" /\ req'[r].op = req[r].op
      /\ req'[r].token = req[r].token /\ req'[r].seen = req[r].seen
      /\ req'[r].reply = req[r].reply /\ req'[r].raced = req[r].raced
      /\ \A q \in Requests \ {r} : req'[q] = req[q]
  BY <1>0, FinishedMoves, InvFacts
<1>2. RowStep
  BY <1>0 DEF RowStep, rows
<1>3. RequestOK(r)'
  <2>1. PlaceOK(r)'
    BY <1>0, <1>1, Places, InvFacts DEF RequestOK, PlaceOK, rows, Created
  <2>2. GrantOK(r)' /\ RestOK(r)'
    BY <1>0, <1>1, InvFacts DEF RequestOK, GrantOK, RestOK, rows, Created
  <2>3. ReuseOK(r)'
    BY <1>0, <1>1, InvFacts DEF RequestOK, ReuseOK, rows, LiveKin, IsLive
  <2>. QED
    BY <2>1, <2>2, <2>3 DEF RequestOK
<1>4. \A q \in Requests \ {r} : SameRequest(q)
  BY <1>1 DEF SameRequest
<1>5. FreshStep(r)
  BY <1>0, <1>1 DEF FreshStep, rows, Created
<1>6. LocksHold(r)
  BY <1>0, <1>1 DEF LocksHold, Inv, LocksOK, rows, IsLive
<1>7. troubles' \in 0 .. MaxTroubles
  BY TroubleTyped, InvFacts DEF Deliver, Lose
<1>8. \A y : TabAfter(r, y) \in [Tabs -> Tab]
  <2>. SUFFICES ASSUME NEW y, NEW t \in Tabs PROVE TabAfter(r, y)[t] \in Tab
    BY DEF TabAfter
  <2>1. tab[t] \in Tab /\ r \in Sessions
    BY Numbers DEF Inv, TypeOK
  <2>2. [tab[t] EXCEPT !.load = r] \in Tab
    BY <2>1 DEF Tab
  <2>. QED
    BY <2>1, <2>2, ClearedTyped DEF TabAfter
<1>9. BrowserTyped' /\ (cookie' = cookie \/ CookieOK')
  <2>1. tab' \in [Tabs -> Tab]
    BY <1>8 DEF Deliver, Lose
  <2>2. expired' \subseteq Sessions
    BY <1>0 DEF Inv, TypeOK, rows
  <2>3. cookie' = cookie \/ cookie' = NoSession \/ (cookie' = r /\ Created(r))
    BY <1>0, InvFacts DEF Deliver, Lose, RequestOK, GrantOK, Request
  <2>4. cookie' \in Sessions \cup {NoSession}
    BY <2>3, InvFacts
  <2>5. cookie' = cookie \/ CookieOK'
    BY <1>0, <2>3 DEF CookieOK, rows, Created
  <2>. QED
    BY <1>7, <2>1, <2>2, <2>4, <2>5 DEF BrowserTyped
<1>. QED
  BY <1>1, <1>2, <1>3, <1>4, <1>5, <1>6, <1>9, Places, StepKeeps

(* What happens beside the requests changes no row and no request.         *)
LEMMA BesideKeeps ==
    ASSUME Inv, UNCHANGED <<session, family, replacedBy, req>>, BrowserTyped',
           cookie' = cookie \/ cookie' = NoSession
    PROVE  Inv'
<1>1. TypeOK'
  BY DEF Inv, TypeOK, BrowserTyped
<1>2. RowsOK' /\ FamilyIsALine' /\ FreshOK' /\ CookieOK' /\ LocksOK'
  BY DEF Inv, RowsOK, FamilyIsALine, FreshOK, CookieOK, LocksOK, Created, IsLive
<1>3. \A q \in Requests : RequestOK(q)'
  BY DEF Inv, RequestOK, PlaceOK, GrantOK, RestOK, ReuseOK, Created, LiveKin, IsLive
<1>. QED
  BY <1>1, <1>2, <1>3 DEF Inv

LEMMA LoadKeeps == ASSUME Inv, NEW t \in Tabs, Load(t) PROVE Inv'
<1>1. UNCHANGED <<rows, req, cookie>>
  BY DEF Load
<1>2. [status |-> "authenticated", load |-> NoSession] \in Tab /\ Cleared(t) \in Tab
  BY ClearedTyped DEF Tab
<1>3. tab' \in [Tabs -> Tab]
  BY <1>2 DEF Load, Inv, TypeOK
<1>4. troubles' \in 0 .. MaxTroubles
  BY TroubleTyped DEF Load, Inv, TypeOK
<1>. QED
  BY <1>1, <1>3, <1>4, BesideKeeps DEF BrowserTyped, Inv, TypeOK, rows

LEMMA ExpireKeeps == ASSUME Inv, NEW s \in Sessions, Expire(s) PROVE Inv'
<1>1. /\ UNCHANGED <<session, family, replacedBy, req, tab>> /\ Trouble
      /\ expired' = expired \cup {s} /\ (cookie' = cookie \/ cookie' = NoSession)
  BY DEF Expire
<1>. QED
  BY <1>1, TroubleTyped, BesideKeeps DEF BrowserTyped, Inv, TypeOK

-----------------------------------------------------------------------------
(* The invariant. *)

LEMMA InitInv == Init => Inv
<1>. SUFFICES ASSUME Init PROVE Inv
  OBVIOUS
<1>1. /\ Unsent \in Request /\ Unsent.pc = "unsent" /\ Unsent.reply = "none"
      /\ Unsent.token = NoSession
  BY Places DEF Unsent, Request
<1>2. \A r \in Requests : req[r] = Unsent
  BY DEF Init
<1>3. Closed \in Tab
  BY DEF Closed, Tab
<1>4. /\ RowsTyped /\ family = [s \in Sessions |-> s]
      /\ replacedBy = [s \in Sessions |-> NoSession]
      /\ \A s \in Sessions : Created(s) => s = 0
  BY DEF Init, RowsTyped, Created
<1>5. TypeOK
  <2>1. req \in [Requests -> Request] /\ tab \in [Tabs -> Tab] /\ troubles \in 0 .. MaxTroubles
    BY <1>1, <1>3, BoundsAssumption DEF Init
  <2>2. cookie \in Sessions \cup {NoSession} /\ expired \subseteq Sessions
    BY Numbers DEF Init
  <2>. QED
    BY <1>1, <1>2, <1>4, <2>1, <2>2, Places DEF TypeOK, RowsTyped
<1>6. RowsOK /\ FamilyIsALine
  BY <1>4, Numbers DEF RowsOK, FamilyIsALine
<1>7. FreshOK
  <2>1. \A r \in Requests : r # 0
    BY BoundsAssumption DEF Requests
  <2>. QED
    BY <1>4, <2>1, Numbers DEF FreshOK
<1>8. CookieOK
  BY Numbers DEF Init, CookieOK, Created
<1>9. LocksOK /\ \A r \in Requests : RequestOK(r)
  <2>1. LocksOK
    BY <1>1, <1>2 DEF LocksOK
  <2>2. \A r \in Requests : RequestOK(r)
    BY <1>1, <1>2, Places DEF RequestOK, PlaceOK, GrantOK, RestOK, ReuseOK
  <2>. QED
    BY <2>1, <2>2
<1>. QED
  BY <1>5, <1>6, <1>7, <1>8, <1>9 DEF Inv

LEMMA NextInv == Inv /\ [Next]_vars => Inv'
<1>. SUFFICES ASSUME Inv, [Next]_vars PROVE Inv'
  OBVIOUS
<1>1. CASE UNCHANGED vars
  BY <1>1, BesideKeeps DEF vars, rows, browser, Inv, TypeOK, BrowserTyped
<1>2. ASSUME NEW r \in Requests, NEW t \in Tabs, Open(r, t) \/ SignIn(r, t) \/ SignOut(r, t)
      PROVE  Inv'
  BY <1>2, SendKeeps
<1>3. ASSUME NEW r \in Requests, Serve(r) PROVE Inv'
  BY <1>3, EnterKeeps, FindForRefreshKeeps, ClaimKeeps, UnblockKeeps, RotateKeeps,
     RevokeRestKeeps, RevokeFamilyKeeps, RevokeAwaitedKeeps, FindForLogoutKeeps,
     RevokeOneKeeps DEF Serve
<1>4. ASSUME NEW r \in Requests, Fail(r) PROVE Inv'
  BY <1>4, FailKeeps
<1>5. ASSUME NEW r \in Requests, Deliver(r) \/ Lose(r) PROVE Inv'
  BY <1>5, ReceiveKeeps
<1>6. ASSUME NEW t \in Tabs, Load(t) PROVE Inv'
  BY <1>6, LoadKeeps
<1>7. ASSUME NEW s \in Sessions, Expire(s) PROVE Inv'
  BY <1>7, ExpireKeeps
<1>. QED
  BY <1>1, <1>2, <1>3, <1>4, <1>5, <1>6, <1>7 DEF Next
(* Every step founds, revokes, replaces or leaves the rows alone.          *)
LEMMA NextRows == Inv /\ [Next]_vars => RowStep
<1>. SUFFICES ASSUME Inv, [Next]_vars PROVE RowStep
  OBVIOUS
<1>1. CASE UNCHANGED vars
  BY <1>1 DEF vars, rows, RowStep
<1>2. ASSUME NEW r \in Requests,
             \/ \E t \in Tabs : Open(r, t) \/ SignIn(r, t) \/ SignOut(r, t)
             \/ FindForRefresh(r) \/ Claim(r) \/ Unblock(r) \/ FindForLogout(r)
             \/ Fail(r) \/ Deliver(r) \/ Lose(r)
      PROVE  RowStep
  BY <1>2 DEF Open, SignIn, SignOut, FindForRefresh, Claim, Unblock, FindForLogout,
     Fail, Deliver, Lose, rows, RowStep
<1>3. ASSUME NEW r \in Requests, Enter(r) PROVE RowStep
  BY <1>3, InvFacts DEF Enter, Founds, RowStep
<1>4. ASSUME NEW r \in Requests, Rotate(r) PROVE RowStep
  <2>1. req[r].pc = "locked"
    BY <1>4 DEF Rotate
  <2>2. req[r].token \in Sessions /\ ~Created(r) /\ IsLive(req[r].token)
    BY <2>1, Places, InvFacts DEF Inv, LocksOK
  <2>. QED
    BY <1>4, <2>2 DEF Rotate, Replaces, RowStep
<1>5. ASSUME NEW r \in Requests, NEW S \in SUBSET Sessions, Revoke(S),
             S \cap Locked = {}, \A s \in S : Created(s), UNCHANGED <<family, replacedBy>>
      PROVE  RowStep
  BY <1>5 DEF Revokes, RowStep
<1>6. ASSUME NEW r \in Requests, RevokeRest(r) PROVE RowStep
  <2>1. req[r].pc = "rest" /\ UNCHANGED <<family, replacedBy>> /\ req[r].seen \cap Locked = {}
    BY <1>6 DEF RevokeRest
  <2>2. req[r].seen \in SUBSET Sessions /\ \A s \in req[r].seen : Created(s)
    BY <2>1, InvFacts DEF RequestOK, RestOK
  <2>3. Revoke(req[r].seen) \/ UNCHANGED session
    BY <1>6 DEF RevokeRest
  <2>. QED
    BY <1>5, <2>1, <2>2, <2>3 DEF RowStep
<1>7. ASSUME NEW r \in Requests, RevokeFamily(r) PROVE RowStep
  <2>. DEFINE kin == LiveKin(req[r].token)
  <2>1. UNCHANGED <<family, replacedBy>>
    BY <1>7 DEF RevokeFamily
  <2>2. kin \in SUBSET Sessions /\ \A s \in kin : Created(s)
    BY DEF LiveKin, IsLive, Created
  <2>3. (kin \cap Locked = {} /\ Revoke(kin)) \/ UNCHANGED session
    BY <1>7 DEF RevokeFamily
  <2>. HIDE DEF kin
  <2>. QED
    BY <1>5, <2>1, <2>2, <2>3 DEF RowStep
<1>8. ASSUME NEW r \in Requests, RevokeAwaited(r) PROVE RowStep
  <2>1. /\ req[r].pc = "waiting" /\ UNCHANGED <<family, replacedBy>>
        /\ req[r].seen \cap Locked = {} /\ Revoke(req[r].seen)
    BY <1>8 DEF RevokeAwaited
  <2>2. req[r].seen \in SUBSET Sessions /\ \A s \in req[r].seen : Created(s)
    BY <2>1, InvFacts DEF RequestOK, ReuseOK
  <2>. QED
    BY <1>5, <2>1, <2>2
<1>9. ASSUME NEW r \in Requests, RevokeOne(r) PROVE RowStep
  <2>1. /\ req[r].pc = "revoke" /\ UNCHANGED <<family, replacedBy>>
        /\ req[r].token \notin Locked /\ Revoke({req[r].token})
    BY <1>9 DEF RevokeOne
  <2>2. req[r].token \in Sessions /\ Created(req[r].token)
    BY <2>1, Places, InvFacts
  <2>. QED
    BY <1>5, <2>1, <2>2
<1>10. ASSUME NEW t \in Tabs, Load(t) PROVE RowStep
  BY <1>10 DEF Load, rows, RowStep
<1>11. ASSUME NEW s \in Sessions, Expire(s) PROVE RowStep
  BY <1>11 DEF Expire, RowStep
<1>. QED
  BY <1>1, <1>2, <1>3, <1>4, <1>6, <1>7, <1>8, <1>9, <1>10, <1>11 DEF Next, Serve

(* Every reachable state satisfies the inductive invariant.                *)
THEOREM Invariance == Spec => []Inv
<1>1. Init => Inv
  BY InitInv
<1>2. Inv /\ [Next]_vars => Inv'
  BY NextInv
<1>. QED
  BY <1>1, <1>2, PTL DEF Spec

(* The variables have their types, and a request of the API that works on  *)
(* a session works on one that is there.                                   *)
THEOREM TypeCorrect == Spec => []TypeOK
<1>1. Inv => TypeOK
  BY DEF Inv
<1>. QED
  BY <1>1, Invariance, PTL

(* Rotation keeps every family one line with at most its last session      *)
(* live, for any number of tabs that refresh at once.                      *)
THEOREM FamiliesAreLines == Spec => []FamilyIsALine
<1>1. Inv => FamilyIsALine
  BY DEF Inv
<1>. QED
  BY <1>1, Invariance, PTL

(* No two refreshes get a session for the same token: the row of the token *)
(* names the one session that replaced it.                                 *)
THEOREM TokensAreExchangedOnce == Spec => []ExchangedOnce
<1>1. Inv => ExchangedOnce
  BY DEF Inv, RequestOK, GrantOK, ExchangedOnce
<1>. QED
  BY <1>1, Invariance, PTL

(* A detected reuse that met no rotation under way has ended the family.   *)
THEOREM DetectedReuseEndsFamily == Spec => []ReuseEndsFamily
<1>1. Inv => ReuseEndsFamily
  BY DEF Inv, RequestOK, ReuseOK, ReuseEndsFamily
<1>. QED
  BY <1>1, Invariance, PTL

(* A family all of whose sessions are revoked is never revived, whatever   *)
(* refresh was under way.                                                  *)
THEOREM EndIsFinal == Spec => EndedFamilyStaysEnded
<1>1. Inv /\ [Next]_vars => [\A s \in Sessions :
                                Created(s) /\ LiveKin(s) = {} => LiveKin(s)' = {}]_vars
  <2>. SUFFICES ASSUME Inv, [Next]_vars, NEW s \in Sessions, Created(s), LiveKin(s) = {}
                PROVE  LiveKin(s)' = {}
    OBVIOUS
  <2>1. RowStep
    BY NextRows
  <2>2. RowsTyped /\ RowsOK
    BY DEF Inv, TypeOK, RowsTyped
  <2>. QED
    BY <2>1, <2>2, EndedStays
<1>. QED
  BY <1>1, Invariance, PTL DEF Spec, EndedFamilyStaysEnded
=============================================================================
