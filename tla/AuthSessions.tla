---------------------------- MODULE AuthSessions ----------------------------
(***************************************************************************)
(* The refresh-token sessions of one account in one browser: the tabs of   *)
(* the web application with the cookie they share, the requests they send  *)
(* to /auth, and the RefreshSession rows the requests read and write.      *)
(*                                                                         *)
(* A request creates at most one session, which has the request's number;  *)
(* a family has the number of its first session.  A refresh token stands   *)
(* for its session: the secret in it is compared with a hash, and this     *)
(* browser never presents a wrong one.                                     *)
(*                                                                         *)
(* A definition without a comment that stands before the one it resembles  *)
(* is a plausible bug in it, which the runs find.                          *)
(***************************************************************************)
EXTENDS Integers

CONSTANTS
    Tabs,           \* the tabs of the browser
    NoTab,          \* "no tab waits for the answer"
    NoSession,      \* "no token"
    \* Bounds on what the user and the environment do.
    MaxRequests,    \* page loads, sign-ins and sign-outs, in all
    MaxTroubles     \* failed or timed-out calls to PostgreSQL, lost answers
                    \* and expired sessions, in all

Requests == 1 .. MaxRequests
Sessions == 0 .. MaxRequests

ASSUME BoundsAssumption == MaxRequests \in Nat /\ MaxTroubles \in Nat
ASSUME NamesAssumption  == NoTab \notin Tabs /\ NoSession \notin Sessions

VARIABLES
    session,     \* the rows: not there, with revokedAt null, or revoked
    family,      \* familyId
    replacedBy,  \* replacedBySessionId
    expired,     \* the sessions whose expiresAt has passed
    req,         \* the requests to /auth
    cookie,      \* the refresh token in the browser's cookie
    tab,         \* each tab's React state
    troubles     \* how much the environment has misbehaved so far

rows    == <<session, family, replacedBy, expired>>
browser == <<cookie, tab>>
vars    == <<rows, req, browser, troubles>>

(* "locked" holds the row lock of the token's session in a transaction     *)
(* that has not committed; "blocked" waits for such a lock.                *)
PCs == {"unsent", "find", "claim", "blocked", "locked", "family", "waiting",
        "rest", "revoke", "reply", "over"}

Working == {"claim", "blocked", "locked", "family", "waiting", "rest", "revoke"}

Request == [pc    : PCs,
            op    : {"refresh", "enter", "logout"},
            tab   : Tabs \cup {NoTab},
            token : Sessions \cup {NoSession},
            seen  : SUBSET Sessions,   \* what the statement's snapshot shows
            reply : {"none", "ok", "unauthorized", "reuse", "error"},
            raced : BOOLEAN]           \* waited for another's rotation

Tab == [status : {"closed", "loading", "anonymous", "authenticated"},
        load   : Sessions \cup {NoSession}]    \* the access token /me checks

Unsent == [pc |-> "unsent", op |-> "refresh", tab |-> NoTab, token |-> NoSession,
           seen |-> {}, reply |-> "none", raced |-> FALSE]
Closed == [status |-> "closed", load |-> NoSession]

TypeOK ==
    /\ session \in [Sessions -> {"none", "live", "revoked"}]
    /\ family \in [Sessions -> Sessions]
    /\ replacedBy \in [Sessions -> Sessions \cup {NoSession}]
    /\ expired \subseteq Sessions
    /\ req \in [Requests -> Request]
    /\ cookie \in Sessions \cup {NoSession}
    /\ tab \in [Tabs -> Tab]
    /\ troubles \in 0 .. MaxTroubles
    \* A request works on a row that was there when it was read.
    /\ \A r \in Requests : req[r].pc \in Working =>
          req[r].token \in Sessions /\ session[req[r].token] # "none"

(* The browser is new, or session 0 remains from an earlier visit. *)
Init ==
    /\ session \in {[s \in Sessions |-> "none"],
                    [s \in Sessions |-> IF s = 0 THEN "live" ELSE "none"]}
    /\ family = [s \in Sessions |-> s]
    /\ replacedBy = [s \in Sessions |-> NoSession]
    /\ expired = {}
    /\ req = [r \in Requests |-> Unsent]
    /\ cookie = IF session[0] = "live" THEN 0 ELSE NoSession
    /\ tab = [t \in Tabs |-> Closed]
    /\ troubles = 0

Trouble == troubles < MaxTroubles /\ troubles' = troubles + 1

Created(s)   == session[s] # "none"
IsLive(s)    == session[s] = "live"
LiveKin(s)   == {q \in Sessions : IsLive(q) /\ family[q] = family[s]}
Locked       == {req[r].token : r \in {q \in Requests : req[q].pc = "locked"}}
Awaited(t)   == \E r \in Requests : req[r].tab = t /\ req[r].pc # "over"

GoTo(r, pc) == req' = [req EXCEPT ![r].pc = pc]
Answer(r, reply) == req' = [req EXCEPT ![r].pc = "reply", ![r].reply = reply]
Revoke(S) == session' = [s \in Sessions |-> IF s \in S THEN "revoked" ELSE session[s]]

-----------------------------------------------------------------------------
(* The browser sends. *)

Sent(r, t, op) == [Unsent EXCEPT !.pc = "find", !.op = op, !.tab = t, !.token = cookie]

IsNext(r) == req[r].pc = "unsent" /\ \A q \in Requests : q < r => req[q].pc # "unsent"

(* A page load restores the session with the cookie.  What the tab was     *)
(* waiting for is abandoned.                                               *)
Open(r, t) ==
    /\ IsNext(r)
    /\ req' = [q \in Requests |->
                 IF q = r THEN Sent(r, t, "refresh")
                 ELSE IF req[q].tab = t THEN [req[q] EXCEPT !.tab = NoTab]
                 ELSE req[q]]
    /\ tab' = [tab EXCEPT ![t] = [Closed EXCEPT !.status = "loading"]]
    /\ UNCHANGED <<rows, cookie, troubles>>

(* POST /auth/login or /auth/register. *)
SignIn(r, t) ==
    /\ IsNext(r)
    /\ tab[t].status = "anonymous" /\ tab[t].load = NoSession /\ ~Awaited(t)
    /\ req' = [req EXCEPT ![r] = Sent(r, t, "enter")]
    /\ UNCHANGED <<rows, browser, troubles>>

SignOut(r, t) ==
    /\ IsNext(r)
    /\ tab[t].status = "authenticated" /\ ~Awaited(t)
    /\ req' = [req EXCEPT ![r] = Sent(r, t, "logout")]
    /\ UNCHANGED <<rows, browser, troubles>>

-----------------------------------------------------------------------------
(* The API answers login and register. *)

(* The credentials are accepted and a session of a new family is written,  *)
(* or they are refused.                                                    *)
Enter(r) ==
    /\ req[r].pc = "find" /\ req[r].op = "enter"
    /\ \/ session' = [session EXCEPT ![r] = "live"] /\ Answer(r, "ok")
       \/ Answer(r, "unauthorized") /\ UNCHANGED session
    /\ UNCHANGED <<family, replacedBy, expired, browser, troubles>>

-----------------------------------------------------------------------------
(* The API answers refresh. *)

FindAny(r) ==
    /\ req[r].pc = "find" /\ req[r].op = "refresh"
    /\ LET s == req[r].token IN
       IF s = NoSession \/ s \in expired THEN GoTo(r, "revoke")
       ELSE IF IsLive(s) THEN GoTo(r, "claim") ELSE GoTo(r, "family")
    /\ UNCHANGED <<rows, browser, troubles>>

(* What the row the token names says when it is read. *)
FindForRefresh(r) ==
    /\ req[r].pc = "find" /\ req[r].op = "refresh"
    /\ LET s == req[r].token IN
       \/ s = NoSession /\ Answer(r, "unauthorized")
       \/ s # NoSession /\ ~IsLive(s) /\ GoTo(r, "family")
       \/ s # NoSession /\ IsLive(s) /\ s \in expired /\ GoTo(r, "revoke")
       \/ s # NoSession /\ IsLive(s) /\ s \notin expired /\ GoTo(r, "claim")
    /\ UNCHANGED <<rows, browser, troubles>>

ClaimAny(r) ==
    /\ req[r].pc = "claim"
    /\ IF req[r].token \in Locked THEN GoTo(r, "blocked") ELSE GoTo(r, "locked")
    /\ UNCHANGED <<rows, browser, troubles>>

(* The first statement of the Serializable transaction: it takes the       *)
(* transaction's snapshot and updates the row if that shows it unrevoked,  *)
(* waiting for whoever holds the row's lock.                               *)
Claim(r) ==
    /\ req[r].pc = "claim"
    /\ LET s == req[r].token IN
       \/ IsLive(s) /\ s \in Locked /\ GoTo(r, "blocked")
       \/ IsLive(s) /\ s \notin Locked /\ GoTo(r, "locked")
       \/ /\ ~IsLive(s)
          /\ req' = [req EXCEPT ![r].pc = "rest", ![r].seen = LiveKin(s)]
    /\ UNCHANGED <<rows, browser, troubles>>

(* The lock is free again.  If its holder committed, the row is not what   *)
(* the snapshot shows: the serialization failure is not caught.            *)
Unblock(r) ==
    /\ req[r].pc = "blocked" /\ req[r].token \notin Locked
    /\ IF IsLive(req[r].token) THEN GoTo(r, "locked") ELSE Answer(r, "error")
    /\ UNCHANGED <<rows, browser, troubles>>

RotateInNewFamily(r) ==
    /\ req[r].pc = "locked"
    /\ LET s == req[r].token IN
       /\ session' = [session EXCEPT ![s] = "revoked", ![r] = "live"]
       /\ replacedBy' = [replacedBy EXCEPT ![s] = r]
    /\ Answer(r, "ok")
    /\ UNCHANGED <<family, expired, browser, troubles>>

(* The replacement is inserted and the transaction commits. *)
Rotate(r) ==
    /\ req[r].pc = "locked"
    /\ LET s == req[r].token IN
       /\ session' = [session EXCEPT ![s] = "revoked", ![r] = "live"]
       /\ family' = [family EXCEPT ![r] = family[s]]
       /\ replacedBy' = [replacedBy EXCEPT ![s] = r]
    /\ Answer(r, "ok")
    /\ UNCHANGED <<expired, browser, troubles>>

(* No row was updated: the same transaction revokes the rest of the        *)
(* family, which fails if another transaction has changed a row of it.     *)
RevokeRest(r) ==
    /\ req[r].pc = "rest" /\ req[r].seen \cap Locked = {}
    /\ IF \A s \in req[r].seen : IsLive(s)
       THEN Revoke(req[r].seen) /\ Answer(r, "reuse")
       ELSE Answer(r, "error") /\ UNCHANGED session
    /\ UNCHANGED <<family, replacedBy, expired, browser, troubles>>

RevokeTokenOnly(r) ==
    /\ req[r].pc = "family"
    /\ Revoke({req[r].token}) /\ Answer(r, "reuse")
    /\ UNCHANGED <<family, replacedBy, expired, browser, troubles>>

(* The statement of revokeFamily, outside any transaction.  It updates the *)
(* rows that are unrevoked when it begins; for a row that is locked it     *)
(* waits, and it never sees a row inserted after it began.                 *)
RevokeFamily(r) ==
    /\ req[r].pc = "family"
    /\ LET kin == LiveKin(req[r].token) IN
       \/ kin \cap Locked = {} /\ Revoke(kin) /\ Answer(r, "reuse")
       \/ /\ kin \cap Locked # {}
          /\ req' = [req EXCEPT ![r].pc = "waiting", ![r].seen = kin, ![r].raced = TRUE]
          /\ UNCHANGED session
    /\ UNCHANGED <<family, replacedBy, expired, browser, troubles>>

RevokeAwaited(r) ==
    /\ req[r].pc = "waiting" /\ req[r].seen \cap Locked = {}
    /\ Revoke(req[r].seen) /\ Answer(r, "reuse")
    /\ UNCHANGED <<family, replacedBy, expired, browser, troubles>>

-----------------------------------------------------------------------------
(* The API answers logout. *)

FindForLogout(r) ==
    /\ req[r].pc = "find" /\ req[r].op = "logout"
    /\ IF req[r].token # NoSession /\ IsLive(req[r].token)
       THEN GoTo(r, "revoke")
       ELSE Answer(r, "ok")
    /\ UNCHANGED <<rows, browser, troubles>>

(* The update of a logout, and of a refresh whose token has expired: the   *)
(* row by its id, whatever has become of it.                               *)
RevokeOne(r) ==
    /\ req[r].pc = "revoke" /\ req[r].token \notin Locked
    /\ Revoke({req[r].token})
    /\ Answer(r, IF req[r].op = "logout" THEN "ok" ELSE "unauthorized")
    /\ UNCHANGED <<family, replacedBy, expired, browser, troubles>>

(* A call to PostgreSQL fails or a transaction exceeds its time: it is     *)
(* rolled back and the request ends in an internal error.                  *)
Fail(r) ==
    /\ req[r].pc \in {"find"} \cup Working
    /\ Trouble
    /\ Answer(r, "error")
    /\ UNCHANGED <<rows, browser>>

-----------------------------------------------------------------------------
(* The browser receives. *)

Finished(r) == [req EXCEPT ![r].pc = "over", ![r].tab = NoTab]

(* The tab without an answer that helps it: restoreSession and logout      *)
(* clear the session, authenticate throws and changes nothing.             *)
Cleared(t) == [Closed EXCEPT !.status = "anonymous"]

(* What the answer does to the tab that waits for it. *)
TabAfter(r, reply) ==
    [t \in Tabs |->
        IF t # req[r].tab THEN tab[t]
        ELSE IF reply = "ok" /\ req[r].op # "logout" THEN [tab[t] EXCEPT !.load = r]
        ELSE Cleared(t)]

(* The answer arrives with its Set-Cookie header. *)
Deliver(r) ==
    /\ req[r].pc = "reply"
    /\ cookie' = CASE req[r].reply # "ok" -> cookie
                   [] req[r].op = "logout" -> NoSession
                   [] OTHER -> r
    /\ tab' = TabAfter(r, req[r].reply)
    /\ req' = Finished(r)
    /\ UNCHANGED <<rows, troubles>>

(* The answer is lost: on the network, or because its page is gone. *)
Lose(r) ==
    /\ req[r].pc = "reply"
    /\ IF req[r].tab = NoTab THEN UNCHANGED troubles ELSE Trouble
    /\ tab' = TabAfter(r, "error")
    /\ req' = Finished(r)
    /\ UNCHANGED <<rows, cookie>>

LoadUncaught(t) ==
    /\ tab[t].load # NoSession
    /\ IsLive(tab[t].load) /\ tab[t].load \notin expired
    /\ tab' = [tab EXCEPT ![t] = [status |-> "authenticated", load |-> NoSession]]
    /\ UNCHANGED <<rows, req, cookie, troubles>>

(* loadSession: GET /me with the new access token, whose session must be   *)
(* live; the call may also fail.                                           *)
Load(t) ==
    /\ tab[t].load # NoSession
    /\ \/ /\ IsLive(tab[t].load) /\ tab[t].load \notin expired
          /\ tab' = [tab EXCEPT ![t] = [status |-> "authenticated", load |-> NoSession]]
          /\ UNCHANGED troubles
       \/ /\ IF IsLive(tab[t].load) /\ tab[t].load \notin expired
             THEN Trouble ELSE UNCHANGED troubles
          /\ tab' = [tab EXCEPT ![t] = Cleared(t)]
    /\ UNCHANGED <<rows, req, cookie>>

(* A session's time is up, and with it the cookie's. *)
Expire(s) ==
    /\ IsLive(s) /\ s \notin expired
    /\ Trouble
    /\ expired' = expired \cup {s}
    /\ cookie' \in IF cookie = s THEN {cookie, NoSession} ELSE {cookie}
    /\ UNCHANGED <<session, family, replacedBy, req, tab>>

-----------------------------------------------------------------------------
Serve(r) ==
    \/ Enter(r) \/ FindForRefresh(r) \/ Claim(r) \/ Unblock(r) \/ Rotate(r)
    \/ RevokeRest(r) \/ RevokeFamily(r) \/ RevokeAwaited(r)
    \/ FindForLogout(r) \/ RevokeOne(r)

Next ==
    \/ \E r \in Requests :
          \/ \E t \in Tabs : Open(r, t) \/ SignIn(r, t) \/ SignOut(r, t)
          \/ Serve(r) \/ Fail(r) \/ Deliver(r) \/ Lose(r)
    \/ \E t \in Tabs : Load(t)
    \/ \E s \in Sessions : Expire(s)

(* The API carries on with a request it has begun, the network brings or   *)
(* loses its answer, and the tab goes on.                                  *)
Spec ==
    /\ Init /\ [][Next]_vars
    /\ \A r \in Requests : WF_vars(Serve(r)) /\ WF_vars(Deliver(r) \/ Lose(r))
    /\ \A t \in Tabs : WF_vars(Load(t))

-----------------------------------------------------------------------------
(* Rotation keeps every family one line: a session that did not found its  *)
(* family replaced exactly one other, and only the last of the line, which *)
(* nothing has replaced, can be live.  Two tabs that refresh with one      *)
(* cookie at once never both get a session.                                *)
FamilyIsALine ==
    /\ \A s \in Sessions : replacedBy[s] # NoSession =>
          /\ session[s] = "revoked" /\ Created(replacedBy[s])
          /\ family[replacedBy[s]] = family[s]
    /\ \A s \in Sessions : Created(s) /\ family[s] # s =>
          \E p \in Sessions : replacedBy[p] = s
    /\ \A p, q \in Sessions :
          replacedBy[p] = replacedBy[q] /\ replacedBy[p] # NoSession => p = q
    /\ \A s, q \in Sessions :
          /\ Created(s) /\ Created(q) /\ family[s] = family[q]
          /\ replacedBy[s] = NoSession /\ replacedBy[q] = NoSession
          => s = q

(* A refresh token buys one session, however the answers, retries and      *)
(* reloads of the tabs interleave.                                         *)
ExchangedOnce ==
    \A p, q \in Requests :
        /\ req[p].op = "refresh" /\ req[p].reply = "ok"
        /\ req[q].op = "refresh" /\ req[q].reply = "ok"
        /\ req[p].token = req[q].token
        => p = q

(* A refresh answered "Refresh token reuse detected." has ended the        *)
(* family, and it stays ended, unless a rotation had the last session's    *)
(* row locked when revokeFamily looked for what to revoke.                 *)
ReuseEndsFamily ==
    \A r \in Requests :
        req[r].reply = "reuse" /\ ~req[r].raced => LiveKin(req[r].token) = {}

(* A family all of whose sessions are revoked never has a live one again:  *)
(* no refresh under way when its last session was revoked revives it.      *)
EndedFamilyStaysEnded ==
    [][\A s \in Sessions :
          Created(s) /\ LiveKin(s) = {} => LiveKin(s)' = {}]_vars

(* A page load comes to an end: the tab is not left in its loading state   *)
(* by a lock, a revoked session or a lost answer.                          *)
PageLoadEnds ==
    \A t \in Tabs : tab[t].status = "loading" ~> tab[t].status # "loading"

(* When a refresh is answered "Refresh token reuse detected.", no session  *)
(* of the family is live: docs/security.md says "Reuse revokes the entire  *)
(* refresh-token family."                                                  *)
ReuseRevokesEntireFamily ==
    [][\A r \in Requests :
          req[r].reply # "reuse" /\ req'[r].reply = "reuse"
              => LiveKin(req[r].token)' = {}]_vars
=============================================================================
