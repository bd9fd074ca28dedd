------------------------ MODULE ExternalConnections ------------------------
(***************************************************************************)
(* The connection of one user to Gmail or to GitHub: the row with its      *)
(* tokens, the OAuth flows that fill it (directly or through the broker),  *)
(* the calls of the API and the worker that read, refresh or clear it, and *)
(* for GitHub the installation and repositories that a sync stores.        *)
(*                                                                         *)
(* A token is known by the flow it was granted in: what the code compares  *)
(* is only whether there is one.  The rows of the two providers are        *)
(* disjoint, so a behaviour follows one of them, chosen at the start.      *)
(*                                                                         *)
(* Every call is a process that runs once.  Between two of its steps other *)
(* calls may run, and it may break off after any of them.                  *)
(***************************************************************************)
EXTENDS Naturals, FiniteSets

CONSTANTS
    Calls,         \* HTTP requests to the API and tool calls of the worker
    Flows,         \* visits to the provider's consent page
    Repositories,  \* GitHub repositories that the installation may list
    Null,          \* null in a column
    Brokered,      \* OAUTH_BROKER_URL is set
    Configured,    \* the provider's client keys are, or the broker is
    DevMock        \* GMAIL_DEV_MOCK_ENABLED and an encryption key are set

ASSUME NullAssumption       == Null \notin Flows
ASSUME DeploymentAssumption == /\ {Brokered, Configured, DevMock} \subseteq BOOLEAN
                               /\ Brokered => Configured

VARIABLES
    provider,    \* the provider whose rows are followed
    connection,  \* the ExternalConnection row
    installation,\* the ExternalInstallation row: none, ACTIVE, or suspended
                 \* or deleted, which no query tells apart
    listing,     \* per repository row: the token it was last listed with,
                 \* Null when there is no row or deletedAt is set
    flow,        \* the OAuth flows
    call,        \* the calls
    \* History, which no step of the code reads.
    stored,      \* the flows whose tokens a call has stored
    older,       \* the flows whose tokens a disconnect has cleared
    disturbed    \* another call overlapped the last disconnect, or it broke
                 \* off half-way

rows    == <<connection, installation, listing>>
history == <<stored, older, disturbed>>
connectionVars == <<provider, rows, flow, call, history>>

Tokens == Flows \cup {Null}

(* Where expiresAt stands: "past"; "due", within the next minute; "good",  *)
(* later.  A null never comes to an end; Gmail's callers refresh on it as  *)
(* if it were due, GitHub's take it for good.  The model does not tell it  *)
(* from a time, and lets it move on like one: it then stands where a time  *)
(* may stand too.                                                          *)
Expiries   == {"good", "due", "past"}
NullExpiry == IF provider = "GMAIL" THEN "due" ELSE "good"

Connection == [status  : {"none", "CONNECTED", "DISCONNECTED"},
               access  : Tokens,
               refresh : Tokens,
               expiry  : Expiries,
               mock    : BOOLEAN]   \* scopes hold the development mock's

Flow == [at       : {"idle", "consent", "returned"},
         verifier : BOOLEAN,   \* the API's memory holds its PKCE verifier
         code     : BOOLEAN]   \* its one-time code has not been used

(* What a call waits for next: the token steps are shared by all calls.    *)
PCs == {"idle", "verify", "redeem", "store", "clear", "token", "refresh",
        "installation", "repositories", "review", "draft", "deliver", "mark",
        "edit", "done"}

Call == [op       : {"none", "complete", "disconnect", "sync", "tool", "send",
                     "simulate", "revise"},
         at       : PCs,
         token    : Tokens,      \* the token in hand
         previous : Tokens,      \* the refresh token read before the exchange
         left     : SUBSET (Repositories \cup {"connection", "installations"}),
         text     : Nat,         \* the review's text as the call read it
         own      : BOOLEAN]     \* it works on a draft only it knows

Idle == [op |-> "none", at |-> "idle", token |-> Null, previous |-> Null,
         left |-> {}, text |-> 0, own |-> FALSE]

Over == [Idle EXCEPT !.at = "done"]

ConnectionsTypeOK ==
    /\ provider \in {"GMAIL", "GITHUB"}
    /\ connection \in Connection
    /\ installation \in {"none", "ACTIVE", "INACTIVE"}
    /\ listing \in [Repositories -> Tokens]
    /\ flow \in [Flows -> Flow]
    /\ call \in [Calls -> Call]
    /\ stored \subseteq Flows /\ older \subseteq Flows /\ disturbed \in BOOLEAN
    \* A call that will write under a token's name has one.
    /\ \A c \in Calls : call[c].at \in {"redeem", "store", "refresh",
                                       "installation", "repositories"} =>
                          call[c].token \in Flows

NoConnection == [status |-> "none", access |-> Null, refresh |-> Null,
                 expiry |-> "good", mock |-> FALSE]

(* There is no row yet, or an earlier flow has filled it; GitHub's         *)
(* response may have no refresh token.                                     *)
ConnectionsInit ==
    /\ provider \in {"GMAIL", "GITHUB"}
    /\ older = {} /\ disturbed = FALSE
    /\ call = [c \in Calls |-> Idle]
    /\ \/ /\ connection = NoConnection /\ stored = {}
          /\ installation = "none"
          /\ listing = [x \in Repositories |-> Null]
       \/ \E f \in Flows :
            /\ stored = {f}
            /\ \E refresh \in {f} \cup (IF provider = "GITHUB" THEN {Null} ELSE {}) :
                 connection = [NoConnection EXCEPT
                    !.status = "CONNECTED", !.access = f, !.refresh = refresh]
            /\ \/ installation = "none" /\ listing = [x \in Repositories |-> Null]
               \/ /\ provider = "GITHUB" /\ installation = "ACTIVE"
                  /\ listing = [x \in Repositories |-> f]
    /\ flow = [f \in Flows |-> [at |-> IF f \in stored THEN "returned" ELSE "idle",
                                verifier |-> FALSE, code |-> FALSE]]

InFlight(c)   == call[c].at \notin {"idle", "done"}
Disconnecting == \E c \in Calls : InFlight(c) /\ call[c].op = "disconnect"

(* A request reaches the API, or the worker begins a tool call.            *)
Begin(c, op, at) ==
    /\ call[c].at = "idle"
    /\ call' = [call EXCEPT ![c] = [Idle EXCEPT !.op = op, !.at = at]]
    /\ disturbed' = (disturbed \/ Disconnecting)

Finish(c) == call' = [call EXCEPT ![c] = Over]

(* A call goes on with the token it holds now; only the steps that write   *)
(* something under the token's name still need to know which it is.        *)
GoOn(c, next, token) ==
    IF next = "done" THEN Finish(c)
    ELSE call' = [call EXCEPT ![c].at = next,
                    ![c].token = IF next = "draft" THEN Null ELSE token]

-----------------------------------------------------------------------------
(* Connect: the browser gets the provider's consent page.                  *)

(* connect(): the state is signed, and the broker's verifier remembered.   *)
Connect(f) ==
    /\ Configured
    /\ flow[f].at = "idle"
    /\ flow' = [flow EXCEPT ![f].at = "consent", ![f].verifier = Brokered]
    /\ UNCHANGED <<provider, rows, call, history>>

(* The user consents and the browser lands on the callback page with a     *)
(* one-time code: the provider's, or the broker's after its own exchange.  *)
Consent(f) ==
    /\ flow[f].at = "consent"
    /\ flow' = [flow EXCEPT ![f].at = "returned", ![f].code = TRUE]
    /\ UNCHANGED <<provider, rows, call, history>>

(* Ten minutes pass, or the API or the broker restarts: both keep the      *)
(* verifiers, the pending states and the grants in memory only.            *)
FlowLost(f) ==
    /\ \/ flow[f].verifier /\ flow' = [flow EXCEPT ![f].verifier = FALSE]
       \/ flow[f].code /\ flow' = [flow EXCEPT ![f].code = FALSE]
    /\ UNCHANGED <<provider, rows, call, history>>

(* The callback page posts its code and state whenever its effect runs: on *)
(* landing and again when the page's access token is renewed.              *)
(* completeOAuth() reads the row before it talks to the provider.          *)
BeginComplete(c, f) ==
    /\ Configured /\ flow[f].at = "returned"
    /\ call[c].at = "idle"
    /\ call' = [call EXCEPT ![c] = [Idle EXCEPT
          !.op = "complete", !.at = "redeem", !.token = f,
          !.previous = IF provider = "GMAIL" THEN connection.refresh ELSE Null]]
    /\ disturbed' = (disturbed \/ Disconnecting)
    /\ UNCHANGED <<provider, rows, flow, stored, older>>

(* Without the verifier the broker is not asked; the provider always is.   *)
Asks(f) == Brokered => flow[f].verifier

Redeem_LeavesToExpire(c) ==
    LET f == call[c].token IN
    /\ call[c].at = "redeem"
    /\ IF Asks(f) /\ flow[f].code
       THEN call' = [call EXCEPT ![c].at = "store"]
       ELSE Finish(c)
    /\ UNCHANGED flow
    /\ UNCHANGED <<provider, rows, history>>

(* The verifier and the code are each used up by the first call that       *)
(* presents them; a direct code is good once with the provider too.        *)
Redeem(c) ==
    LET f == call[c].token IN
    /\ call[c].at = "redeem"
    /\ IF Asks(f) /\ flow[f].code
       THEN call' = [call EXCEPT ![c].at = "store"]
       ELSE Finish(c)
    /\ flow' = [flow EXCEPT ![f].verifier = FALSE, ![f].code = @ /\ ~Asks(f)]
    /\ UNCHANGED <<provider, rows, history>>

UpsertConnection(access, refresh, expiry, mock) ==
    connection' = [status |-> "CONNECTED", access |-> access, refresh |-> refresh,
                   expiry |-> expiry, mock |-> mock]

(* expiresAt(): expires_in may be missing from the response.               *)
GrantedExpiries == {"good", NullExpiry}

StoreTokens_DropsRefresh(c) ==
    /\ call[c].at = "store"
    /\ \E refresh \in {call[c].token, Null}, expiry \in GrantedExpiries :
          UpsertConnection(call[c].token, refresh, expiry, FALSE)
    /\ Finish(c)
    /\ stored' = stored \cup {call[c].token}
    /\ UNCHANGED <<provider, installation, listing, flow, older, disturbed>>

(* The row gets the new tokens.  A response without a refresh token leaves *)
(* GitHub without one; for Gmail the one read before is kept, and when     *)
(* there was none the call fails.                                          *)
StoreTokens(c) ==
    /\ call[c].at = "store"
    /\ \E refresh \in {call[c].token, call[c].previous} :
         \/ /\ provider = "GMAIL" /\ refresh = Null
            /\ UNCHANGED <<connection, stored>>
         \/ /\ provider = "GITHUB" \/ refresh # Null
            /\ \E expiry \in GrantedExpiries :
                  UpsertConnection(call[c].token, refresh, expiry, FALSE)
            /\ stored' = stored \cup {call[c].token}
    /\ Finish(c)
    /\ UNCHANGED <<provider, installation, listing, flow, older, disturbed>>

(* connectDevMock(): a local deployment fills the row with made-up tokens; *)
(* a flow that was never started lends them its name.                      *)
ConnectDevMock(f) ==
    /\ DevMock /\ provider = "GMAIL" /\ flow[f].at = "idle"
    /\ flow' = [flow EXCEPT ![f].at = "returned"]
    /\ UpsertConnection(f, f, "good", TRUE)
    /\ stored' = stored \cup {f}
    /\ disturbed' = (disturbed \/ Disconnecting)
    /\ UNCHANGED <<provider, installation, listing, call, older>>

-----------------------------------------------------------------------------
(* Disconnect.                                                             *)

ClearConnection ==
    /\ connection' = [connection EXCEPT !.status = "DISCONNECTED", !.access = Null,
                                        !.refresh = Null, !.expiry = NullExpiry]
    /\ older' = older \cup ({connection.access, connection.refresh} \ {Null})
    /\ UNCHANGED <<installation, listing>>

ClearInstallations_KeepsRepositories ==
    /\ installation' = IF installation = "none" THEN "none" ELSE "INACTIVE"
    /\ UNCHANGED <<connection, listing, older>>

ClearInstallations ==
    /\ installation' = IF installation = "none" THEN "none" ELSE "INACTIVE"
    /\ listing' = [x \in Repositories |-> Null]
    /\ UNCHANGED <<connection, older>>

(* The two statements of a GitHub disconnect run side by side, the second  *)
(* a transaction over repositories and installations; Gmail has the first  *)
(* only.                                                                   *)
ClearPart(part) == \/ part = "connection" /\ ClearConnection
                   \/ part = "installations" /\ ClearInstallations

Parts == {"connection"} \cup (IF provider = "GITHUB" THEN {"installations"} ELSE {})

BeginDisconnect(c, part) ==
    /\ call[c].at = "idle"
    /\ part \in Parts
    /\ ClearPart(part)
    /\ call' = [call EXCEPT ![c] =
          IF Parts = {part} THEN Over
          ELSE [Idle EXCEPT !.op = "disconnect", !.at = "clear",
                            !.left = Parts \ {part}]]
    /\ disturbed' = (\E d \in Calls : InFlight(d))
    /\ UNCHANGED <<provider, flow, stored>>

EndDisconnect(c) ==
    /\ call[c].at = "clear"
    /\ \E part \in call[c].left : ClearPart(part)
    /\ Finish(c)
    /\ UNCHANGED <<provider, flow, stored, disturbed>>

-----------------------------------------------------------------------------
(* The token a call works with: accessToken() of the API's two services,   *)
(* getAccessToken() of the worker's two providers.                         *)

HasToken == IF provider = "GMAIL" THEN connection.refresh # Null
                                  ELSE connection.access # Null

(* The API uses a GitHub token to its last minute and never refreshes it;  *)
(* the worker does, and both do for Gmail.                                 *)
Usable(op) ==
    /\ connection.access # Null
    /\ \/ connection.expiry = "good"
       \/ connection.expiry = "due" /\ provider = "GITHUB" /\ op # "tool"

Refreshes(op) == connection.refresh # Null /\ (provider = "GMAIL" \/ op = "tool")

(* The row is read; the call goes on to next with the token it found, or   *)
(* to the provider with the refresh token, or fails.                       *)
ReadToken(c, next) ==
    /\ call[c].at = "token"
    /\ IF HasToken /\ Usable(call[c].op)
       THEN GoOn(c, next, connection.access)
       ELSE IF HasToken /\ Refreshes(call[c].op)
       THEN GoOn(c, "refresh", connection.refresh)
       ELSE Finish(c)

(* The provider's new access token is written whatever the row has become. *)
Refresh(c, next) ==
    /\ call[c].at = "refresh"
    /\ \E expiry \in GrantedExpiries :
          connection' = [connection EXCEPT !.status = "CONNECTED", !.expiry = expiry,
                                           !.access = call[c].token]
    /\ GoOn(c, next, call[c].token)

(* Time passes: the last minute before expiresAt begins, then it is over.  *)
TokenExpires ==
    /\ connection.access # Null /\ connection.expiry # "past"
    /\ connection' = [connection EXCEPT
                         !.expiry = IF @ = "good" THEN "due" ELSE "past"]
    /\ UNCHANGED <<provider, installation, listing, flow, call, history>>

-----------------------------------------------------------------------------
(* What status() answers and the settings page shows.                      *)

connectionState ==
    IF connection.status = "none" THEN "DISCONNECTED"
    ELSE IF connection.expiry = "past" THEN "EXPIRED" ELSE connection.status

(* GmailService.status(): with the keys missing, the mock shows any row as *)
(* connected.                                                              *)
gmailStatus ==
    IF ~Configured /\ ~DevMock THEN "MISCONFIGURED"
    ELSE IF ~Configured /\ connection.status # "none" THEN "CONNECTED"
    ELSE connectionState

(* GithubService.statusResponse().                                         *)
githubStatus == IF Configured THEN connectionState ELSE "MISCONFIGURED"

Shown == IF provider = "GMAIL" THEN gmailStatus ELSE githubStatus

-----------------------------------------------------------------------------
(* A tool call of the worker: read the token, refresh it, use it.          *)
BeginTool(c) ==
    /\ Begin(c, "tool", "token")
    /\ UNCHANGED <<provider, rows, flow, stored, older>>

ToolToken(c) ==
    /\ call[c].op = "tool" /\ ReadToken(c, "done")
    /\ UNCHANGED <<provider, rows, flow, history>>

ToolRefresh(c) ==
    /\ call[c].op = "tool" /\ Refresh(c, "done")
    /\ UNCHANGED <<provider, installation, listing, flow, history>>

-----------------------------------------------------------------------------
(* GitHub's installation and repositories.                                 *)

BeginSync(c) ==
    /\ Configured /\ provider = "GITHUB"
    /\ Begin(c, "sync", "token")
    /\ UNCHANGED <<provider, rows, flow, stored, older>>

SyncToken(c) ==
    /\ call[c].op = "sync" /\ ReadToken(c, "installation")
    /\ UNCHANGED <<provider, rows, flow, history>>

(* GitHub has listed the installation with any of its repositories; the    *)
(* rows are written one statement each, without a transaction.             *)
SyncInstallation(c) ==
    /\ call[c].at = "installation"
    /\ installation' = "ACTIVE"
    /\ \E found \in SUBSET Repositories :
          IF found = {} THEN Finish(c)
          ELSE call' = [call EXCEPT ![c].at = "repositories", ![c].left = found]
    /\ UNCHANGED <<provider, connection, listing, flow, history>>

SyncRepository(c) ==
    /\ call[c].at = "repositories"
    /\ \E x \in call[c].left \cap Repositories :
          /\ listing' = [listing EXCEPT ![x] = call[c].token]
          /\ IF call[c].left = {x} THEN Finish(c)
             ELSE call' = [call EXCEPT ![c].left = @ \ {x}]
    /\ UNCHANGED <<provider, connection, installation, flow, history>>

(* handleWebhook(): GitHub's word on the installation, at any time.        *)
Webhook ==
    /\ installation # "none"
    /\ installation' \in {"ACTIVE", "INACTIVE"}
    /\ UNCHANGED <<provider, connection, listing, flow, call, history>>

(* A repository that list, create and submit find.                         *)
Visible(x) == installation = "ACTIVE" /\ listing[x] # Null

-----------------------------------------------------------------------------
(* An error of the provider or the database, or the end of the process.    *)
Abandon(c) ==
    /\ InFlight(c)
    /\ Finish(c)
    /\ disturbed' = (disturbed \/ call[c].at = "clear")
    /\ UNCHANGED <<provider, rows, flow, stored, older>>

ConnectionsNext ==
    \/ \E f \in Flows : Connect(f) \/ Consent(f) \/ FlowLost(f) \/ ConnectDevMock(f)
    \/ \E c \in Calls, f \in Flows : BeginComplete(c, f)
    \/ \E c \in Calls, part \in Parts : BeginDisconnect(c, part)
    \/ \E c \in Calls : \/ Redeem(c) \/ StoreTokens(c) \/ EndDisconnect(c)
                        \/ BeginTool(c) \/ ToolToken(c) \/ ToolRefresh(c)
                        \/ BeginSync(c) \/ SyncToken(c)
                        \/ SyncInstallation(c) \/ SyncRepository(c)
    \/ TokenExpires \/ Webhook

-----------------------------------------------------------------------------
(* The properties.                                                         *)

(* However often the callback page posts, and whatever is lost in between, *)
(* the tokens of one consent are stored once at most: a late duplicate     *)
(* cannot bring back a connection that was cleared.                        *)
ConsentStoredOnce ==
    \A c, d \in Calls : call[c].at = "store" =>
        /\ call[c].token \notin stored
        /\ call[d].at = "store" /\ call[c].token = call[d].token => c = d

(* Disconnecting sticks: unless another call overlapped it, or it broke    *)
(* off half-way, no token that it cleared is back in the row, and every    *)
(* repository that is still listed was listed with a later token.          *)
DisconnectSticks ==
    ~disturbed /\ ~Disconnecting =>
        /\ connection.access \notin older /\ connection.refresh \notin older
        /\ \A x \in Repositories : listing[x] \notin older

(* What a call finds in the row: nothing that makes it fail at once.       *)
FindsToken(op) == HasToken /\ (Usable(op) \/ Refreshes(op))

(* A connection shown as connected works: a call of the API finds a token  *)
(* to use or to refresh, and so does a tool call of the worker, but for a  *)
(* GitHub token without a refresh token in its last minute, which the      *)
(* worker refuses already.  For GitHub this holds whatever overlaps; for   *)
(* Gmail not after an overlapped disconnect, since a refresh that answers  *)
(* late marks the cleared row as connected again.  Where Gmail's keys are  *)
(* missing the API shows any row as connected, a cleared one as well, and  *)
(* nothing is promised.                                                    *)
ShownConnectedWorks ==
    Configured /\ Shown = "CONNECTED" /\ (provider = "GITHUB" \/ ~disturbed) =>
        /\ FindsToken("send")
        /\ connection.expiry = "good" \/ connection.refresh # Null => FindsToken("tool")

=============================================================================
