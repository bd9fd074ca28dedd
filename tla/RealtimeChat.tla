---------------------------- MODULE RealtimeChat ----------------------------
(***************************************************************************)
(* The web chat on durable runs: the worker commits what it does to the    *)
(* run's row and publishes an event after it; Redis carries the event to   *)
(* the gateway, which emits it to the sockets in the run's room; the hook  *)
(* useDurableRunChat shows the run from these events, from the answers to  *)
(* its subscriptions and from the snapshots it fetches over REST.          *)
(*                                                                         *)
(* REST requests are independent of each other and of the socket: each is  *)
(* read at the server in one step and applied by the hook in another.  The *)
(* messages on one socket keep their order, so what the gateway emits is   *)
(* given to the hook in the same step: an event is late on its way to the  *)
(* gateway, and an acknowledgement after the row was read for it.          *)
(* The run itself moves along the table that AgentRun is shown to follow,  *)
(* and one delta stands for the text a model streams.                      *)
(***************************************************************************)
EXTENDS Statuses, Naturals, Sequences, FiniteSets

CONSTANTS
    Runs,        \* the runs the chat may start, numbered in that order
    Ends,        \* the terminal statuses that occur
    MaxFaults,   \* bound on disconnects, lost messages and failed requests
    MaxActs,     \* bound on what the user does
    Null

ASSUME RunsAssumption == Runs \subseteq Nat
ASSUME EndsAssumption == Ends \subseteq RunTerminal
ASSUME BoundsAssumption == MaxFaults \in Nat /\ MaxActs \in Nat
ASSUME NullAssumption == Null \notin Runs /\ Null \notin AgentRunStatus

VARIABLES
    run,        \* the status column of each run, Null before it is created
    answer,     \* how far the run's answer is: streamed, in the conversation
    bus,        \* the events on their way from the worker to the gateway
    socket,     \* whether the socket is up, and the rooms it has joined
    asked,      \* the subscriptions under way
    recovery,   \* recoverRun of each run
    sending,    \* sends whose startRun has not reached the API
    started,    \* runs created for a send that has not seen the answer
    cancelling, \* cancelRun of each run
    view,       \* the hook's state
    faults,     \* faults so far
    acts,       \* what the user has done so far
    \* History, which no step of the code reads.
    upset       \* the view was given something older than what it shows, or
                \* something of another run, or the run's end passed it by

runVars == <<run, answer>>
bounds == <<faults, acts>>
callVars == <<recovery, sending, started, cancelling>>
vars == <<runVars, bus, socket, asked, callVars, view, bounds, upset>>

Active == {"QUEUED", "RUNNING", "CANCEL_REQUESTED"}

Event == [run : Runs, kind : {"token", "RUNNING"} \cup Ends]

NoView == [run |-> Null, status |-> Null, terminal |-> Null,
           draft |-> {}, answers |-> {}]

NoRecovery == [at |-> "idle", says |-> Null]

TypeOK ==
    /\ run \in [Runs -> AgentRunStatus \cup {Null}]
    /\ answer \in [Runs -> {"none", "streamed", "stored"}]
    /\ bus \in Seq(Event)
    /\ socket \in [up : BOOLEAN, rooms : SUBSET Runs]
    /\ asked \subseteq [by : {"send", "connect"}, run : Runs,
                        says : AgentRunStatus \cup {Null}]
    /\ recovery \in [Runs -> [at : {"idle", "asked", "read", "list"},
                              says : AgentRunStatus \cup {Null}]]
    /\ sending \in 0 .. Cardinality(Runs) /\ started \subseteq Runs
    /\ cancelling \in [Runs -> {"idle", "asked", "done"}]
    /\ view \in [run : Runs \cup {Null}, status : AgentRunStatus \cup {Null},
                 terminal : Ends \cup {Null}, draft : SUBSET Runs,
                 answers : SUBSET Runs]
    /\ faults \in 0 .. MaxFaults /\ acts \in 0 .. MaxActs /\ upset \in BOOLEAN

Init ==
    /\ run = [r \in Runs |-> Null] /\ answer = [r \in Runs |-> "none"]
    /\ bus = <<>>
    /\ socket = [up |-> TRUE, rooms |-> {}] /\ asked = {}
    /\ recovery = [r \in Runs |-> NoRecovery]
    /\ sending = 0 /\ started = {} /\ cancelling = [r \in Runs |-> "idle"]
    /\ view = NoView /\ faults = 0 /\ acts = 0 /\ upset = FALSE

Fault == faults < MaxFaults /\ faults' = faults + 1 /\ UNCHANGED acts

Act == acts < MaxActs /\ acts' = acts + 1 /\ UNCHANGED faults

Sending == sending > 0 \/ started # {}

(* An answer about r is out of place when the hook has moved on from r, or *)
(* is about to: none of the handlers of an answer asks which run is shown. *)
OutOfPlace(r) == r # view.run \/ Sending

(* A status older than the end that the view already shows.                *)
Overwrites(s) == s \notin RunTerminal /\ view.status \in RunTerminal

(* Something under way will still read the run's row.                      *)
Pending(r) ==
    \/ ~socket.up \/ r \in started \/ recovery[r].at = "asked"
    \/ \E q \in asked : q.run = r /\ q.says = Null

-----------------------------------------------------------------------------
(* The worker: it commits, and publishes after it.  The time an event is   *)
(* on its way begins at the commit.                                        *)

Publish(r, kind) == bus' = Append(bus, [run |-> r, kind |-> kind])

(* The worker's only slot takes the runs in the order they were queued.    *)
Turn(r) == \A x \in Runs \ {r} : /\ run[x] # "RUNNING"
                                  /\ x < r => run[x] # "QUEUED"

MarkRunning(r) ==
    /\ run[r] = "QUEUED" /\ Turn(r)
    /\ run' = [run EXCEPT ![r] = "RUNNING"]
    /\ Publish(r, "RUNNING")
    /\ UNCHANGED <<answer, socket, asked, callVars, view, bounds, upset>>

StreamDelta(r) ==
    /\ run[r] \in {"RUNNING", "CANCEL_REQUESTED"} /\ answer[r] = "none"
    /\ answer' = [answer EXCEPT ![r] = "streamed"]
    /\ Publish(r, "token")
    /\ UNCHANGED <<run, socket, asked, callVars, view, bounds, upset>>

(* completeStep() of the llm.generate step.                                *)
StoreAnswer(r) ==
    /\ run[r] \in {"RUNNING", "CANCEL_REQUESTED"} /\ answer[r] = "streamed"
    /\ answer' = [answer EXCEPT ![r] = "stored"]
    /\ UNCHANGED <<run, bus, socket, asked, callVars, view, bounds, upset>>

FinishRun(r) ==
    /\ Turn(r)
    /\ \E s \in Ends :
         /\ <<run[r], s>> \in agentRunTransitions
         /\ s = "COMPLETED" => answer[r] = "stored"
         /\ run' = [run EXCEPT ![r] = s]
         /\ Publish(r, s)
    /\ UNCHANGED <<answer, socket, asked, callVars, view, bounds, upset>>

(* The end of a run goes by and nothing is left that will tell it.         *)
Missed(e) == e.kind \in RunTerminal /\ ~Pending(e.run)

(* Redis is down, or the worker dies between the commit and the publisher. *)
EventLost ==
    /\ bus # <<>> /\ Fault
    /\ bus' = Tail(bus)
    /\ upset' = (upset \/ Missed(Head(bus)))
    /\ UNCHANGED <<runVars, socket, asked, callVars, view>>

-----------------------------------------------------------------------------
(* The gateway.                                                            *)

(* subscribeToRun(): the snapshot is read, the room is joined after it.    *)
ReadSnapshot(q) ==
    /\ socket.up /\ q.says = Null
    /\ asked' = (asked \ {q}) \cup {[q EXCEPT !.says = run[q.run]]}
    /\ UNCHANGED <<runVars, bus, socket, callVars, view, bounds, upset>>

-----------------------------------------------------------------------------
(* The REST requests at the API.                                           *)

StartRun ==
    /\ sending > 0
    /\ \E r \in Runs :
         /\ run[r] = Null /\ \A x \in Runs : run[x] = Null => r <= x
         /\ run' = [run EXCEPT ![r] = "QUEUED"]
         /\ started' = started \cup {r}
    /\ sending' = sending - 1
    /\ UNCHANGED <<answer, bus, socket, asked, recovery, cancelling,
                   view, bounds, upset>>

(* requestCancellation(): a run that is not active is a 404.               *)
CancelRun(r) ==
    /\ cancelling[r] = "asked"
    /\ IF run[r] \in {"QUEUED", "RUNNING"}
       THEN /\ run' = [run EXCEPT ![r] = "CANCEL_REQUESTED"]
            /\ cancelling' = [cancelling EXCEPT ![r] = "done"]
       ELSE UNCHANGED run /\ cancelling' = [cancelling EXCEPT ![r] = "idle"]
    /\ UNCHANGED <<answer, bus, socket, asked, recovery, sending,
                   started, view, bounds, upset>>

GetRunSnapshot(r) ==
    /\ recovery[r].at = "asked"
    /\ recovery' = [recovery EXCEPT ![r].at = "read", ![r].says = run[r]]
    /\ UNCHANGED <<runVars, bus, socket, asked, sending, started, cancelling,
                   view, bounds, upset>>

-----------------------------------------------------------------------------
(* The hook: what starts a recovery, and what its two answers do.          *)

BeginRecovery(r) ==
    IF recovery[r].at = "idle"
    THEN [recovery EXCEPT ![r] = [NoRecovery EXCEPT !.at = "asked"]]
    ELSE recovery

(* recoverRun returns at once: the one under way has read the row already. *)
Skipped(r) == recovery[r].at \notin {"idle", "asked"}
                /\ recovery[r].says \notin RunTerminal

Ended(s) == IF s \in RunTerminal THEN s ELSE Null

ApplySnapshot(r) ==
    /\ recovery[r].at = "read"
    /\ LET s == recovery[r].says
       IN /\ view' = [view EXCEPT !.status = s, !.terminal = Ended(s)]
          /\ upset' = IF s \in RunTerminal /\ ~OutOfPlace(r) THEN FALSE
                      ELSE upset \/ OutOfPlace(r) \/ Overwrites(s)
    /\ recovery' = [recovery EXCEPT ![r].at = "list"]
    /\ UNCHANGED <<runVars, bus, socket, asked, sending, started, cancelling,
                   bounds>>

ApplyMessages(r) ==
    /\ recovery[r].at = "list"
    /\ view' = [view EXCEPT
         !.answers = {x \in Runs : x = r /\ answer[x] = "stored"},
         !.draft = IF recovery[r].says \in RunTerminal THEN {} ELSE @]
    /\ recovery' = [recovery EXCEPT ![r] = NoRecovery]
    /\ upset' = (upset \/ OutOfPlace(r))
    /\ UNCHANGED <<runVars, bus, socket, asked, sending, started, cancelling,
                   bounds>>

(* A request fails: finally, the run may be recovered again.               *)
RecoverFails(r) ==
    /\ recovery[r].at # "idle" /\ Fault
    /\ recovery' = [recovery EXCEPT ![r] = NoRecovery]
    /\ upset' = (upset \/ run[r] \in RunTerminal)
    /\ UNCHANGED <<runVars, bus, socket, asked, sending, started, cancelling,
                   view>>

-----------------------------------------------------------------------------
(* The hook: the socket.                                                   *)

OnRunEvent_Shows(e) ==
    IF e.run # view.run THEN UNCHANGED <<view, recovery, upset>>
    ELSE /\ view' = IF e.kind = "token"
                    THEN [view EXCEPT !.draft = @ \cup {e.run}]
                    ELSE [view EXCEPT !.status = e.kind, !.terminal = Ended(e.kind)]
         /\ upset' = (upset \/ Sending \/ Overwrites(e.kind))
         /\ UNCHANGED recovery

(* onRunEvent(): only events of the run in runIdRef count.                 *)
OnRunEvent(e) ==
    IF e.run # view.run THEN UNCHANGED <<view, recovery, upset>>
    ELSE IF e.kind = "token"
    THEN /\ view' = [view EXCEPT !.draft = @ \cup {e.run}]
         /\ upset' = (upset \/ Sending \/ Overwrites("RUNNING"))
         /\ UNCHANGED recovery
    ELSE IF e.kind = "RUNNING"
    THEN /\ view' = [view EXCEPT !.status = "RUNNING"]
         /\ upset' = (upset \/ Overwrites("RUNNING"))
         /\ UNCHANGED recovery
    ELSE /\ view' = [view EXCEPT !.status = e.kind, !.terminal = e.kind]
         /\ recovery' = BeginRecovery(e.run)
         /\ upset' = (upset \/ Sending \/ Skipped(e.run))

(* The gateway's publish(): who is not in the room now never gets it.      *)
Emit ==
    /\ bus # <<>>
    /\ bus' = Tail(bus)
    /\ IF socket.up /\ Head(bus).run \in socket.rooms
       THEN OnRunEvent(Head(bus))
       ELSE /\ upset' = (upset \/ Missed(Head(bus)))
            /\ UNCHANGED <<view, recovery>>
    /\ UNCHANGED <<runVars, socket, asked, sending, started, cancelling, bounds>>

JoinRoom(q) ==
    /\ q.says # Null
    /\ asked' = asked \ {q}
    /\ socket' = [socket EXCEPT !.rooms = @ \cup {q.run}]

(* The acknowledgement counts for whatever run it is.                      *)
OnSubscribed(q) ==
    /\ JoinRoom(q)
    /\ view' = [view EXCEPT !.status = q.says]
    /\ LET recovers == q.says \in RunTerminal
       IN /\ recovery' = IF recovers THEN BeginRecovery(q.run) ELSE recovery
          /\ upset' = (upset \/ OutOfPlace(q.run) \/ Overwrites(q.says)
                             \/ (recovers /\ Skipped(q.run)))
    /\ UNCHANGED <<runVars, bus, sending, started, cancelling, bounds>>

(* It takes more than five seconds: nobody listens to it any more.         *)
SubscribeTimesOut(q) ==
    /\ Fault
    /\ JoinRoom(q) \/ (q.says = Null /\ asked' = asked \ {q} /\ UNCHANGED socket)
    /\ upset' = (upset \/ run[q.run] \in RunTerminal)
    /\ UNCHANGED <<runVars, bus, callVars, view>>

(* The server forgets the socket, its rooms and its requests.              *)
Disconnect ==
    /\ socket.up /\ Fault
    /\ socket' = [up |-> FALSE, rooms |-> {}]
    /\ asked' = {}
    /\ UNCHANGED <<runVars, bus, callVars, view, upset>>

(* resubscribe(): the shown run is subscribed and recovered.               *)
Connect ==
    /\ ~socket.up
    /\ socket' = [socket EXCEPT !.up = TRUE]
    /\ IF view.run = Null
       THEN UNCHANGED <<asked, recovery, upset>>
       ELSE /\ asked' = asked \cup {[by |-> "connect", run |-> view.run,
                                     says |-> Null]}
            /\ recovery' = BeginRecovery(view.run)
            /\ upset' = (upset \/ Skipped(view.run))
    /\ UNCHANGED <<runVars, bus, sending, started, cancelling, view, bounds>>

-----------------------------------------------------------------------------
(* The hook: what the user does.                                           *)

Send_KeepsEnd ==
    /\ Act
    /\ view.status \notin Active
    /\ sending < Cardinality({r \in Runs : run[r] = Null})
    /\ sending' = sending + 1
    /\ view' = [view EXCEPT !.draft = {}]
    /\ UNCHANGED <<runVars, bus, socket, asked, recovery, started, cancelling, upset>>

(* Until the answer, the guard sees the status of the run shown before.    *)
Send ==
    /\ Act
    /\ view.status \notin Active
    /\ sending < Cardinality({r \in Runs : run[r] = Null})
    /\ sending' = sending + 1
    /\ view' = [view EXCEPT !.draft = {}, !.terminal = Null]
    /\ UNCHANGED <<runVars, bus, socket, asked, recovery, started, cancelling, upset>>

Started(r) ==
    /\ r \in started
    /\ started' = started \ {r}
    /\ view' = [view EXCEPT !.run = r, !.status = "QUEUED"]
    /\ asked' = asked \cup {[by |-> "send", run |-> r, says |-> Null]}
    /\ UNCHANGED <<runVars, bus, socket, recovery, sending, cancelling,
                   bounds, upset>>

(* The error is shown; a run that was created goes on without the chat.    *)
SendFails ==
    /\ Fault
    /\ \/ sending > 0 /\ sending' = sending - 1 /\ UNCHANGED started
       \/ \E r \in started : started' = started \ {r} /\ UNCHANGED sending
    /\ UNCHANGED <<runVars, bus, socket, asked, recovery, cancelling, view, upset>>

Cancel ==
    /\ Act
    /\ view.run # Null /\ view.status \in Active
    /\ cancelling[view.run] = "idle"
    /\ cancelling' = [cancelling EXCEPT ![view.run] = "asked"]
    /\ UNCHANGED <<runVars, bus, socket, asked, recovery, sending, started,
                   view, upset>>

(* The answer counts however late it comes: a run that has ended meanwhile *)
(* is shown as active again, and the guard of Send keeps the chat closed.  *)
Cancelled(r) ==
    /\ cancelling[r] = "done"
    /\ cancelling' = [cancelling EXCEPT ![r] = "idle"]
    /\ view' = [view EXCEPT !.status = "CANCEL_REQUESTED"]
    /\ upset' = (upset \/ OutOfPlace(r) \/ Overwrites("CANCEL_REQUESTED"))
    /\ UNCHANGED <<runVars, bus, socket, asked, recovery, sending, started, bounds>>

CancelFails(r) ==
    /\ cancelling[r] # "idle" /\ Fault
    /\ cancelling' = [cancelling EXCEPT ![r] = "idle"]
    /\ UNCHANGED <<runVars, bus, socket, asked, recovery, sending, started,
                   view, upset>>

(* reset(): nothing under way is stopped.                                  *)
Reset ==
    /\ Act
    /\ view # NoView
    /\ view' = NoView /\ upset' = FALSE
    /\ UNCHANGED <<runVars, bus, socket, asked, callVars>>

-----------------------------------------------------------------------------
Execute(r) == MarkRunning(r) \/ StreamDelta(r) \/ StoreAnswer(r) \/ FinishRun(r)

Server(r) == CancelRun(r) \/ GetRunSnapshot(r)

Hook(r) == ApplySnapshot(r) \/ ApplyMessages(r) \/ Started(r) \/ Cancelled(r)

Subscribe == \E q \in asked : ReadSnapshot(q) \/ OnSubscribed(q)

Next ==
    \/ \E r \in Runs : \/ Execute(r) \/ Server(r) \/ Hook(r)
                       \/ RecoverFails(r) \/ CancelFails(r)
    \/ Emit \/ EventLost \/ Subscribe \/ StartRun
    \/ \E q \in asked : SubscribeTimesOut(q)
    \/ Disconnect \/ Connect \/ Send \/ SendFails \/ Cancel \/ Reset

Spec == Init /\ [][Next]_vars

-----------------------------------------------------------------------------
(* The properties.                                                         *)

(* The chat never shows an end the run has not come to: events follow the  *)
(* commit they tell of, and the end of the run before is gone when the new *)
(* run appears - unless an answer came out of place.                       *)
ShownEndIsReal == ~upset /\ view.terminal # Null => view.terminal = run[view.run]

Quiet ==
    /\ sending = 0 /\ started = {} /\ asked = {} /\ bus = <<>>
    /\ socket.up
    /\ \A r \in Runs : /\ recovery[r].at = "idle" /\ cancelling[r] = "idle"

(* When all is quiet the chat shows the end of its run, the answer is in   *)
(* the list and no streamed text is left beside it, in whichever order     *)
(* tokens, end and recoveries have come.  An end that fell into a          *)
(* disconnect is made up for by the reconnect; only the hazards that upset *)
(* names - an end emitted between the snapshot and the join, a recovery    *)
(* skipped for an older one, a late answer, a lost message - can hide it,  *)
(* and a recovery that reads the end undoes whatever they did.             *)
ViewFollowsRun ==
    Quiet /\ ~upset /\ view.run # Null /\ run[view.run] \in RunTerminal
      => /\ view.status = run[view.run]
         /\ view.draft = {}
         /\ answer[view.run] = "stored" => view.run \in view.answers

=============================================================================
