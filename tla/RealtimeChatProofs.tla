------------------------- MODULE RealtimeChatProofs -------------------------
(* What the chat shows, for any runs, ends, faults and acts of the user: no *)
(* end that its run has not come to, and in the end the one it has.         *)
EXTENDS RealtimeChat, SequenceTheorems, TLAPS

Recovery == [at : {"idle", "asked", "read", "list"}, says : AgentRunStatus \cup {Null}]

(* What the argument needs of the types; of the view, only which run it is  *)
(* of and which end it shows.                                               *)
RunTyped == run \in [Runs -> AgentRunStatus \cup {Null}]
BusTyped == bus \in Seq(Event)
RecoveryTyped == recovery \in [Runs -> Recovery]
SendTyped == sending \in Nat /\ started \subseteq Runs
ViewTyped ==
    /\ {"run", "terminal"} \subseteq DOMAIN view
    /\ view.run \in Runs \cup {Null} /\ view.terminal \in RunTerminal \cup {Null}
    /\ upset \in BOOLEAN

(* An event tells an end only after the row has come to it.                 *)
BusOK == \A i \in DOMAIN bus : bus[i].kind \in Ends => run[bus[i].run] = bus[i].kind

(* So does a snapshot.                                                      *)
RecoveryOK ==
    \A r \in Runs : recovery[r].says \in RunTerminal => run[r] = recovery[r].says

(* No end is shown while a send is under way, whose run will be the next.   *)
SendingOK == ~upset /\ Sending => view.terminal = Null

ShownOK ==
    ~upset /\ view.terminal # Null
      => view.run \in Runs /\ view.terminal = run[view.run]

Rows == RunTyped /\ BusTyped /\ RecoveryTyped /\ BusOK /\ RecoveryOK
Shown == SendTyped /\ ViewTyped /\ SendingOK /\ ShownOK
Inv == Rows /\ Shown

-----------------------------------------------------------------------------
(* What steps do to each part. *)

(* A run's row that has come to an end stays there.                         *)
RunMoves ==
    /\ RunTyped'
    /\ \A r \in Runs : run[r] \in RunTerminal => run'[r] = run[r]

(* An event that is new tells what the row says.                            *)
BusMoves ==
    /\ BusTyped'
    /\ \A i \in DOMAIN bus' :
          \/ \E j \in DOMAIN bus : bus'[i] = bus[j]
          \/ bus'[i].kind \in Ends => run'[bus'[i].run] = bus'[i].kind

RecoveryMoves ==
    /\ RecoveryTyped'
    /\ \A r \in Runs : \/ recovery'[r].says = recovery[r].says
                       \/ recovery'[r].says = Null \/ recovery'[r].says = run[r]

(* The run shown and its end stay, or what is shown is out of place.        *)
ShownMoves ==
    /\ ViewTyped' /\ SendTyped'
    /\ upset => upset'
    /\ Sending' => Sending
    /\ view'.run = view.run /\ view'.terminal = view.terminal

LEMMA NullIsNoStatus == Null \notin RunTerminal /\ RunTerminal \subseteq AgentRunStatus
BY NullAssumption DEF RunTerminal, AgentRunStatus

LEMMA EventType ==
    ASSUME NEW event \in Event
    PROVE  event.run \in Runs /\ event.kind \in {"token", "RUNNING"} \cup Ends
BY DEF Event

LEMMA EndsAreTerminal ==
    /\ Ends \subseteq RunTerminal /\ {"token", "RUNNING"} \cap Ends = {}
    /\ {"token", "RUNNING", "QUEUED", "CANCEL_REQUESTED"} \cap RunTerminal = {}
BY EndsAssumption DEF RunTerminal

LEMMA TerminalOpensNothing ==
    ASSUME NEW s, NEW t, <<s, t>> \in agentRunTransitions
    PROVE  s \in {"QUEUED", "RUNNING", "CANCEL_REQUESTED"}
BY DEF agentRunTransitions

LEMMA RunStays ==
    ASSUME RunTyped, run' = run
    PROVE  RunMoves
BY DEF RunTyped, RunMoves

LEMMA RunSet ==
    ASSUME RunTyped, NEW r \in Runs, NEW s \in AgentRunStatus, run[r] \notin RunTerminal,
           run' = [run EXCEPT ![r] = s]
    PROVE  RunMoves /\ run'[r] = s
BY DEF RunTyped, RunMoves

LEMMA BusStays ==
    ASSUME BusTyped, bus' = bus
    PROVE  BusMoves
BY DEF BusTyped, BusMoves

LEMMA BusAppends ==
    ASSUME BusTyped, NEW r \in Runs, NEW kind \in {"token", "RUNNING"} \cup Ends,
           Publish(r, kind), kind \in Ends => run'[r] = kind
    PROVE  BusMoves
<1>. DEFINE event == [run |-> r, kind |-> kind]
<1>1. event \in Event /\ bus' = Append(bus, event)
  BY DEF Event, Publish
<1>2. /\ bus' \in Seq(Event) /\ Len(bus') = Len(bus) + 1 /\ bus'[Len(bus) + 1] = event
      /\ \A i \in 1 .. Len(bus) : bus'[i] = bus[i]
  BY <1>1, AppendProperties DEF BusTyped
<1>3. /\ Len(bus) \in Nat /\ DOMAIN bus = 1 .. Len(bus)
      /\ DOMAIN bus' = 1 .. Len(bus) + 1
  BY <1>2, LenProperties DEF BusTyped
<1>4. \A i \in DOMAIN bus' : i \in DOMAIN bus \/ i = Len(bus) + 1
  BY <1>3
<1>. QED
  BY <1>2, <1>3, <1>4 DEF BusTyped, BusMoves

LEMMA BusReads ==
    ASSUME BusTyped, bus # <<>>, bus' = Tail(bus)
    PROVE  /\ BusMoves /\ Head(bus) \in Event
           /\ 1 \in DOMAIN bus /\ Head(bus) = bus[1]
<1>1. /\ Tail(bus) \in Seq(Event) /\ Len(Tail(bus)) = Len(bus) - 1
      /\ Head(bus) \in Event /\ Head(bus) = bus[1]
      /\ \A i \in 1 .. Len(Tail(bus)) : Tail(bus)[i] = bus[i + 1]
  BY HeadTailProperties DEF BusTyped
<1>2. /\ Len(bus) \in Nat \ {0} /\ DOMAIN bus = 1 .. Len(bus)
      /\ DOMAIN Tail(bus) = 1 .. Len(Tail(bus))
  BY <1>1, LenProperties, EmptySeq DEF BusTyped
<1>3. \A i \in DOMAIN Tail(bus) : i + 1 \in DOMAIN bus
  BY <1>1, <1>2
<1>. QED
  BY <1>1, <1>2, <1>3 DEF BusTyped, BusMoves

LEMMA RecoveryStays ==
    ASSUME RecoveryTyped, recovery' = recovery
    PROVE  RecoveryMoves
BY DEF RecoveryTyped, RecoveryMoves

LEMMA RecoverySet ==
    ASSUME RecoveryTyped, NEW r \in Runs, NEW next \in Recovery,
           next.says \in {recovery[r].says, Null, run[r]},
           recovery' = [recovery EXCEPT ![r] = next]
    PROVE  RecoveryMoves
BY DEF RecoveryTyped, RecoveryMoves

LEMMA RecoveryBegins ==
    ASSUME RecoveryTyped, NEW r, recovery' = BeginRecovery(r)
    PROVE  RecoveryMoves
<1>1. CASE recovery[r].at = "idle"
  <2>1. /\ [NoRecovery EXCEPT !.at = "asked"] \in Recovery
        /\ [NoRecovery EXCEPT !.at = "asked"].says = Null
    BY DEF NoRecovery, Recovery
  <2>2. CASE r \in Runs
    BY <1>1, <2>1, <2>2, RecoverySet DEF BeginRecovery
  <2>3. CASE r \notin Runs
    BY <1>1, <2>3 DEF BeginRecovery, RecoveryTyped, RecoveryMoves
  <2>. QED
    BY <2>2, <2>3
<1>2. CASE recovery[r].at # "idle"
  BY <1>2, RecoveryStays DEF BeginRecovery
<1>. QED
  BY <1>1, <1>2

LEMMA RowsStep ==
    ASSUME Rows, RunMoves, BusMoves, RecoveryMoves
    PROVE  Rows'
<1>1. BusOK'
  <2>1. \A i \in DOMAIN bus : bus[i] \in Event
    BY ElementOfSeq, LenProperties DEF Rows, BusTyped
  <2>. QED
    BY <2>1, EventType, EndsAreTerminal DEF Rows, BusOK, RunMoves, BusMoves
<1>2. RecoveryOK'
  BY NullIsNoStatus DEF Rows, RecoveryOK, RunMoves, RecoveryMoves
<1>. QED
  BY <1>1, <1>2 DEF Rows, RunMoves, BusMoves, RecoveryMoves

LEMMA ShownStep ==
    ASSUME Shown, RunMoves, ShownMoves
    PROVE  Shown'
<1>1. SendingOK'
  BY DEF Shown, SendingOK, ShownMoves
<1>2. ShownOK'
  BY NullIsNoStatus DEF Shown, ShownOK, ViewTyped, RunMoves, ShownMoves
<1>. QED
  BY <1>1, <1>2 DEF Shown, ShownMoves

LEMMA ShownStays ==
    ASSUME Shown, view' = view, upset' = upset, sending' = sending, started' = started
    PROVE  ShownMoves
BY DEF Shown, ShownMoves, ViewTyped, SendTyped, Sending

-----------------------------------------------------------------------------
(* The steps. *)

LEMMA ExecuteStep ==
    ASSUME Inv, NEW r \in Runs, Execute(r)
    PROVE  Inv'
<1>1. RecoveryMoves /\ ShownMoves
  BY RecoveryStays, ShownStays
     DEF Inv, Rows, Execute, MarkRunning, StreamDelta, StoreAnswer, FinishRun, callVars
<1>2. RunMoves /\ BusMoves
  <2>1. CASE MarkRunning(r)
    BY <2>1, RunSet, BusAppends, EndsAreTerminal DEF Inv, Rows, MarkRunning, AgentRunStatus
  <2>2. CASE StreamDelta(r)
    BY <2>2, RunStays, BusAppends, EndsAreTerminal DEF Inv, Rows, StreamDelta
  <2>3. CASE StoreAnswer(r)
    BY <2>3, RunStays, BusStays DEF Inv, Rows, StoreAnswer
  <2>4. CASE FinishRun(r)
    <3>1. PICK s \in Ends : /\ <<run[r], s>> \in agentRunTransitions
                            /\ run' = [run EXCEPT ![r] = s] /\ Publish(r, s)
      BY <2>4 DEF FinishRun
    <3>2. s \in AgentRunStatus /\ run[r] \notin RunTerminal
      BY <3>1, TerminalOpensNothing, EndsAreTerminal, NullIsNoStatus
    <3>3. RunMoves /\ run'[r] = s
      BY <3>1, <3>2, RunSet DEF Inv, Rows
    <3>. QED
      BY <3>1, <3>3, BusAppends DEF Inv, Rows
  <2>. QED
    BY <2>1, <2>2, <2>3, <2>4 DEF Execute
<1>. QED
  BY <1>1, <1>2, RowsStep, ShownStep DEF Inv

LEMMA ServerStep ==
    ASSUME Inv, NEW r \in Runs, Server(r)
    PROVE  Inv'
<1>1. BusMoves /\ ShownMoves
  BY BusStays, ShownStays DEF Inv, Rows, Server, CancelRun, GetRunSnapshot
<1>2. RunMoves
  <2>1. CASE run' = run
    BY <2>1, RunStays DEF Inv, Rows
  <2>2. CASE run' # run
    <3>1. run[r] \in {"QUEUED", "RUNNING"}
          /\ run' = [run EXCEPT ![r] = "CANCEL_REQUESTED"]
      BY <2>2 DEF Server, CancelRun, GetRunSnapshot, runVars
    <3>. QED
      BY <3>1, RunSet, EndsAreTerminal DEF Inv, Rows, AgentRunStatus
  <2>. QED
    BY <2>1, <2>2
<1>3. RecoveryMoves
  <2>1. CASE CancelRun(r)
    BY <2>1, RecoveryStays DEF Inv, Rows, CancelRun
  <2>2. CASE GetRunSnapshot(r)
    BY <2>2 DEF Inv, Rows, RunTyped, RecoveryTyped, Recovery, RecoveryMoves, GetRunSnapshot
  <2>. QED
    BY <2>1, <2>2 DEF Server
<1>. QED
  BY <1>1, <1>2, <1>3, RowsStep, ShownStep DEF Inv

(* The snapshot's end is the row's, and counts for the run it is of.        *)
LEMMA SnapshotStep ==
    ASSUME Inv, NEW r \in Runs, ApplySnapshot(r)
    PROVE  Inv'
<1>1. RunMoves /\ BusMoves
  BY RunStays, BusStays DEF Inv, Rows, ApplySnapshot, runVars
<1>2. RecoveryMoves
  BY DEF Inv, Rows, RecoveryTyped, Recovery, RecoveryMoves, ApplySnapshot
<1>3. PICK s : /\ s = recovery[r].says
               /\ view' = [view EXCEPT !.status = s, !.terminal = Ended(s)]
               /\ upset' = IF s \in RunTerminal /\ ~OutOfPlace(r) THEN FALSE
                           ELSE upset \/ OutOfPlace(r) \/ Overwrites(s)
  BY DEF ApplySnapshot
<1>4. /\ Ended(s) \in RunTerminal \cup {Null} /\ (Ended(s) # Null => run[r] = Ended(s))
  BY <1>3, NullIsNoStatus DEF Inv, Rows, RecoveryOK, Ended
<1>5. /\ view'.run = view.run /\ view'.terminal = Ended(s)
      /\ {"run", "terminal"} \subseteq DOMAIN view'
      /\ sending' = sending /\ started' = started /\ run' = run
  BY <1>3 DEF Inv, Shown, ViewTyped, ApplySnapshot, runVars
<1>6. upset' \in BOOLEAN /\ (~upset' => view.run = r /\ ~Sending)
  BY <1>3 DEF Inv, Shown, ViewTyped, OutOfPlace, Sending, Overwrites
<1>7. Shown'
  BY <1>4, <1>5, <1>6 DEF Inv, Shown, ViewTyped, SendTyped, SendingOK, ShownOK, Sending
<1>. QED
  BY <1>1, <1>2, <1>7, RowsStep DEF Inv

LEMMA HookStep ==
    ASSUME Inv, NEW r \in Runs,
           ApplyMessages(r) \/ Started(r) \/ Cancelled(r) \/ RecoverFails(r) \/ CancelFails(r)
    PROVE  Inv'
<1>1. RunMoves /\ BusMoves /\ run' = run
  BY RunStays, BusStays
     DEF Inv, Rows, ApplyMessages, Started, Cancelled, RecoverFails, CancelFails, runVars
<1>2. RecoveryMoves
  <2>1. NoRecovery \in Recovery /\ NoRecovery.says = Null
    BY DEF NoRecovery, Recovery
  <2>2. CASE ApplyMessages(r) \/ RecoverFails(r)
    BY <2>1, <2>2, RecoverySet DEF Inv, Rows, ApplyMessages, RecoverFails
  <2>3. CASE Started(r) \/ Cancelled(r) \/ CancelFails(r)
    BY <2>3, RecoveryStays DEF Inv, Rows, Started, Cancelled, CancelFails
  <2>. QED
    BY <2>2, <2>3
<1>3. Shown'
  <2>1. CASE Started(r)
    <3>1. /\ view' = [view EXCEPT !.run = r, !.status = "QUEUED"] /\ r \in started
          /\ started' = started \ {r} /\ sending' = sending /\ upset' = upset
      BY <2>1 DEF Started
    <3>2. /\ view'.run = r /\ view'.terminal = view.terminal
          /\ {"run", "terminal"} \subseteq DOMAIN view' /\ Sending
      BY <3>1 DEF Inv, Shown, ViewTyped, Sending
    <3>. QED
      BY <3>1, <3>2
         DEF Inv, Shown, ViewTyped, SendTyped, SendingOK, ShownOK, Sending
  <2>2. CASE ApplyMessages(r) \/ Cancelled(r)
    <3>1. /\ view'.run = view.run /\ view'.terminal = view.terminal
          /\ {"run", "terminal"} \subseteq DOMAIN view'
      BY <2>2 DEF Inv, Shown, ViewTyped, ApplyMessages, Cancelled
    <3>2. /\ upset' \in BOOLEAN /\ (upset => upset')
          /\ sending' = sending /\ started' = started
      BY <2>2 DEF Inv, Shown, ViewTyped, ApplyMessages, Cancelled, OutOfPlace, Overwrites
    <3>3. ShownMoves
      BY <3>1, <3>2 DEF Inv, Shown, ViewTyped, SendTyped, ShownMoves, Sending
    <3>. QED
      BY <1>1, <3>3, ShownStep DEF Inv
  <2>3. CASE RecoverFails(r) \/ CancelFails(r)
    <3>1. /\ view' = view /\ upset' \in BOOLEAN /\ (upset => upset')
          /\ sending' = sending /\ started' = started
      BY <2>3 DEF Inv, Shown, ViewTyped, RecoverFails, CancelFails
    <3>2. ShownMoves
      BY <3>1 DEF Inv, Shown, ViewTyped, SendTyped, ShownMoves, Sending
    <3>. QED
      BY <1>1, <3>2, ShownStep DEF Inv
  <2>. QED
    BY <2>1, <2>2, <2>3
<1>. QED
  BY <1>1, <1>2, <1>3, RowsStep DEF Inv

(* An end that is emitted is the row's.                                     *)
LEMMA EmitStep ==
    ASSUME Inv, Emit
    PROVE  Inv'
<1>1. PICK event \in Event :
         /\ event = Head(bus) /\ bus' = Tail(bus) /\ BusMoves
         /\ event.kind \in Ends => run[event.run] = event.kind
  BY BusReads DEF Inv, Rows, BusOK, Emit
<1>2. /\ RunMoves /\ run' = run /\ sending' = sending /\ started' = started
  BY RunStays DEF Inv, Rows, Emit, runVars
<1>3. /\ event.run \in Runs /\ event.kind \in {"token", "RUNNING"} \cup Ends
  BY EventType
<1>4. CASE ~(socket.up /\ event.run \in socket.rooms) \/ event.run # view.run
  <2>1. /\ view' = view /\ recovery' = recovery /\ upset' \in BOOLEAN /\ (upset => upset')
    BY <1>1, <1>4 DEF Inv, Shown, ViewTyped, Emit, OnRunEvent, Missed
  <2>2. ShownMoves /\ RecoveryMoves
    BY <1>2, <2>1, RecoveryStays
       DEF Inv, Rows, Shown, ViewTyped, SendTyped, ShownMoves, Sending
  <2>. QED
    BY <1>1, <1>2, <2>2, RowsStep, ShownStep DEF Inv
<1>5. CASE socket.up /\ event.run \in socket.rooms /\ event.run = view.run
  <2>1. OnRunEvent(event)
    BY <1>1, <1>5 DEF Emit
  <2>2. CASE event.kind \in {"token", "RUNNING"}
    <3>1. /\ view'.run = view.run /\ view'.terminal = view.terminal
          /\ {"run", "terminal"} \subseteq DOMAIN view' /\ recovery' = recovery
      BY <1>5, <2>1, <2>2 DEF Inv, Shown, ViewTyped, OnRunEvent
    <3>2. upset' \in BOOLEAN /\ (upset => upset')
      BY <1>5, <2>1, <2>2 DEF Inv, Shown, ViewTyped, OnRunEvent, Sending, Overwrites
    <3>3. ShownMoves /\ RecoveryMoves
      BY <1>2, <3>1, <3>2, RecoveryStays
         DEF Inv, Rows, Shown, ViewTyped, SendTyped, ShownMoves, Sending
    <3>. QED
      BY <1>1, <1>2, <3>3, RowsStep, ShownStep DEF Inv
  <2>3. CASE event.kind \in Ends
    <3>1. /\ view' = [view EXCEPT !.status = event.kind, !.terminal = event.kind]
          /\ recovery' = BeginRecovery(event.run)
          /\ upset' = (upset \/ Sending \/ Skipped(event.run))
      BY <1>5, <2>1, <2>3, EndsAreTerminal DEF OnRunEvent
    <3>2. /\ view'.run = event.run /\ view'.terminal = event.kind
          /\ {"run", "terminal"} \subseteq DOMAIN view'
          /\ event.kind \in RunTerminal /\ run[event.run] = event.kind
      BY <1>1, <1>5, <2>3, <3>1, EndsAreTerminal DEF Inv, Shown, ViewTyped
    <3>3. upset' \in BOOLEAN /\ (~upset' => ~Sending)
      BY <3>1 DEF Inv, Shown, ViewTyped, Sending, Skipped
    <3>4. RecoveryMoves
      BY <1>3, <3>1, RecoveryBegins DEF Inv, Rows
    <3>5. Shown'
      BY <1>2, <1>3, <3>2, <3>3
         DEF Inv, Shown, ViewTyped, SendTyped, SendingOK, ShownOK, Sending
    <3>. QED
      BY <1>1, <1>2, <3>4, <3>5, RowsStep DEF Inv
  <2>. QED
    BY <1>3, <2>2, <2>3
<1>. QED
  BY <1>4, <1>5

(* Steps that leave the hook's view and the sends alone.                    *)
LEMMA NetworkStep ==
    ASSUME Inv,
           \/ EventLost \/ Disconnect \/ Connect
           \/ \E q \in asked : ReadSnapshot(q) \/ SubscribeTimesOut(q)
    PROVE  Inv'
<1>1. RunMoves
  BY RunStays DEF Inv, Rows, EventLost, Disconnect, Connect, ReadSnapshot,
     SubscribeTimesOut, runVars
<1>2. BusMoves
  BY BusStays, BusReads DEF Inv, Rows, EventLost, Disconnect, Connect, ReadSnapshot,
     SubscribeTimesOut
<1>3. RecoveryMoves
  BY RecoveryStays, RecoveryBegins DEF Inv, Rows, EventLost, Disconnect, Connect,
     ReadSnapshot, SubscribeTimesOut, callVars
<1>4. ShownMoves
  <2>1. view' = view /\ sending' = sending /\ started' = started
    BY DEF EventLost, Disconnect, Connect, ReadSnapshot, SubscribeTimesOut, callVars
  <2>2. upset' \in BOOLEAN /\ (upset => upset')
    BY DEF Inv, Shown, ViewTyped, EventLost, Disconnect, Connect, ReadSnapshot,
       SubscribeTimesOut, Missed, Skipped
  <2>. QED
    BY <2>1, <2>2 DEF Inv, Shown, ViewTyped, SendTyped, ShownMoves, Sending
<1>. QED
  BY <1>1, <1>2, <1>3, <1>4, RowsStep, ShownStep DEF Inv

LEMMA SubscribedStep ==
    ASSUME Inv, NEW q \in asked, OnSubscribed(q)
    PROVE  Inv'
<1>1. RunMoves /\ BusMoves
  BY RunStays, BusStays DEF Inv, Rows, OnSubscribed, runVars
<1>2. RecoveryMoves
  BY RecoveryStays, RecoveryBegins DEF Inv, Rows, OnSubscribed
<1>3. /\ view'.run = view.run /\ view'.terminal = view.terminal
      /\ {"run", "terminal"} \subseteq DOMAIN view'
      /\ sending' = sending /\ started' = started
  BY DEF Inv, Shown, ViewTyped, OnSubscribed
<1>4. upset' \in BOOLEAN /\ (upset => upset')
  BY DEF Inv, Shown, ViewTyped, OnSubscribed, OutOfPlace, Sending, Overwrites, Skipped
<1>5. ShownMoves
  BY <1>3, <1>4 DEF Inv, Shown, ViewTyped, SendTyped, ShownMoves, Sending
<1>. QED
  BY <1>1, <1>2, <1>5, RowsStep, ShownStep DEF Inv

LEMMA StartStep ==
    ASSUME Inv, StartRun
    PROVE  Inv'
<1>1. PICK r \in Runs :
         /\ run[r] = Null /\ run' = [run EXCEPT ![r] = "QUEUED"]
         /\ started' = started \cup {r}
  BY DEF StartRun
<1>2. RunMoves
  BY <1>1, RunSet, NullIsNoStatus DEF Inv, Rows, AgentRunStatus
<1>3. BusMoves /\ RecoveryMoves
  BY BusStays, RecoveryStays DEF Inv, Rows, StartRun
<1>4. /\ view' = view /\ upset' = upset /\ sending > 0 /\ sending' = sending - 1
      /\ started' \subseteq Runs /\ sending' \in Nat
  BY <1>1 DEF Inv, Shown, SendTyped, StartRun
<1>5. ShownMoves
  BY <1>4 DEF Inv, Shown, ViewTyped, SendTyped, ShownMoves, Sending
<1>. QED
  BY <1>2, <1>3, <1>5, RowsStep, ShownStep DEF Inv

(* Sending clears the end that is shown; a reset clears everything.         *)
LEMMA UserStep ==
    ASSUME Inv, Send \/ SendFails \/ Cancel \/ Reset
    PROVE  Inv'
<1>1. RunMoves /\ BusMoves /\ RecoveryMoves
  BY RunStays, BusStays, RecoveryStays
     DEF Inv, Rows, Send, SendFails, Cancel, Reset, runVars, callVars
<1>2. CASE Send
  <2>1. /\ view' = [view EXCEPT !.draft = {}, !.terminal = Null]
        /\ upset' = upset /\ sending' = sending + 1 /\ started' = started
    BY <1>2 DEF Send
  <2>2. /\ view'.run = view.run /\ view'.terminal = Null
        /\ {"run", "terminal"} \subseteq DOMAIN view'
    BY <2>1 DEF Inv, Shown, ViewTyped
  <2>3. Shown'
    BY <2>1, <2>2 DEF Inv, Shown, ViewTyped, SendTyped, SendingOK, ShownOK
  <2>. QED
    BY <1>1, <2>3, RowsStep DEF Inv
<1>3. CASE SendFails
  <2>1. /\ view' = view /\ upset' = upset
        /\ sending' \in {sending, sending - 1} /\ sending' \in Nat
        /\ started' \subseteq started
    BY <1>3 DEF Inv, Shown, SendTyped, SendFails
  <2>2. ShownMoves
    BY <2>1 DEF Inv, Shown, ViewTyped, SendTyped, ShownMoves, Sending
  <2>. QED
    BY <1>1, <2>2, ShownStep, RowsStep DEF Inv
<1>4. CASE Cancel
  BY <1>1, <1>4, ShownStays, ShownStep, RowsStep DEF Inv, Cancel
<1>5. CASE Reset
  <2>1. /\ view' = NoView /\ upset' = FALSE /\ sending' = sending /\ started' = started
    BY <1>5 DEF Reset, callVars
  <2>2. Shown'
    BY <2>1 DEF Inv, Shown, NoView, ViewTyped, SendTyped, SendingOK, ShownOK
  <2>. QED
    BY <1>1, <2>2, RowsStep DEF Inv
<1>. QED
  BY <1>2, <1>3, <1>4, <1>5

LEMMA InvInit == Init => Inv
<1>. SUFFICES ASSUME Init
              PROVE  Inv
  OBVIOUS
<1>1. Rows
  BY EmptySeq, NullIsNoStatus DEF Init, Rows, RunTyped, BusTyped, RecoveryTyped, Recovery,
     NoRecovery, BusOK, RecoveryOK
<1>2. Shown
  BY DEF Init, Shown, NoView, ViewTyped, SendTyped, SendingOK, ShownOK
<1>. QED
  BY <1>1, <1>2 DEF Inv

LEMMA InvNext == Inv /\ [Next]_vars => Inv'
<1>. SUFFICES ASSUME Inv, [Next]_vars
              PROVE  Inv'
  OBVIOUS
<1>1. CASE UNCHANGED vars
  <2>1. RunMoves /\ BusMoves /\ RecoveryMoves /\ ShownMoves
    BY <1>1, RunStays, BusStays, RecoveryStays, ShownStays
       DEF vars, runVars, callVars, Inv, Rows
  <2>. QED
    BY <2>1, RowsStep, ShownStep DEF Inv
<1>2. ASSUME NEW r \in Runs,
             Execute(r) \/ Server(r) \/ Hook(r) \/ RecoverFails(r) \/ CancelFails(r)
      PROVE  Inv'
  BY <1>2, ExecuteStep, ServerStep, SnapshotStep, HookStep DEF Hook
<1>3. CASE Subscribe
  BY <1>3, NetworkStep, SubscribedStep DEF Subscribe
<1>. QED
  BY <1>1, <1>2, <1>3, EmitStep, NetworkStep, StartStep, UserStep DEF Next

(* The inductive invariant: what is told of an end, by an event or by a     *)
(* snapshot, is what the row has come to, and no end is shown when the run  *)
(* shown is about to change.                                                *)
THEOREM Invariance == Spec => []Inv
BY InvInit, InvNext, PTL DEF Spec

(* The chat never shows an end its run has not come to, however late its    *)
(* events, snapshots and acknowledgements are, unless one is out of place.  *)
THEOREM NoFalseEnd == Spec => []ShownEndIsReal
<1>1. Inv => ShownEndIsReal
  BY DEF Inv, Shown, ShownOK, ShownEndIsReal
<1>. QED
  BY <1>1, Invariance, PTL

-----------------------------------------------------------------------------
(* That the view comes to the end of its run. *)

Ask == [by : {"send", "connect"}, run : Runs, says : AgentRunStatus \cup {Null}]

(* What the argument needs of the types beyond Inv.                         *)
FollowTyped ==
    /\ {"status", "draft", "answers"} \subseteq DOMAIN view
    /\ answer \in [Runs -> {"none", "streamed", "stored"}]
    /\ asked \subseteq Ask
    /\ {"up", "rooms"} \subseteq DOMAIN socket

(* A run is shown or waits to be shown after it was created, and not both.  *)
StartedOK ==
    /\ view.run \notin started
    /\ \A r \in Runs : r \in started \/ r = view.run => run[r] # Null

(* An acknowledgement, too, tells an end that the row has come to.          *)
AskedOK == \A q \in asked : q.says \in RunTerminal => run[q.run] = q.says

(* Something under way will tell the end of r: the reconnect, the event, a  *)
(* recovery or a subscription that reads the row or has read the end.       *)
BusTells(r) == \E i \in DOMAIN bus : bus[i].run = r /\ bus[i].kind \in Ends

RecoveryTells(r) ==
    \/ recovery[r].at = "asked"
    \/ recovery[r].at = "read" /\ recovery[r].says \in RunTerminal

AskTells(r) == \E q \in asked : q.run = r /\ (q.says = Null \/ q.says \in RunTerminal)

Tells(r) == ~socket.up \/ BusTells(r) \/ RecoveryTells(r) \/ AskTells(r)

(* The end is shown, and the conversation is fetched after it, or it is     *)
(* fetched and the streamed text is gone.                                   *)
Listing(r) == recovery[r].at = "list" /\ recovery[r].says \in RunTerminal

Settled(r) ==
    /\ view.draft = {}
    /\ answer[r] = "stored" => r \in view.answers

Caught(r) == view.status = run[r] /\ (Listing(r) \/ Settled(r))

(* The end of the run shown will be told, or it is shown.                   *)
FollowOK ==
    \A r \in Runs : ~upset /\ r = view.run /\ run[r] \in RunTerminal
                      => Tells(r) \/ Caught(r)

FollowParts == FollowTyped /\ StartedOK /\ AskedOK /\ FollowOK
FollowInv == Inv /\ FollowParts

-----------------------------------------------------------------------------
(* What steps do to these parts. *)

(* A run that was created is not undone, and no end is new or undone.       *)
RunKeeps ==
    \A r \in Runs : /\ run[r] # Null => run'[r] # Null
                    /\ run'[r] \in RunTerminal => run'[r] = run[r]
                    /\ run[r] \in RunTerminal => run'[r] = run[r]

LEMMA NullsApart == Null \notin Runs /\ Null \notin RunTerminal /\ Null \notin Active
BY NullAssumption DEF RunTerminal, AgentRunStatus, Active

LEMMA ActiveIsNoEnd == Active \cap RunTerminal = {}
BY DEF RunTerminal, Active

LEMMA KeepsSame ==
    ASSUME run' = run
    PROVE  RunKeeps
BY DEF RunKeeps

LEMMA KeepsSet ==
    ASSUME RunTyped, NEW x \in Runs, NEW s, s \notin RunTerminal, s # Null,
           run[x] \notin RunTerminal, run' = [run EXCEPT ![x] = s]
    PROVE  RunKeeps
BY DEF RunTyped, RunKeeps

(* The run shown and the subscriptions stay, or read the row.               *)
LEMMA AsideParts ==
    ASSUME FollowInv, RunKeeps, view'.run = view.run, started' \subseteq started,
           \A q \in asked' : q.run \in Runs /\ (q \in asked \/ q.says \in {Null, run[q.run]})
    PROVE  StartedOK' /\ AskedOK'
<1>1. StartedOK /\ AskedOK
  BY DEF FollowInv, FollowParts
<1>2. StartedOK'
  BY <1>1 DEF StartedOK, RunKeeps
<1>3. AskedOK'
  BY <1>1, NullsApart DEF AskedOK, RunKeeps
<1>. QED
  BY <1>2, <1>3

LEMMA AskShape ==
    ASSUME FollowInv, NEW q \in asked
    PROVE  q \in Ask /\ q.run \in Runs
BY DEF FollowInv, FollowParts, FollowTyped, Ask

(* The view goes on following its run if each way of following it leads to  *)
(* another.                                                                 *)
LEMMA FollowStep ==
    ASSUME FollowInv, RunKeeps, view'.run = view.run, upset => upset',
           \A r \in Runs :
              ~upset' /\ r = view.run /\ run[r] \in RunTerminal /\ (Tells(r) \/ Caught(r))
                => (Tells(r) \/ Caught(r))'
    PROVE  FollowOK'
<1>1. FollowOK
  BY DEF FollowInv, FollowParts
<1>. SUFFICES ASSUME NEW r \in Runs, ~upset', r = view.run, run'[r] \in RunTerminal
              PROVE  (Tells(r) \/ Caught(r))'
  BY DEF FollowOK
<1>2. ~upset /\ run[r] \in RunTerminal
  BY DEF RunKeeps
<1>3. Tells(r) \/ Caught(r)
  BY <1>1, <1>2 DEF FollowOK
<1>. QED
  BY <1>2, <1>3

LEMMA TellsOn ==
    ASSUME BusTyped, NEW x \in Runs, NEW kind \in {"token", "RUNNING"} \cup Ends,
           Publish(x, kind)
    PROVE  /\ kind \in Ends => BusTells(x)'
           /\ \A r \in Runs : BusTells(r) => BusTells(r)'
<1>. DEFINE event == [run |-> x, kind |-> kind]
<1>1. event \in Event /\ bus' = Append(bus, event) /\ event.run = x /\ event.kind = kind
  BY DEF Event, Publish
<1>. HIDE DEF event
<1>2. /\ bus' \in Seq(Event) /\ Len(bus') = Len(bus) + 1 /\ bus'[Len(bus) + 1] = event
      /\ \A i \in 1 .. Len(bus) : bus'[i] = bus[i]
  BY <1>1, AppendProperties DEF BusTyped
<1>3. /\ Len(bus) \in Nat /\ DOMAIN bus = 1 .. Len(bus)
      /\ DOMAIN bus' = 1 .. Len(bus) + 1
  BY <1>2, LenProperties DEF BusTyped
<1>4. Len(bus) + 1 \in DOMAIN bus' /\ DOMAIN bus \subseteq DOMAIN bus'
  BY <1>3
<1>. QED
  BY <1>1, <1>2, <1>3, <1>4 DEF BusTells

(* An end that leaves the bus is its head.                                  *)
LEMMA TellsTail ==
    ASSUME BusTyped, bus # <<>>, bus' = Tail(bus), NEW r \in Runs, BusTells(r)
    PROVE  BusTells(r)' \/ (Head(bus).run = r /\ Head(bus).kind \in Ends)
<1>1. /\ Tail(bus) \in Seq(Event) /\ Len(Tail(bus)) = Len(bus) - 1
      /\ Head(bus) = bus[1]
      /\ \A i \in 1 .. Len(Tail(bus)) : Tail(bus)[i] = bus[i + 1]
  BY HeadTailProperties DEF BusTyped
<1>2. /\ Len(bus) \in Nat /\ DOMAIN bus = 1 .. Len(bus)
      /\ DOMAIN Tail(bus) = 1 .. Len(Tail(bus))
  BY <1>1, LenProperties DEF BusTyped
<1>3. PICK i \in DOMAIN bus : bus[i].run = r /\ bus[i].kind \in Ends
  BY DEF BusTells
<1>4. CASE i = 1
  BY <1>1, <1>3, <1>4
<1>5. CASE i # 1
  <2>1. i - 1 \in DOMAIN Tail(bus) /\ Tail(bus)[i - 1] = bus[i]
    BY <1>1, <1>2, <1>5
  <2>. QED
    BY <1>3, <2>1 DEF BusTells
<1>. QED
  BY <1>4, <1>5

LEMMA RecoveryBegun ==
    ASSUME RecoveryTyped, NEW x \in Runs, recovery' = BeginRecovery(x)
    PROVE  /\ \A r \in Runs : recovery'[r] = recovery[r] \/ recovery'[r].at = "asked"
           /\ \A r \in Runs : /\ RecoveryTells(r) => RecoveryTells(r)'
                              /\ Listing(r) => Listing(r)' \/ RecoveryTells(r)'
           /\ ~Skipped(x) => RecoveryTells(x)' \/ Listing(x)'
<1>1. [NoRecovery EXCEPT !.at = "asked"].at = "asked"
  BY DEF NoRecovery
<1>2. \A r \in Runs : recovery[r].at \in {"idle", "asked", "read", "list"}
  BY DEF RecoveryTyped, Recovery
<1>3. CASE recovery[x].at = "idle"
  <2>1. /\ recovery'[x].at = "asked"
        /\ \A r \in Runs \ {x} : recovery'[r] = recovery[r]
    BY <1>1, <1>3 DEF BeginRecovery, RecoveryTyped
  <2>. QED
    BY <2>1 DEF RecoveryTells, Listing
<1>4. CASE recovery[x].at # "idle"
  <2>1. recovery' = recovery
    BY <1>4 DEF BeginRecovery
  <2>2. ~Skipped(x) => RecoveryTells(x) \/ Listing(x)
    BY <1>2, <1>4 DEF Skipped, RecoveryTells, Listing
  <2>. QED
    BY <2>1, <2>2 DEF RecoveryTells, Listing
<1>. QED
  BY <1>3, <1>4

-----------------------------------------------------------------------------
(* The steps. *)

LEMMA ExecuteFollows ==
    ASSUME FollowInv, NEW x \in Runs, Execute(x)
    PROVE  FollowParts'
<1>0. FollowTyped /\ StartedOK /\ AskedOK /\ FollowOK /\ RunTyped /\ BusTyped
  BY DEF FollowInv, FollowParts, Inv, Rows
<1>1. /\ UNCHANGED <<socket, asked, recovery, started, view, upset>>
      /\ run[x] \in Active
  BY TerminalOpensNothing DEF Execute, MarkRunning, StreamDelta, StoreAnswer, FinishRun, callVars,
     Active
<1>2. answer' \in [Runs -> {"none", "streamed", "stored"}]
      /\ \A r \in Runs \ {x} : answer'[r] = answer[r]
  BY <1>0 DEF FollowTyped, Execute, MarkRunning, StreamDelta, StoreAnswer, FinishRun
<1>3. FollowTyped'
  BY <1>0, <1>1, <1>2 DEF FollowTyped
<1>4. \A r \in Runs : BusTells(r) => BusTells(r)'
  <2>1. CASE MarkRunning(x)
    BY <1>0, <2>1, TellsOn DEF MarkRunning
  <2>2. CASE StreamDelta(x)
    BY <1>0, <2>2, TellsOn DEF StreamDelta
  <2>3. CASE StoreAnswer(x)
    BY <2>3 DEF StoreAnswer, BusTells
  <2>4. CASE FinishRun(x)
    BY <1>0, <2>4, TellsOn DEF FinishRun
  <2>. QED
    BY <2>1, <2>2, <2>3, <2>4 DEF Execute
<1>5. \A r \in Runs : Tells(r) => Tells(r)'
  BY <1>1, <1>4 DEF Tells, RecoveryTells, AskTells
<1>6. CASE ~FinishRun(x)
  <2>1. RunKeeps
    <3>1. CASE MarkRunning(x)
      <4>1. "RUNNING" \notin RunTerminal /\ "RUNNING" # Null /\ run[x] \notin RunTerminal
        BY <1>1, NullsApart, ActiveIsNoEnd DEF Active
      <4>. QED
        BY <1>0, <3>1, <4>1, KeepsSet DEF MarkRunning
    <3>2. CASE StreamDelta(x) \/ StoreAnswer(x)
      BY <3>2, KeepsSame DEF StreamDelta, StoreAnswer
    <3>. QED
      BY <1>6, <3>1, <3>2 DEF Execute
  <2>2. \A r \in Runs : run[r] \in RunTerminal => r # x
    BY <1>1, ActiveIsNoEnd
  <2>3. \A r \in Runs : run[r] \in RunTerminal /\ Caught(r) => Caught(r)'
    BY <1>1, <1>2, <2>1, <2>2 DEF Caught, Listing, Settled, RunKeeps
  <2>4. FollowOK'
    BY <1>1, <1>5, <2>1, <2>3, FollowStep
  <2>5. StartedOK' /\ AskedOK'
    BY <1>1, <2>1, AskShape, AsideParts
  <2>. QED
    BY <1>3, <2>4, <2>5 DEF FollowParts
<1>7. CASE FinishRun(x)
  <2>1. PICK s \in Ends : run' = [run EXCEPT ![x] = s] /\ Publish(x, s)
    BY <1>7 DEF FinishRun
  <2>2. /\ run'[x] = s /\ s # Null /\ s \in RunTerminal
        /\ \A r \in Runs \ {x} : run'[r] = run[r]
    BY <1>0, <2>1, EndsAreTerminal, NullsApart DEF RunTyped
  <2>3. Tells(x)'
    BY <1>0, <2>1, TellsOn DEF Tells
  <2>4. ASSUME NEW r \in Runs \ {x}, Caught(r) PROVE Caught(r)'
    BY <1>1, <1>2, <2>2, <2>4 DEF Caught, Listing, Settled
  <2>5. FollowOK'
    BY <1>0, <1>1, <1>5, <2>2, <2>3, <2>4 DEF FollowOK
  <2>6. run[x] \notin RunTerminal /\ run[x] # Null
    BY <1>1, NullsApart, ActiveIsNoEnd
  <2>7. StartedOK'
    BY <1>0, <1>1, <2>2 DEF StartedOK
  <2>8. AskedOK'
    BY <1>0, <1>1, <2>2, <2>6, AskShape DEF AskedOK
  <2>. QED
    BY <1>3, <2>5, <2>7, <2>8 DEF FollowParts
<1>. QED
  BY <1>6, <1>7

LEMMA ServerFollows ==
    ASSUME FollowInv, NEW x \in Runs, Server(x)
    PROVE  FollowParts'
<1>0. FollowTyped /\ RunTyped /\ RecoveryTyped
  BY DEF FollowInv, FollowParts, Inv, Rows
<1>1. UNCHANGED <<answer, bus, socket, asked, started, view, upset>>
  BY DEF Server, CancelRun, GetRunSnapshot, runVars
<1>2. FollowTyped'
  BY <1>0, <1>1 DEF FollowTyped
<1>3. RunKeeps
  <2>1. CASE run' = run
    BY <2>1, KeepsSame
  <2>2. CASE run' # run
    <3>1. run[x] \in Active /\ run' = [run EXCEPT ![x] = "CANCEL_REQUESTED"]
      BY <2>2 DEF Server, CancelRun, GetRunSnapshot, runVars, Active
    <3>2. /\ "CANCEL_REQUESTED" \notin RunTerminal /\ "CANCEL_REQUESTED" # Null
          /\ run[x] \notin RunTerminal
      BY <3>1, NullsApart, ActiveIsNoEnd DEF Active
    <3>. QED
      BY <1>0, <3>1, <3>2, KeepsSet
  <2>. QED
    BY <2>1, <2>2
<1>4. ASSUME NEW r \in Runs, run[r] \in RunTerminal
      PROVE  /\ RecoveryTells(r) => RecoveryTells(r)'
             /\ Listing(r) => Listing(r)'
  <2>1. CASE recovery'[r] = recovery[r]
    BY <2>1 DEF RecoveryTells, Listing
  <2>2. CASE recovery'[r] # recovery[r]
    <3>1. /\ recovery[r].at = "asked"
          /\ recovery' = [recovery EXCEPT ![r].at = "read", ![r].says = run[r]]
      BY <1>0, <2>2 DEF Server, CancelRun, GetRunSnapshot, RecoveryTyped
    <3>2. recovery'[r].at = "read" /\ recovery'[r].says = run[r]
      BY <1>0, <3>1 DEF RecoveryTyped, Recovery
    <3>. QED
      BY <1>4, <3>1, <3>2 DEF RecoveryTells, Listing
  <2>. QED
    BY <2>1, <2>2
<1>5. ASSUME NEW r \in Runs, run[r] \in RunTerminal, Tells(r) \/ Caught(r)
      PROVE  (Tells(r) \/ Caught(r))'
  <2>1. run'[r] = run[r]
    BY <1>3, <1>5 DEF RunKeeps
  <2>. QED
    BY <1>1, <1>4, <1>5, <2>1 DEF Tells, BusTells, AskTells, Caught, Settled
<1>6. FollowOK'
  BY <1>1, <1>3, <1>5, FollowStep
<1>7. StartedOK' /\ AskedOK'
  BY <1>1, <1>3, AskShape, AsideParts
<1>. QED
  BY <1>2, <1>6, <1>7 DEF FollowParts

(* A snapshot that tells the end is followed by the conversation; an older  *)
(* one was not what was to tell the end.                                    *)
LEMMA SnapshotFollows ==
    ASSUME FollowInv, NEW x \in Runs, ApplySnapshot(x)
    PROVE  FollowParts'
<1>0. /\ FollowTyped /\ FollowOK /\ ViewTyped /\ RecoveryTyped /\ RecoveryOK
  BY DEF FollowInv, FollowParts, Inv, Rows, Shown
<1>1. UNCHANGED <<run, answer, bus, socket, asked, started>>
  BY DEF ApplySnapshot, runVars
<1>2. PICK s : /\ s = recovery[x].says /\ recovery[x].at = "read"
               /\ view' = [view EXCEPT !.status = s, !.terminal = Ended(s)]
               /\ recovery' = [recovery EXCEPT ![x].at = "list"]
               /\ upset' = IF s \in RunTerminal /\ ~OutOfPlace(x) THEN FALSE
                           ELSE upset \/ OutOfPlace(x) \/ Overwrites(s)
  BY DEF ApplySnapshot
<1>3. /\ view'.run = view.run /\ view'.status = s
      /\ {"status", "draft", "answers"} \subseteq DOMAIN view'
      /\ recovery'[x].at = "list" /\ recovery'[x].says = s
  BY <1>0, <1>2 DEF FollowTyped, ViewTyped, RecoveryTyped, Recovery
<1>4. FollowTyped'
  BY <1>0, <1>1, <1>3 DEF FollowTyped
<1>5. StartedOK' /\ AskedOK'
  BY <1>1, <1>3, KeepsSame, AskShape, AsideParts
<1>6. ~upset' => view.run = x
  BY <1>2 DEF OutOfPlace
<1>7. FollowOK'
  <2>. SUFFICES ASSUME ~upset', run[x] \in RunTerminal, x = view.run
                PROVE  Tells(x)' \/ Caught(x)'
    BY <1>1, <1>3, <1>6 DEF FollowOK
  <2>1. CASE s \in RunTerminal
    BY <1>0, <1>1, <1>2, <1>3, <2>1 DEF RecoveryOK, Caught, Listing
  <2>2. CASE s \notin RunTerminal
    <3>1. ~upset /\ view.status \notin RunTerminal
      BY <1>2, <2>2 DEF Overwrites
    <3>2. Tells(x)
      BY <1>0, <3>1 DEF FollowOK, Caught
    <3>3. ~RecoveryTells(x)
      BY <1>2, <2>2 DEF RecoveryTells
    <3>. QED
      BY <1>1, <3>2, <3>3 DEF Tells, BusTells, AskTells
  <2>. QED
    BY <2>1, <2>2
<1>. QED
  BY <1>4, <1>5, <1>7 DEF FollowParts

(* The conversation is fetched after the end was read.                      *)
LEMMA MessagesFollow ==
    ASSUME FollowInv, NEW x \in Runs, ApplyMessages(x)
    PROVE  FollowParts'
<1>0. FollowTyped /\ ViewTyped /\ RecoveryTyped
  BY DEF FollowInv, FollowParts, Inv, Rows, Shown
<1>1. /\ UNCHANGED <<run, answer, bus, socket, asked, started>>
      /\ recovery[x].at = "list"
      /\ view' = [view EXCEPT
           !.answers = {y \in Runs : y = x /\ answer[y] = "stored"},
           !.draft = IF recovery[x].says \in RunTerminal THEN {} ELSE @]
      /\ upset' = (upset \/ OutOfPlace(x))
  BY DEF ApplyMessages, runVars
<1>2. /\ view'.run = view.run /\ view'.status = view.status
      /\ view'.answers = {y \in Runs : y = x /\ answer[y] = "stored"}
      /\ view'.draft = IF recovery[x].says \in RunTerminal THEN {} ELSE view.draft
      /\ {"status", "draft", "answers"} \subseteq DOMAIN view'
  BY <1>0, <1>1 DEF FollowTyped, ViewTyped
<1>3. FollowTyped'
  BY <1>0, <1>1, <1>2 DEF FollowTyped
<1>4. StartedOK' /\ AskedOK'
  BY <1>1, <1>2, KeepsSame, AskShape, AsideParts
<1>5. ASSUME ~upset', NEW r \in Runs, r = view.run, Tells(r) \/ Caught(r)
      PROVE  Tells(r)' \/ Caught(r)'
  <2>1. r = x
    BY <1>1, <1>5 DEF OutOfPlace
  <2>2. ~RecoveryTells(r)
    BY <1>1, <2>1 DEF RecoveryTells
  <2>3. Tells(r) => Tells(r)'
    BY <1>1, <2>2 DEF Tells, BusTells, AskTells
  <2>4. Caught(r) => Caught(r)'
    BY <1>1, <1>2, <2>1 DEF Caught, Listing, Settled
  <2>. QED
    BY <1>5, <2>3, <2>4
<1>6. FollowOK'
  BY <1>1, <1>2, <1>5, KeepsSame, FollowStep
<1>. QED
  BY <1>3, <1>4, <1>6 DEF FollowParts

(* The run that becomes the one shown is subscribed at once.                *)
LEMMA StartedFollows ==
    ASSUME FollowInv, NEW x \in Runs, Started(x)
    PROVE  FollowParts'
<1>0. FollowTyped /\ StartedOK /\ AskedOK /\ ViewTyped
  BY DEF FollowInv, FollowParts, Inv, Shown
<1>. DEFINE ask == [by |-> "send", run |-> x, says |-> Null]
<1>1. /\ UNCHANGED <<run, answer, bus, socket, recovery, upset>>
      /\ x \in started /\ started' = started \ {x}
      /\ view' = [view EXCEPT !.run = x, !.status = "QUEUED"]
      /\ asked' = asked \cup {ask}
  BY DEF Started, runVars
<1>2. /\ view'.run = x /\ {"status", "draft", "answers"} \subseteq DOMAIN view'
  BY <1>0, <1>1 DEF FollowTyped, ViewTyped
<1>3. ask \in Ask /\ ask.run = x /\ ask.says = Null
  BY DEF Ask
<1>. HIDE DEF ask
<1>4. FollowTyped'
  BY <1>0, <1>1, <1>2, <1>3 DEF FollowTyped
<1>5. StartedOK'
  BY <1>0, <1>1, <1>2 DEF StartedOK
<1>6. AskedOK'
  BY <1>0, <1>1, <1>3, NullsApart DEF AskedOK
<1>7. AskTells(x)'
  BY <1>1, <1>3 DEF AskTells
<1>8. FollowOK'
  BY <1>2, <1>7 DEF FollowOK, Tells
<1>. QED
  BY <1>4, <1>5, <1>6, <1>8 DEF FollowParts

LEMMA CallsFollow ==
    ASSUME FollowInv, NEW x \in Runs, Cancelled(x) \/ CancelFails(x) \/ RecoverFails(x)
    PROVE  FollowParts'
<1>0. FollowTyped /\ ViewTyped /\ RecoveryTyped
  BY DEF FollowInv, FollowParts, Inv, Rows, Shown
<1>1. /\ UNCHANGED <<run, answer, bus, socket, asked, started>>
      /\ upset => upset'
  <2>1. UNCHANGED <<run, answer, bus, socket, asked, started>>
    BY DEF Cancelled, CancelFails, RecoverFails, runVars
  <2>2. upset => upset'
    BY DEF Cancelled, CancelFails, RecoverFails
  <2>. QED
    BY <2>1, <2>2
<1>2. /\ view'.run = view.run /\ view'.draft = view.draft /\ view'.answers = view.answers
      /\ {"status", "draft", "answers"} \subseteq DOMAIN view'
  BY <1>0 DEF FollowTyped, ViewTyped, Cancelled, CancelFails, RecoverFails
<1>3. FollowTyped'
  BY <1>0, <1>1, <1>2 DEF FollowTyped
<1>4. StartedOK' /\ AskedOK'
  BY <1>1, <1>2, KeepsSame, AskShape, AsideParts
<1>5. ASSUME ~upset', NEW r \in Runs, r = view.run, run[r] \in RunTerminal,
             Tells(r) \/ Caught(r)
      PROVE  Tells(r)' \/ Caught(r)'
  <2>1. CASE Cancelled(x)
    <3>1. view.status \notin RunTerminal /\ recovery' = recovery
      BY <1>5, <2>1 DEF Cancelled, Overwrites, RunTerminal
    <3>2. Tells(r)
      BY <1>5, <3>1 DEF Caught
    <3>. QED
      BY <1>1, <3>1, <3>2 DEF Tells, BusTells, AskTells, RecoveryTells
  <2>2. CASE CancelFails(x)
    <3>1. recovery' = recovery /\ view' = view
      BY <2>2 DEF CancelFails
    <3>. QED
      BY <1>1, <1>5, <3>1
      DEF Tells, BusTells, AskTells, RecoveryTells, Caught, Listing, Settled
  <2>3. CASE RecoverFails(x)
    <3>1. r # x /\ view' = view
      BY <1>5, <2>3 DEF RecoverFails
    <3>2. recovery'[r] = recovery[r]
      BY <1>0, <2>3, <3>1 DEF RecoverFails, RecoveryTyped
    <3>. QED
      BY <1>1, <1>5, <3>1, <3>2
      DEF Tells, BusTells, AskTells, RecoveryTells, Caught, Listing, Settled
  <2>. QED
    BY <2>1, <2>2, <2>3
<1>6. FollowOK'
  BY <1>1, <1>2, <1>5, KeepsSame, FollowStep
<1>. QED
  BY <1>3, <1>4, <1>6 DEF FollowParts

(* An event that tells the end of the run shown is shown, and recovered, or *)
(* is missed while something else is pending.                               *)
LEMMA EmitFollows ==
    ASSUME FollowInv, Emit
    PROVE  FollowParts'
<1>0. /\ FollowTyped /\ StartedOK /\ ViewTyped /\ RecoveryTyped /\ BusTyped /\ BusOK
  BY DEF FollowInv, FollowParts, Inv, Rows, Shown
<1>1. PICK event \in Event :
         /\ event = Head(bus) /\ bus' = Tail(bus) /\ bus # <<>>
         /\ event.kind \in Ends => run[event.run] = event.kind
  BY <1>0, BusReads DEF BusOK, Emit
<1>2. /\ UNCHANGED <<run, answer, socket, asked, started>>
      /\ event.run \in Runs /\ event.kind \in {"token", "RUNNING"} \cup Ends
  BY EventType DEF Emit, runVars
<1>3. \A r \in Runs : BusTells(r) => BusTells(r)' \/ (event.run = r /\ event.kind \in Ends)
  BY <1>0, <1>1, TellsTail
<1>4. CASE ~(socket.up /\ event.run \in socket.rooms) \/ event.run # view.run
  <2>1. /\ view' = view /\ recovery' = recovery /\ (upset => upset')
        /\ ~upset' /\ event.run = view.run => ~Missed(event)
    BY <1>1, <1>4 DEF Emit, OnRunEvent
  <2>2. FollowTyped'
    BY <1>0, <1>2, <2>1 DEF FollowTyped
  <2>3. StartedOK' /\ AskedOK'
    BY <1>2, <2>1, KeepsSame, AskShape, AsideParts
  <2>4. ASSUME ~upset', NEW r \in Runs, r = view.run, Tells(r) \/ Caught(r)
        PROVE  Tells(r)' \/ Caught(r)'
    <3>1. CASE event.run = r /\ event.kind \in Ends
      <4>1. Pending(r) /\ r \notin started
        BY <1>0, <2>1, <2>4, <3>1, EndsAreTerminal DEF Missed, StartedOK
      <4>. QED
        BY <1>2, <2>1, <4>1 DEF Pending, Tells, RecoveryTells, AskTells
    <3>2. CASE ~(event.run = r /\ event.kind \in Ends)
      <4>1. BusTells(r) => BusTells(r)'
        BY <1>3, <3>2
      <4>. QED
        BY <1>2, <2>1, <2>4, <4>1 DEF Tells, RecoveryTells, AskTells, Caught, Listing, Settled
    <3>. QED
      BY <3>1, <3>2
  <2>5. FollowOK'
    BY <1>2, <2>1, <2>4, KeepsSame, FollowStep
  <2>. QED
    BY <2>2, <2>3, <2>5 DEF FollowParts
<1>5. CASE socket.up /\ event.run \in socket.rooms /\ event.run = view.run
  <2>1. OnRunEvent(event)
    BY <1>1, <1>5 DEF Emit
  <2>2. CASE event.kind \in {"token", "RUNNING"}
    <3>1. /\ view'.run = view.run /\ recovery' = recovery
          /\ {"status", "draft", "answers"} \subseteq DOMAIN view'
      BY <1>0, <1>5, <2>1, <2>2 DEF FollowTyped, ViewTyped, OnRunEvent
    <3>2. /\ upset => upset'
          /\ ~upset' => view.status \notin RunTerminal
      BY <1>5, <2>1, <2>2, EndsAreTerminal DEF OnRunEvent, Overwrites
    <3>3. ASSUME ~upset', NEW r \in Runs, r = view.run, run[r] \in RunTerminal,
                 Tells(r) \/ Caught(r)
          PROVE  Tells(r)' \/ Caught(r)'
      <4>1. Tells(r)
        BY <3>2, <3>3 DEF Caught
      <4>2. BusTells(r) => BusTells(r)'
        BY <1>3, <2>2, EndsAreTerminal
      <4>. QED
        BY <1>2, <3>1, <4>1, <4>2 DEF Tells, RecoveryTells, AskTells
    <3>4. FollowOK'
      BY <1>2, <3>1, <3>2, <3>3, KeepsSame, FollowStep
    <3>5. FollowTyped'
      BY <1>0, <1>2, <3>1 DEF FollowTyped
    <3>6. StartedOK' /\ AskedOK'
      BY <1>2, <3>1, KeepsSame, AskShape, AsideParts
    <3>. QED
      BY <3>4, <3>5, <3>6 DEF FollowParts
  <2>3. CASE event.kind \in Ends
    <3>1. /\ view' = [view EXCEPT !.status = event.kind, !.terminal = event.kind]
          /\ recovery' = BeginRecovery(event.run)
          /\ upset' = (upset \/ Sending \/ Skipped(event.run))
      BY <1>5, <2>1, <2>3, EndsAreTerminal DEF OnRunEvent
    <3>2. /\ view'.run = view.run /\ view'.status = run[event.run]
          /\ view'.status = run'[event.run]
          /\ {"status", "draft", "answers"} \subseteq DOMAIN view'
      BY <1>0, <1>1, <1>2, <2>3, <3>1 DEF FollowTyped, ViewTyped
    <3>3. ~upset' => RecoveryTells(event.run)' \/ Listing(event.run)'
      BY <1>0, <1>2, <3>1, RecoveryBegun
    <3>4. FollowOK'
      BY <1>5, <3>2, <3>3 DEF FollowOK, Tells, Caught
    <3>5. FollowTyped'
      BY <1>0, <1>2, <3>2 DEF FollowTyped
    <3>6. StartedOK' /\ AskedOK'
      BY <1>2, <3>2, KeepsSame, AskShape, AsideParts
    <3>. QED
      BY <3>4, <3>5, <3>6 DEF FollowParts
  <2>. QED
    BY <1>2, <2>2, <2>3
<1>. QED
  BY <1>4, <1>5

(* The subscriptions: what is read for one, and what its answer does.       *)
LEMMA ReadFollows ==
    ASSUME FollowInv, NEW q \in asked, ReadSnapshot(q)
    PROVE  FollowParts'
<1>0. FollowTyped /\ RunTyped
  BY DEF FollowInv, FollowParts, Inv, Rows
<1>. DEFINE read == [q EXCEPT !.says = run[q.run]]
<1>1. /\ UNCHANGED <<run, answer, bus, socket, recovery, started, view, upset>>
      /\ asked' = (asked \ {q}) \cup {read}
  BY DEF ReadSnapshot, runVars, callVars
<1>2. q \in Ask /\ q.run \in Runs
  BY AskShape
<1>3. read \in Ask /\ read.run = q.run /\ read.says = run[q.run]
  BY <1>0, <1>2 DEF Ask, RunTyped
<1>. HIDE DEF read
<1>4. FollowTyped'
  BY <1>0, <1>1, <1>3 DEF FollowTyped
<1>5. StartedOK' /\ AskedOK'
  BY <1>1, <1>2, <1>3, KeepsSame, AskShape, AsideParts
<1>6. ASSUME NEW r \in Runs, run[r] \in RunTerminal, AskTells(r)
      PROVE  AskTells(r)'
  <2>1. PICK ask \in asked : ask.run = r /\ (ask.says = Null \/ ask.says \in RunTerminal)
    BY <1>6 DEF AskTells
  <2>2. CASE ask = q
    BY <1>1, <1>3, <1>6, <2>1, <2>2 DEF AskTells
  <2>3. CASE ask # q
    BY <1>1, <2>1, <2>3 DEF AskTells
  <2>. QED
    BY <2>2, <2>3
<1>7. ASSUME NEW r \in Runs, run[r] \in RunTerminal, Tells(r) \/ Caught(r)
      PROVE  Tells(r)' \/ Caught(r)'
  BY <1>1, <1>6, <1>7 DEF Tells, BusTells, RecoveryTells, Caught, Listing, Settled
<1>8. FollowOK'
  BY <1>1, <1>7, KeepsSame, FollowStep
<1>. QED
  BY <1>4, <1>5, <1>8 DEF FollowParts

LEMMA SubscribedFollows ==
    ASSUME FollowInv, NEW q \in asked, OnSubscribed(q)
    PROVE  FollowParts'
<1>0. /\ FollowTyped /\ StartedOK /\ AskedOK /\ ViewTyped /\ RecoveryTyped
  BY DEF FollowInv, FollowParts, Inv, Rows, Shown
<1>. DEFINE recovers == q.says \in RunTerminal
<1>1. /\ UNCHANGED <<run, answer, bus, started>>
      /\ q.says # Null /\ asked' = asked \ {q}
      /\ socket' = [socket EXCEPT !.rooms = @ \cup {q.run}]
      /\ view' = [view EXCEPT !.status = q.says]
      /\ recovery' = IF recovers THEN BeginRecovery(q.run) ELSE recovery
      /\ upset' = (upset \/ OutOfPlace(q.run) \/ Overwrites(q.says)
                         \/ (recovers /\ Skipped(q.run)))
  BY DEF OnSubscribed, JoinRoom, runVars
<1>2. q.run \in Runs
  BY AskShape
<1>3. /\ view'.run = view.run /\ view'.status = q.says
      /\ {"status", "draft", "answers"} \subseteq DOMAIN view'
      /\ socket'.up = socket.up /\ {"up", "rooms"} \subseteq DOMAIN socket'
  BY <1>0, <1>1 DEF FollowTyped, ViewTyped
<1>4. FollowTyped'
  BY <1>0, <1>1, <1>3 DEF FollowTyped
<1>5. StartedOK' /\ AskedOK'
  BY <1>1, <1>3, KeepsSame, AskShape, AsideParts
<1>6. ASSUME ~upset', NEW r \in Runs, r = view.run, run[r] \in RunTerminal,
             Tells(r) \/ Caught(r)
      PROVE  Tells(r)' \/ Caught(r)'
  <2>1. q.run = r /\ ~Overwrites(q.says)
    BY <1>1, <1>6 DEF OutOfPlace
  <2>2. CASE recovers
    <3>1. view'.status = run'[r]
      BY <1>0, <1>1, <1>3, <2>1, <2>2 DEF AskedOK
    <3>2. RecoveryTells(r)' \/ Listing(r)'
      BY <1>0, <1>1, <1>2, <1>6, <2>1, <2>2, RecoveryBegun
    <3>. QED
      BY <3>1, <3>2 DEF Tells, Caught
  <2>3. CASE ~recovers
    <3>1. Tells(r)
      BY <1>6, <2>1, <2>3 DEF Overwrites, Caught
    <3>2. AskTells(r) => AskTells(r)'
      BY <1>1, <2>3 DEF AskTells
    <3>3. recovery' = recovery
      BY <1>1, <2>3
    <3>. QED
      BY <1>1, <1>3, <3>1, <3>2, <3>3 DEF Tells, BusTells, RecoveryTells
  <2>. QED
    BY <2>2, <2>3
<1>7. upset => upset'
  BY <1>1
<1>8. FollowOK'
  BY <1>1, <1>3, <1>6, <1>7, KeepsSame, FollowStep
<1>. QED
  BY <1>4, <1>5, <1>8 DEF FollowParts

LEMMA TimesOutFollows ==
    ASSUME FollowInv, NEW q \in asked, SubscribeTimesOut(q)
    PROVE  FollowParts'
<1>0. FollowTyped
  BY DEF FollowInv, FollowParts
<1>1. /\ UNCHANGED <<run, answer, bus, recovery, started, view>>
      /\ asked' = asked \ {q}
      /\ socket' = socket \/ socket' = [socket EXCEPT !.rooms = @ \cup {q.run}]
      /\ upset' = (upset \/ run[q.run] \in RunTerminal)
  BY DEF SubscribeTimesOut, JoinRoom, runVars, callVars
<1>2. socket'.up = socket.up /\ {"up", "rooms"} \subseteq DOMAIN socket'
  BY <1>0, <1>1 DEF FollowTyped
<1>3. FollowTyped'
  BY <1>0, <1>1, <1>2 DEF FollowTyped
<1>4. StartedOK' /\ AskedOK'
  BY <1>1, KeepsSame, AskShape, AsideParts
<1>5. ASSUME ~upset', NEW r \in Runs, run[r] \in RunTerminal, Tells(r) \/ Caught(r)
      PROVE  Tells(r)' \/ Caught(r)'
  <2>1. AskTells(r) => AskTells(r)'
    BY <1>1, <1>5 DEF AskTells
  <2>. QED
    BY <1>1, <1>2, <1>5, <2>1
    DEF Tells, BusTells, RecoveryTells, Caught, Listing, Settled
<1>6. FollowOK'
  BY <1>1, <1>5, KeepsSame, FollowStep
<1>. QED
  BY <1>3, <1>4, <1>6 DEF FollowParts

(* The connection: what a disconnect forgets the reconnect asks for again.  *)
LEMMA ConnectionFollows ==
    ASSUME FollowInv, Connect \/ Disconnect
    PROVE  FollowParts'
<1>0. FollowTyped /\ StartedOK /\ AskedOK /\ ViewTyped /\ RecoveryTyped
  BY DEF FollowInv, FollowParts, Inv, Rows, Shown
<1>1. UNCHANGED <<run, answer, bus, started, view>>
  BY DEF Connect, Disconnect, runVars, callVars
<1>2. CASE Disconnect
  <2>1. socket' = [up |-> FALSE, rooms |-> {}] /\ asked' = {} /\ upset' = upset
    BY <1>2 DEF Disconnect
  <2>2. FollowTyped' /\ ~socket'.up
    BY <1>0, <1>1, <2>1 DEF FollowTyped
  <2>3. StartedOK' /\ AskedOK'
    BY <1>1, <2>1, KeepsSame, AsideParts
  <2>4. FollowOK'
    BY <2>2 DEF FollowOK, Tells
  <2>. QED
    BY <2>2, <2>3, <2>4 DEF FollowParts
<1>3. CASE Connect /\ view.run = Null
  <2>1. /\ socket' = [socket EXCEPT !.up = TRUE] /\ UNCHANGED <<asked, recovery, upset>>
    BY <1>3 DEF Connect
  <2>2. FollowTyped'
    BY <1>0, <1>1, <2>1 DEF FollowTyped
  <2>3. StartedOK' /\ AskedOK'
    BY <1>1, <2>1, KeepsSame, AskShape, AsideParts
  <2>4. FollowOK'
    BY <1>1, <1>3, NullsApart DEF FollowOK
  <2>. QED
    BY <2>2, <2>3, <2>4 DEF FollowParts
<1>4. CASE Connect /\ view.run # Null
  <2>. DEFINE ask == [by |-> "connect", run |-> view.run, says |-> Null]
  <2>1. /\ socket' = [socket EXCEPT !.up = TRUE] /\ asked' = asked \cup {ask}
    BY <1>4 DEF Connect
  <2>2. ask \in Ask /\ ask.run = view.run /\ ask.says = Null /\ view.run \in Runs
    BY <1>0, <1>4 DEF Ask, ViewTyped
  <2>. HIDE DEF ask
  <2>3. FollowTyped'
    BY <1>0, <1>1, <2>1, <2>2 DEF FollowTyped
  <2>4. StartedOK' /\ AskedOK'
    BY <1>1, <2>1, <2>2, KeepsSame, AskShape, AsideParts
  <2>5. AskTells(view.run)'
    BY <1>1, <2>1, <2>2 DEF AskTells
  <2>6. FollowOK'
    BY <1>1, <2>5 DEF FollowOK, Tells
  <2>. QED
    BY <2>3, <2>4, <2>6 DEF FollowParts
<1>. QED
  BY <1>2, <1>3, <1>4

LEMMA LostFollows ==
    ASSUME FollowInv, EventLost
    PROVE  FollowParts'
<1>0. FollowTyped /\ StartedOK /\ BusTyped
  BY DEF FollowInv, FollowParts, Inv, Rows
<1>1. /\ UNCHANGED <<run, answer, socket, asked, recovery, started, view>>
      /\ bus # <<>> /\ bus' = Tail(bus)
      /\ upset' = (upset \/ Missed(Head(bus)))
  BY DEF EventLost, runVars, callVars
<1>2. FollowTyped'
  BY <1>0, <1>1 DEF FollowTyped
<1>3. StartedOK' /\ AskedOK'
  BY <1>1, KeepsSame, AskShape, AsideParts
<1>4. ASSUME ~upset', NEW r \in Runs, r = view.run, Tells(r) \/ Caught(r)
      PROVE  Tells(r)' \/ Caught(r)'
  <2>1. CASE Head(bus).run = r /\ Head(bus).kind \in Ends
    <3>1. Pending(r) /\ r \notin started
      BY <1>0, <1>1, <1>4, <2>1, EndsAreTerminal DEF Missed, StartedOK
    <3>. QED
      BY <1>1, <3>1 DEF Pending, Tells, RecoveryTells, AskTells
  <2>2. CASE ~(Head(bus).run = r /\ Head(bus).kind \in Ends)
    <3>1. BusTells(r) => BusTells(r)'
      BY <1>0, <1>1, <2>2, TellsTail
    <3>. QED
      BY <1>1, <1>4, <3>1 DEF Tells, RecoveryTells, AskTells, Caught, Listing, Settled
  <2>. QED
    BY <2>1, <2>2
<1>5. FollowOK'
  BY <1>1, <1>4, KeepsSame, FollowStep
<1>. QED
  BY <1>2, <1>3, <1>5 DEF FollowParts

LEMMA StartFollows ==
    ASSUME FollowInv, StartRun
    PROVE  FollowParts'
<1>0. FollowTyped /\ StartedOK /\ RunTyped /\ AskedOK
  BY DEF FollowInv, FollowParts, Inv, Rows
<1>1. PICK x \in Runs :
         /\ run[x] = Null /\ run' = [run EXCEPT ![x] = "QUEUED"]
         /\ started' = started \cup {x}
  BY DEF StartRun
<1>2. UNCHANGED <<answer, bus, socket, asked, recovery, view, upset>>
  BY DEF StartRun
<1>3. "QUEUED" \notin RunTerminal /\ "QUEUED" # Null /\ run[x] \notin RunTerminal
  BY <1>1, NullsApart, ActiveIsNoEnd DEF Active
<1>4. RunKeeps /\ run'[x] # Null
  BY <1>0, <1>1, <1>3, KeepsSet DEF RunTyped
<1>5. FollowTyped'
  BY <1>0, <1>2 DEF FollowTyped
<1>6. StartedOK'
  BY <1>0, <1>1, <1>2, <1>4 DEF StartedOK, RunKeeps
<1>7. AskedOK'
  BY <1>0, <1>2, <1>4, AskShape DEF AskedOK, RunKeeps
<1>8. ASSUME NEW r \in Runs, run[r] \in RunTerminal, Tells(r) \/ Caught(r)
      PROVE  Tells(r)' \/ Caught(r)'
  BY <1>2, <1>4, <1>8
  DEF RunKeeps, Tells, BusTells, RecoveryTells, AskTells, Caught, Listing, Settled
<1>9. FollowOK'
  BY <1>2, <1>4, <1>8, FollowStep
<1>. QED
  BY <1>5, <1>6, <1>7, <1>9 DEF FollowParts

LEMMA UserFollows ==
    ASSUME FollowInv, Send \/ SendFails \/ Cancel \/ Reset
    PROVE  FollowParts'
<1>0. FollowTyped /\ StartedOK /\ ViewTyped /\ SendTyped
  BY DEF FollowInv, FollowParts, Inv, Shown
<1>1. UNCHANGED <<run, answer, bus, socket, asked, recovery>>
  BY DEF Send, SendFails, Cancel, Reset, runVars, callVars
<1>2. CASE Reset
  <2>1. view' = NoView /\ started' = started
    BY <1>2 DEF Reset, callVars
  <2>2. view'.run = Null /\ {"status", "draft", "answers"} \subseteq DOMAIN view'
    BY <2>1 DEF NoView
  <2>3. FollowTyped'
    BY <1>0, <1>1, <2>2 DEF FollowTyped
  <2>4. StartedOK' /\ FollowOK'
    BY <1>0, <1>1, <2>1, <2>2, NullsApart DEF SendTyped, StartedOK, FollowOK
  <2>5. AskedOK'
    BY <1>1 DEF FollowInv, FollowParts, AskedOK
  <2>. QED
    BY <2>3, <2>4, <2>5 DEF FollowParts
<1>3. CASE ~Reset
  <2>1. /\ view' = view \/ view' = [view EXCEPT !.draft = {}, !.terminal = Null]
        /\ started' \subseteq started
    BY <1>3 DEF Send, SendFails, Cancel
  <2>2. upset' = upset
    BY <1>3 DEF Send, SendFails, Cancel
  <2>3. /\ view'.run = view.run /\ view'.status = view.status
        /\ view'.draft \in {view.draft, {}} /\ view'.answers = view.answers
        /\ {"status", "draft", "answers"} \subseteq DOMAIN view'
    BY <1>0, <2>1 DEF FollowTyped, ViewTyped
  <2>4. FollowTyped'
    BY <1>0, <1>1, <2>3 DEF FollowTyped
  <2>5. StartedOK' /\ AskedOK'
    BY <1>1, <2>1, <2>3, KeepsSame, AskShape, AsideParts
  <2>6. ASSUME NEW r \in Runs, Tells(r) \/ Caught(r)
        PROVE  Tells(r)' \/ Caught(r)'
    BY <1>1, <2>3, <2>6
    DEF Tells, BusTells, RecoveryTells, AskTells, Caught, Listing, Settled
  <2>7. FollowOK'
    BY <1>1, <2>2, <2>3, <2>6, KeepsSame, FollowStep
  <2>. QED
    BY <2>4, <2>5, <2>7 DEF FollowParts
<1>. QED
  BY <1>2, <1>3

LEMMA FollowInit == Init => FollowInv
<1>. SUFFICES ASSUME Init
              PROVE  FollowInv
  OBVIOUS
<1>1. FollowTyped
  BY DEF Init, FollowTyped, NoView
<1>2. StartedOK
  BY NullsApart DEF Init, StartedOK, NoView
<1>3. AskedOK
  BY DEF Init, AskedOK
<1>4. FollowOK
  BY NullsApart DEF Init, FollowOK, NoView
<1>. QED
  BY <1>1, <1>2, <1>3, <1>4, InvInit DEF FollowInv, FollowParts

LEMMA FollowNext == FollowInv /\ [Next]_vars => FollowInv'
<1>. SUFFICES ASSUME FollowInv, [Next]_vars
              PROVE  FollowInv'
  OBVIOUS
<1>1. SUFFICES FollowParts'
  BY InvNext DEF FollowInv
<1>2. CASE UNCHANGED vars
  <2>1. UNCHANGED <<run, answer, bus, socket, asked, recovery, started, view, upset>>
    BY <1>2 DEF vars, runVars, callVars
  <2>2. FollowTyped'
    BY <2>1 DEF FollowInv, FollowParts, FollowTyped
  <2>3. StartedOK' /\ AskedOK'
    BY <2>1 DEF FollowInv, FollowParts, StartedOK, AskedOK
  <2>4. FollowOK'
    BY <2>1 DEF FollowInv, FollowParts, FollowOK, Tells, BusTells, RecoveryTells, AskTells,
       Caught, Listing, Settled
  <2>. QED
    BY <2>2, <2>3, <2>4 DEF FollowParts
<1>3. ASSUME NEW x \in Runs,
             Execute(x) \/ Server(x) \/ Hook(x) \/ RecoverFails(x) \/ CancelFails(x)
      PROVE  FollowParts'
  BY <1>3, ExecuteFollows, ServerFollows, SnapshotFollows, MessagesFollow, StartedFollows,
     CallsFollow DEF Hook
<1>4. ASSUME NEW q \in asked, ReadSnapshot(q) \/ OnSubscribed(q) \/ SubscribeTimesOut(q)
      PROVE  FollowParts'
  <2>1. CASE ReadSnapshot(q)
    BY <2>1, ReadFollows
  <2>2. CASE OnSubscribed(q)
    BY <2>2, SubscribedFollows
  <2>3. CASE SubscribeTimesOut(q)
    BY <2>3, TimesOutFollows
  <2>. QED
    BY <1>4, <2>1, <2>2, <2>3
<1>5. CASE \/ Emit \/ EventLost \/ StartRun
           \/ Disconnect \/ Connect \/ Send \/ SendFails \/ Cancel \/ Reset
  BY <1>5, EmitFollows, LostFollows, StartFollows, ConnectionFollows, UserFollows
<1>6. CASE Next
  BY <1>3, <1>4, <1>5, <1>6 DEF Next, Subscribe
<1>. QED
  BY <1>2, <1>6

(* While the chat shows a run that has ended, something under way will tell *)
(* it the end, or it shows the end and the conversation is on its way or    *)
(* there: no event, snapshot or acknowledgement is taken without another    *)
(* step that makes up for it, unless it is one that upset names.            *)
THEOREM FollowInvariance == Spec => []FollowInv
BY FollowInit, FollowNext, PTL DEF Spec

(* When all is quiet the chat shows the end of its run with the answer in   *)
(* the list and no streamed text beside it: for any number of runs, faults  *)
(* and acts of the user, and for queues of events of any length.            *)
THEOREM ViewFollows == Spec => []ViewFollowsRun
<1>1. FollowInv => ViewFollowsRun
  <2>. SUFFICES ASSUME FollowInv, Quiet, ~upset, view.run # Null, run[view.run] \in RunTerminal
                PROVE  /\ view.status = run[view.run]
                       /\ view.draft = {}
                       /\ answer[view.run] = "stored" => view.run \in view.answers
    BY DEF ViewFollowsRun
  <2>1. view.run \in Runs /\ FollowOK
    BY DEF FollowInv, FollowParts, Inv, Shown, ViewTyped
  <2>2. bus = <<>> /\ asked = {} /\ socket.up /\ recovery[view.run].at = "idle"
    BY <2>1 DEF Quiet
  <2>3. DOMAIN bus = {}
    BY <2>2, EmptySeq, LenProperties DEF FollowInv, Inv, Rows, BusTyped
  <2>4. ~Tells(view.run) /\ ~Listing(view.run)
    BY <2>2, <2>3 DEF Tells, BusTells, RecoveryTells, AskTells, Listing
  <2>5. Caught(view.run)
    BY <2>1, <2>4 DEF FollowOK
  <2>. QED
    BY <2>4, <2>5 DEF Caught, Settled
<1>. QED
  BY <1>1, FollowInvariance, PTL
=============================================================================
