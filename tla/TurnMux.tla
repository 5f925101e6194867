-------------------------------- MODULE TurnMux --------------------------------
(***************************************************************************)
(* The delivery of turns over one codex child                              *)
(* (src/internal/codex/appserver/appserver.go): StartTurn registers a turn *)
(* under its thread and asks the child to start it; one reader goroutine   *)
(* takes the child's frames from its stdout and hands each to the pump of  *)
(* the turn its thread names; each pump passes them to the consumer        *)
(* (drainTurn), closes the consumer's channels and delivers the final      *)
(* Turn; a cancellation may come at any time, and the child may die.       *)
(*                                                                         *)
(* Frames are their turn and their number in it; what they say, the        *)
(* server's own requests and the notification hook are left out.           *)
(***************************************************************************)
EXTENDS Naturals, Sequences

CONSTANTS
  Turns,       \* turns asked of the child
  Threads,     \* codex threads
  ThreadOf,    \* the thread each turn runs on
  NoTurn,      \* no entry in the routing map
  EventsCap,   \* buffer of turnState.events (64)
  InboxCap,    \* buffer of turnState.inbox (256)
  PipeCap,     \* bound: frames in the child's stdout pipe
  Frames,      \* bound: notifications of each turn before it completes
  Abandonable, \* bound: turns whose caller may give up on them
  MayDie       \* may the child die?

ASSUME MuxAssumption ==
  /\ ThreadOf \in [Turns -> Threads]
  /\ NoTurn \notin Turns \cup {"died"} /\ "died" \notin Turns
  /\ {EventsCap, InboxCap, PipeCap} \subseteq Nat \ {0}
  /\ Frames \in [Turns -> Nat]
  /\ Abandonable \subseteq Turns
  /\ MayDie \in BOOLEAN

VARIABLES
  route,     \* AppServer.turns
  done,      \* turnState.done
  canceled,  \* turnState.canceled is closed
  inbox,     \* turnState.inbox
  sealed,    \* turnState.inbox is closed
  lost,      \* eventsLost, eventsLostSignaled: "no", "yes", "told"
  final,     \* finalTurn: NoTurn, a turn whose Turn it is, or "died"
  pump,      \* "none", "run", "ending", "closed" (events and result closed)
  hand,      \* what the pump has still to forward before it looks again
  events,    \* turnState.events
  result,    \* turnState.result: what was buffered there, or NoTurn
  reader,    \* the reader: where it is, the frame it read, the turn it found
  caller,    \* StartTurn and then drainTurn of each turn
  cancel,    \* handle.Cancel: "none", "spawned", "won", "unrouted", "over"
  child,     \* the turn in the child
  sent,      \* notifications the child has written for each turn
  pipe,      \* the child's stdout
  alive,     \* the child's stdout is open
  got        \* history: what each consumer has received

turnVars  == <<done, canceled, inbox, sealed, lost, final>>
pumpVars  == <<pump, hand, events, result>>
childVars == <<child, sent, pipe, alive>>
vars == <<route, turnVars, pumpVars, reader, caller, cancel, childVars, got>>

Marker == [turn |-> NoTurn, kind |-> "lost", n |-> 0]
NoFrame == [turn |-> NoTurn, kind |-> "none", n |-> 0]
Idle    == [at |-> "idle", frame |-> NoFrame, turn |-> NoTurn]

Reply(t)     == [turn |-> t, kind |-> "reply", n |-> 0]
Event(t, n)  == [turn |-> t, kind |-> "event", n |-> n]
Completed(t) == [turn |-> t, kind |-> "completed", n |-> 0]

(* Mutant: the entry is never deleted. *)
LeaveRouted(th) == UNCHANGED route
Unroute(th)  == route' = [route EXCEPT ![th] = NoTurn]

-----------------------------------------------------------------------------
Init ==
  /\ route = [th \in Threads |-> NoTurn]
  /\ done = [t \in Turns |-> FALSE]
  /\ canceled = [t \in Turns |-> FALSE]
  /\ inbox = [t \in Turns |-> <<>>]
  /\ sealed = [t \in Turns |-> FALSE]
  /\ lost = [t \in Turns |-> "no"]
  /\ final = [t \in Turns |-> NoTurn]
  /\ pump = [t \in Turns |-> "none"]
  /\ hand = [t \in Turns |-> <<>>]
  /\ events = [t \in Turns |-> <<>>]
  /\ result = [t \in Turns |-> NoTurn]
  /\ reader = Idle
  /\ caller = [t \in Turns |-> "none"]
  /\ cancel = [t \in Turns |-> "none"]
  /\ child = [t \in Turns |-> "none"]
  /\ sent = [t \in Turns |-> 0]
  /\ pipe = <<>>
  /\ alive = TRUE
  /\ got = [t \in Turns |-> <<>>]

(* StartTurn.  Registration is refused while another turn of the thread is *)
(* routed and not done.                                                    *)
StartTurn(t) ==
  /\ caller[t] = "none"
  /\ LET e == route[ThreadOf[t]] IN e # NoTurn => done[e]
  /\ route' = [route EXCEPT ![ThreadOf[t]] = t]
  /\ pump' = [pump EXCEPT ![t] = "run"]
  /\ caller' = [caller EXCEPT ![t] = "starting"]
  /\ child' = IF alive THEN [child EXCEPT ![t] = "asked"] ELSE child
  /\ UNCHANGED <<turnVars, hand, events, result, reader, cancel, sent, pipe, alive, got>>

(* The call of turn/start fails: its context ends, the child answers with  *)
(* an error, or the child has died.                                        *)
StartFails(t) ==
  /\ caller[t] = "starting"
  /\ t \in Abandonable \/ ~alive
  /\ caller' = [caller EXCEPT ![t] = "failing"]
  /\ Unroute(ThreadOf[t])
  /\ UNCHANGED <<turnVars, pumpVars, reader, cancel, childVars, got>>

StartGivesUp(t) ==
  /\ caller[t] = "failing"
  /\ caller' = [caller EXCEPT ![t] = "left"]
  /\ done' = [done EXCEPT ![t] = TRUE]
  /\ canceled' = [canceled EXCEPT ![t] = TRUE]
  /\ UNCHANGED <<route, inbox, sealed, lost, final, pumpVars, reader, cancel, childVars, got>>

-----------------------------------------------------------------------------
(* The child: it answers turn/start, writes notifications, and completes   *)
(* the turn; a frame is in the pipe until the reader takes it.             *)
Write(f) ==
  /\ alive
  /\ Len(pipe) < PipeCap
  /\ pipe' = Append(pipe, f)

ChildAnswers(t) ==
  /\ child[t] = "asked"
  /\ Write(Reply(t))
  /\ child' = [child EXCEPT ![t] = "active"]
  /\ UNCHANGED <<route, turnVars, pumpVars, reader, caller, cancel, sent, alive, got>>

ChildNotifies(t) ==
  /\ child[t] = "active"
  /\ sent[t] < Frames[t]
  /\ Write(Event(t, sent[t] + 1))
  /\ sent' = [sent EXCEPT ![t] = @ + 1]
  /\ UNCHANGED <<route, turnVars, pumpVars, reader, caller, cancel, child, alive, got>>

ChildCompletes(t) ==
  /\ child[t] = "active"
  /\ Write(Completed(t))
  /\ child' = [child EXCEPT ![t] = "over"]
  /\ UNCHANGED <<route, turnVars, pumpVars, reader, caller, cancel, sent, alive, got>>

ChildDies ==
  /\ MayDie
  /\ alive
  /\ alive' = FALSE
  /\ UNCHANGED <<route, turnVars, pumpVars, reader, caller, cancel, child, sent, pipe, got>>

-----------------------------------------------------------------------------
(* The reader.  It takes a frame and looks its thread up under turnsMu; a  *)
(* reply goes to the call that waits for it.                               *)
(* Mutant: the thread id is not looked at. *)
LookUpAny(f) ==
  IF \E th \in Threads : route[th] # NoTurn
  THEN CHOOSE t \in Turns : \E th \in Threads : route[th] = t
  ELSE NoTurn
LookUp(f) == route[ThreadOf[f.turn]]

ReadFrame ==
  /\ reader.at = "idle"
  /\ pipe # <<>>
  /\ pipe' = Tail(pipe)
  /\ LET f == Head(pipe) IN
       IF f.kind = "reply"
       THEN /\ caller' = [caller EXCEPT ![f.turn] = IF @ = "starting" THEN "draining" ELSE @]
            /\ UNCHANGED reader
       ELSE /\ reader' = [at |-> "found", frame |-> f, turn |-> LookUp(f)]
            /\ UNCHANGED caller
  /\ UNCHANGED <<route, turnVars, pumpVars, cancel, child, sent, alive, got>>

(* Then, without the lock: nothing for a turn that is not routed or done;  *)
(* never a wait on a full inbox.                                           *)
(* Mutant: the reader waits for room. *)
OfferWaiting(t, f) ==
  Len(inbox[t]) < InboxCap /\ inbox' = [inbox EXCEPT ![t] = Append(@, f)]
Offer(t, f) == inbox' = IF Len(inbox[t]) < InboxCap
                        THEN [inbox EXCEPT ![t] = Append(@, f)] ELSE inbox

RouteNothing ==
  /\ reader.at = "found"
  /\ reader.turn # NoTurn => done[reader.turn]
  /\ reader' = Idle
  /\ UNCHANGED <<route, turnVars, pumpVars, caller, cancel, childVars, got>>

RouteEvent ==
  LET t == reader.turn IN
  /\ reader.at = "found" /\ reader.frame.kind = "event"
  /\ t # NoTurn /\ ~done[t]
  /\ Offer(t, reader.frame)
  /\ lost' = [lost EXCEPT ![t] = IF Len(inbox[t]) = InboxCap /\ @ = "no" THEN "yes" ELSE @]
  /\ reader' = Idle
  /\ UNCHANGED <<route, done, canceled, sealed, final, pumpVars, caller, cancel, childVars, got>>

(* turn/completed: stash the Turn, offer the frame, mark the turn done,    *)
(* unregister the thread, close the inbox.                                 *)
RouteCompleted ==
  LET t == reader.turn IN
  /\ reader.at = "found" /\ reader.frame.kind = "completed"
  /\ t # NoTurn /\ ~done[t]
  /\ Offer(t, reader.frame)
  /\ final' = [final EXCEPT ![t] = reader.frame.turn]
  /\ reader' = [reader EXCEPT !.at = "stashed"]
  /\ UNCHANGED <<route, done, canceled, sealed, lost, pumpVars, caller, cancel, childVars, got>>

MarkTurnDone ==
  /\ reader.at = "stashed"
  /\ done' = [done EXCEPT ![reader.turn] = TRUE]
  /\ reader' = [reader EXCEPT !.at = "marked"]
  /\ UNCHANGED <<route, canceled, inbox, sealed, lost, final, pumpVars, caller, cancel, childVars, got>>

Unregister ==
  /\ reader.at = "marked"
  /\ Unroute(ThreadOf[reader.turn])
  /\ reader' = [reader EXCEPT !.at = "unrouted"]
  /\ UNCHANGED <<turnVars, pumpVars, caller, cancel, childVars, got>>

(* Mutant: the inbox of a completed turn is left open. *)
LeaveInboxOpen ==
  /\ reader.at = "unrouted"
  /\ reader' = Idle
  /\ UNCHANGED <<route, turnVars, pumpVars, caller, cancel, childVars, got>>

CloseInbox ==
  /\ reader.at = "unrouted"
  /\ sealed' = [sealed EXCEPT ![reader.turn] = TRUE]
  /\ reader' = Idle
  /\ UNCHANGED <<route, done, canceled, inbox, lost, final, pumpVars, caller, cancel, childVars, got>>

(* End of file: failPendingRequests ends every turn that is still routed,  *)
(* under turnsMu, and the calls that wait.                                 *)
ReaderEnds ==
  LET Routed == {t \in Turns : route[ThreadOf[t]] = t} IN
  /\ reader.at = "idle" /\ pipe = <<>> /\ ~alive
  /\ reader' = [Idle EXCEPT !.at = "ended"]
  /\ done' = [t \in Turns |-> done[t] \/ t \in Routed]
  /\ sealed' = [t \in Turns |-> sealed[t] \/ t \in Routed]
  /\ final' = [t \in Turns |-> IF t \in Routed /\ final[t] = NoTurn THEN "died" ELSE final[t]]
  /\ route' = [th \in Threads |-> NoTurn]
  /\ UNCHANGED <<canceled, inbox, lost, pumpVars, caller, cancel, childVars, got>>

-----------------------------------------------------------------------------
(* The pump of a turn. *)
Told(t) == lost' = [lost EXCEPT ![t] = IF @ = "yes" THEN "told" ELSE @]
(* Mutant: the loss is noted and never told. *)
NoLoss(t) == <<>>
Loss(t) == IF lost[t] = "yes" THEN <<Marker>> ELSE <<>>

PumpTakes(t) ==
  /\ pump[t] = "run" /\ hand[t] = <<>>
  /\ inbox[t] # <<>>
  /\ hand' = [hand EXCEPT ![t] = Append(Loss(t), Head(inbox[t]))]
  /\ inbox' = [inbox EXCEPT ![t] = Tail(@)]
  /\ Told(t)
  /\ UNCHANGED <<route, done, canceled, sealed, final, pump, events, result, reader,
                 caller, cancel, childVars, got>>

PumpForwards(t) ==
  /\ hand[t] # <<>>
  /\ \/ /\ Len(events[t]) < EventsCap
        /\ events' = [events EXCEPT ![t] = Append(@, Head(hand[t]))]
     \/ canceled[t] /\ UNCHANGED events
  /\ hand' = [hand EXCEPT ![t] = Tail(@)]
  /\ UNCHANGED <<route, turnVars, pump, result, reader, caller, cancel, childVars, got>>

(* The inbox is closed and empty: a last loss marker, the final Turn.      *)
PumpEnds(t) ==
  /\ pump[t] = "run" /\ hand[t] = <<>>
  /\ sealed[t] /\ inbox[t] = <<>>
  /\ pump' = [pump EXCEPT ![t] = "ending"]
  /\ hand' = [hand EXCEPT ![t] = Loss(t)]
  /\ Told(t)
  /\ UNCHANGED <<route, done, canceled, inbox, sealed, final, events, result, reader,
                 caller, cancel, childVars, got>>

PumpCloses(t) ==
  /\ pump[t] = "ending" /\ hand[t] = <<>>
  /\ result' = [result EXCEPT ![t] = final[t]]
  /\ pump' = [pump EXCEPT ![t] = "closed"]
  /\ UNCHANGED <<route, turnVars, hand, events, reader, caller, cancel, childVars, got>>

PumpCanceled(t) ==
  /\ pump[t] = "run" /\ hand[t] = <<>>
  /\ canceled[t]
  /\ pump' = [pump EXCEPT ![t] = "closed"]
  /\ UNCHANGED <<route, turnVars, hand, events, result, reader, caller, cancel, childVars, got>>

-----------------------------------------------------------------------------
(* The consumer: drainTurn receives until the channel is closed, or leaves *)
(* (context or deadline) and has the turn cancelled.  task.cancel may      *)
(* cancel it as well.                                                      *)
Receive(t) ==
  /\ caller[t] = "draining"
  /\ events[t] # <<>>
  /\ events' = [events EXCEPT ![t] = Tail(@)]
  /\ got' = [got EXCEPT ![t] = Append(@, Head(events[t]))]
  /\ UNCHANGED <<route, turnVars, pump, hand, result, reader, caller, cancel, childVars>>

DrainEnds(t) ==
  /\ caller[t] = "draining"
  /\ events[t] = <<>> /\ pump[t] = "closed"
  /\ caller' = [caller EXCEPT ![t] = "ended"]
  /\ UNCHANGED <<route, turnVars, pumpVars, reader, cancel, childVars, got>>

Leave(t) ==
  /\ caller[t] = "draining"
  /\ t \in Abandonable
  /\ caller' = [caller EXCEPT ![t] = "left"]
  /\ cancel' = [cancel EXCEPT ![t] = IF @ = "none" THEN "spawned" ELSE @]
  /\ UNCHANGED <<route, turnVars, pumpVars, reader, childVars, got>>

CancelFromOutside(t) ==
  /\ caller[t] = "draining"
  /\ t \in Abandonable
  /\ cancel[t] = "none"
  /\ cancel' = [cancel EXCEPT ![t] = "spawned"]
  /\ UNCHANGED <<route, turnVars, pumpVars, reader, caller, childVars, got>>

(* handle.Cancel: only if it is the first to end the turn does it          *)
(* unregister the thread, wake the pump and send turn/interrupt.           *)
CancelClaims(t) ==
  /\ cancel[t] = "spawned"
  /\ cancel' = [cancel EXCEPT ![t] = IF done[t] THEN "over" ELSE "won"]
  /\ done' = [done EXCEPT ![t] = TRUE]
  /\ UNCHANGED <<route, canceled, inbox, sealed, lost, final, pumpVars, reader, caller,
                 childVars, got>>

CancelUnroutes(t) ==
  /\ cancel[t] = "won"
  /\ Unroute(ThreadOf[t])
  /\ cancel' = [cancel EXCEPT ![t] = "unrouted"]
  /\ UNCHANGED <<turnVars, pumpVars, reader, caller, childVars, got>>

CancelSignals(t) ==
  /\ cancel[t] = "unrouted"
  /\ canceled' = [canceled EXCEPT ![t] = TRUE]
  /\ cancel' = [cancel EXCEPT ![t] = "over"]
  /\ UNCHANGED <<route, done, inbox, sealed, lost, final, pumpVars, reader, caller,
                 childVars, got>>

-----------------------------------------------------------------------------
Reader == \/ ReadFrame \/ RouteNothing \/ RouteEvent \/ RouteCompleted
          \/ MarkTurnDone \/ Unregister \/ CloseInbox \/ ReaderEnds

Pump(t) == PumpTakes(t) \/ PumpForwards(t) \/ PumpEnds(t) \/ PumpCloses(t) \/ PumpCanceled(t)

Canceller(t) == CancelClaims(t) \/ CancelUnroutes(t) \/ CancelSignals(t)

Consumer(t) == Receive(t) \/ DrainEnds(t)

Next ==
  \/ Reader \/ ChildDies
  \/ \E t \in Turns :
       \/ StartTurn(t) \/ StartFails(t) \/ StartGivesUp(t)
       \/ ChildAnswers(t) \/ ChildNotifies(t) \/ ChildCompletes(t)
       \/ Pump(t) \/ Canceller(t) \/ Consumer(t)
       \/ Leave(t) \/ CancelFromOutside(t)

Spec == Init /\ [][Next]_vars

(* The goroutines of this package are scheduled.  Nothing is assumed of    *)
(* the child nor of the consumers.                                         *)
FairSpec ==
  /\ Spec
  /\ WF_vars(Reader)
  /\ \A t \in Turns : WF_vars(StartGivesUp(t)) /\ WF_vars(Pump(t)) /\ WF_vars(Canceller(t))

-----------------------------------------------------------------------------
(* The type invariant. *)
TypeOK ==
  /\ route \in [Threads -> Turns \cup {NoTurn}]
  /\ done \in [Turns -> BOOLEAN]
  /\ canceled \in [Turns -> BOOLEAN]
  /\ sealed \in [Turns -> BOOLEAN]
  /\ lost \in [Turns -> {"no", "yes", "told"}]
  /\ final \in [Turns -> Turns \cup {NoTurn, "died"}]
  /\ pump \in [Turns -> {"none", "run", "ending", "closed"}]
  /\ result \in [Turns -> Turns \cup {NoTurn, "died"}]
  /\ reader.at \in {"idle", "found", "stashed", "marked", "unrouted", "ended"}
  /\ caller \in [Turns -> {"none", "starting", "failing", "draining", "left", "ended"}]
  /\ cancel \in [Turns -> {"none", "spawned", "won", "unrouted", "over"}]
  /\ \A t \in Turns : Len(inbox[t]) <= InboxCap /\ Len(events[t]) <= EventsCap
  /\ Len(pipe) <= PipeCap

(* What a consumer is given is its own turn's: its notifications in order  *)
(* and each at most once, then its own Turn or the news of the child's     *)
(* death.                                                                  *)
OwnResult == \A t \in Turns : result[t] \in {NoTurn, "died", t}

InOrder(t) ==
  \A i, j \in 1 .. Len(got[t]) :
    /\ got[t][i].turn \in {t, NoTurn}
    /\ i < j /\ got[t][i].kind = "event" /\ got[t][j].kind = "event"
         => got[t][i].n < got[t][j].n

OwnFramesInOrder == \A t \in Turns : InOrder(t)

(* What a consumer is given is its own turn's, in order, and its own end   *)
(* (appserver.go:356-407).                                                 *)
OwnDelivery == TypeOK /\ OwnResult /\ OwnFramesInOrder

(* When the drain of a turn nobody cancelled ends, a Turn was delivered,   *)
(* and every notification the child wrote was received or its loss was     *)
(* marked (appserver.go:356-368 and 387-397).                              *)
Marked(t) == \E i \in 1 .. Len(got[t]) : got[t][i] = Marker

CompleteOrMarked ==
  \A t \in Turns :
    (caller[t] = "ended" /\ cancel[t] = "none") =>
       /\ result[t] # NoTurn
       /\ result[t] = t => \/ Marked(t)
                           \/ \A n \in 1 .. sent[t] :
                                \E i \in 1 .. Len(got[t]) : got[t][i] = Event(t, n)

(* The routing map holds no turn that has ended for good: ActiveTurns,     *)
(* which keeps the broker from reaping the child, does not leak            *)
(* (appserver.go:968-978).                                                 *)
RouteHoldsLive ==
  \A t \in Turns :
    caller[t] \in {"left", "ended"} /\ cancel[t] \in {"none", "over"}
      => route[ThreadOf[t]] # t \/ reader.at \in {"marked", "stashed"}

(* No stalled consumer holds up another turn: with no consumer assumed to  *)
(* receive anything, a completed turn's completion reaches its pump        *)
(* (appserver.go:285-291).                                                 *)
CompletionReachesPump ==
  \A t \in Turns :
    (child[t] = "over" /\ caller[t] = "draining") ~> (sealed[t] \/ canceled[t])

(* A consumer that keeps receiving reaches the end of a turn that is over  *)
(* or whose child died, whatever it and the other turn lost on the way.    *)
DrainTerminates ==
  (\A t \in Turns : WF_vars(Consumer(t))) =>
    \A t \in Turns :
      (caller[t] = "draining" /\ (child[t] = "over" \/ ~alive))
         ~> (caller[t] # "draining")

=============================================================================
