------------------------------ MODULE EventRing ------------------------------
(***************************************************************************)
(* The events of one task: the ring buffer of its record, the replay it    *)
(* serves and the notifications the run sends on the wire                  *)
(* (src/internal/broker/tasks.go: appendEventOwned, Events;                *)
(* handlers_dispatch.go: emit, relay).  The record may be evicted once the *)
(* task is terminal, while the run still has events to send.               *)
(***************************************************************************)
EXTENDS Integers, Sequences

CONSTANTS
  RingSize,   \* CODEX_BROKER_RING_SIZE
  MaxEvents   \* bound: events a run emits

ASSUME RingAssumption == RingSize \in Nat \ {0} /\ MaxEvents \in Nat

(* Notifications of the codex turn go through relay, the broker's own      *)
(* task.* events through emit; both append and then send.                  *)
Kinds == {"codex", "task"}

VARIABLES
  ring,      \* taskRecord.events, indexed from 0
  head,      \* next write index
  total,     \* totalEv
  held,      \* is the record in the table?
  terminal,  \* has the task reached a terminal state?
  step,      \* the event being handed over: "idle", "append", "notify", "over"
  event,     \* that event: its kind and the seq append gave it
  wire,      \* the seqs of the task.event notifications sent
  emitted    \* history: kinds of the events appended, in order

vars == <<ring, head, total, held, terminal, step, event, wire, emitted>>

Entry == [seq : Nat, kind : Kinds \cup {"none"}]
Blank == [seq |-> 0, kind |-> "none"]

Init ==
  /\ ring = [i \in 0 .. RingSize - 1 |-> Blank]
  /\ head = 0
  /\ total = 0
  /\ held = TRUE
  /\ terminal = FALSE
  /\ step = "idle"
  /\ event = Blank
  /\ wire = <<>>
  /\ emitted = <<>>

(* An event to hand over, up to the bound MaxEvents. *)
Produce(k) ==
  /\ step = "idle"
  /\ Len(wire) < MaxEvents
  /\ step' = "append"
  /\ event' = [seq |-> 0, kind |-> k]
  /\ UNCHANGED <<ring, head, total, held, terminal, wire, emitted>>

NextHead == (head + 1) % RingSize

Place(e) == ring' = [ring EXCEPT ![head] = e]

(* appendEventOwned; an evicted task gives seq 0, and both callers drop    *)
(* the error.                                                              *)
AppendEvent ==
  /\ step = "append"
  /\ step' = "notify"
  /\ IF held
     THEN /\ total' = total + 1
          /\ event' = [event EXCEPT !.seq = total + 1]
          /\ Place([seq |-> total + 1, kind |-> event.kind])
          /\ head' = NextHead
          /\ emitted' = Append(emitted, event.kind)
     ELSE UNCHANGED <<total, event, ring, head, emitted>>
  /\ UNCHANGED <<held, terminal, wire>>

Notify ==
  /\ step = "notify"
  /\ step' = "idle"
  /\ wire' = Append(wire, event.seq)
  /\ UNCHANGED <<ring, head, total, held, terminal, event, emitted>>

(* The task ends: the run records it between two events, or task.cancel at *)
(* any moment.                                                             *)
Finish ==
  /\ ~terminal
  /\ terminal' = TRUE
  /\ UNCHANGED <<ring, head, total, held, step, event, wire, emitted>>

(* evictTerminalLocked, in the same critical section as the transition or  *)
(* in any later one.                                                       *)
Evict ==
  /\ terminal /\ held
  /\ held' = FALSE
  /\ UNCHANGED <<ring, head, total, terminal, step, event, wire, emitted>>

(* The run returns. *)
Return ==
  /\ step = "idle" /\ terminal
  /\ step' = "over"
  /\ UNCHANGED <<ring, head, total, held, terminal, event, wire, emitted>>

Next == (\E k \in Kinds : Produce(k)) \/ AppendEvent \/ Notify \/ Finish \/ Evict \/ Return

Spec == Init /\ [][Next]_vars

-----------------------------------------------------------------------------
(* Events(id, since): ErrEventsLost below the oldest event still buffered, *)
(* nothing beyond the newest, otherwise a walk back from head.             *)
(* Mutant: one event too many is taken to be in the ring. *)
OldestTooOld == IF total - RingSize < 1 THEN 1 ELSE total - RingSize
Oldest == IF total - RingSize + 1 < 1 THEN 1 ELSE total - RingSize + 1

Walk(count) ==
  [j \in 1 .. count |-> ring[(head - 1 - (count - j) + RingSize) % RingSize]]

Events(since) ==
  IF since < Oldest THEN [result |-> "lost", events |-> <<>>]
  ELSE IF since > total THEN [result |-> "ok", events |-> <<>>]
  ELSE [result |-> "ok", events |-> Walk(total - since + 1)]

-----------------------------------------------------------------------------
(* The type invariant.                                                     *)
TypeOK ==
  /\ ring \in [0 .. RingSize - 1 -> Entry]
  /\ head \in 0 .. RingSize - 1
  /\ total \in Nat
  /\ held \in BOOLEAN
  /\ terminal \in BOOLEAN
  /\ step \in {"idle", "append", "notify", "over"}
  /\ event \in Entry
  /\ wire \in Seq(Nat)
  /\ emitted \in Seq(Kinds)

(* The slot of each of the newest RingSize events holds that event: what   *)
(* the ring must keep for the walk of Events to be right.                  *)
RingHoldsNewest ==
  /\ total = Len(emitted)
  /\ head = total % RingSize
  /\ \A s \in Oldest .. total : ring[(s - 1) % RingSize] = [seq |-> s, kind |-> emitted[s]]

(* A replay from any since is ErrEventsLost exactly when that event was    *)
(* overwritten, and otherwise every event from since to the newest, each   *)
(* once and in order (tasks.go:591-651).                                   *)
ReplayExact ==
  \A since \in 1 .. total + 2 :
    Events(since) =
      IF since <= total - RingSize THEN [result |-> "lost", events |-> <<>>]
      ELSE [result |-> "ok",
            events |-> [j \in 1 .. (IF since > total THEN 0 ELSE total - since + 1) |->
                          [seq |-> since + j - 1, kind |-> emitted[since + j - 1]]]]

(* While the record is in the table a client sees every seq once, in       *)
(* order; after an eviction it sees 0 and never a stale or reused seq.     *)
WireInOrder ==
  \A i \in 1 .. Len(wire) : wire[i] = i \/ (wire[i] = 0 /\ ~held)

=============================================================================
