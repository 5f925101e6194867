-------------------------- MODULE EventStreamProofs --------------------------
(***************************************************************************)
(* Theorems about the ring of a task and the call that streams it, for any *)
(* ring size, event sizes and limits.                                      *)
(*                                                                         *)
(* The ring is right because the newest RingSize events lie in different   *)
(* slots.  The call implements the ring: whatever the handler, the         *)
(* connection and the client do, the record of the task moves by the       *)
(* ring's own steps or not at all.  The stream is faithful because a frame *)
(* is a piece of one event, pieces are made and gathered in order, and     *)
(* what is on its way goes on where the client's assembly ends.  The loop  *)
(* that makes the pieces keeps to multiples of its size, and settles at    *)
(* the first of the halved sizes at which no chunk is too large.           *)
(***************************************************************************)
EXTENDS EventStream, SequenceTheorems, WellFoundedInduction, TLAPS

(* What Produce, AppendEvent and Notify hand over: an event has no seq     *)
(* before its append, and after it the seq that the wire shows next, or 0  *)
(* when the record was evicted in between.                                 *)
HandedOver ==
  /\ step = "append" => event.seq = 0 /\ event.kind \in Kinds
  /\ step = "notify" => event.seq = Len(wire) + 1 \/ (event.seq = 0 /\ ~held)
  /\ held => total = IF step = "notify" THEN Len(wire) + 1 ELSE Len(wire)

(* What is true of the ring after every step. *)
Inv == TypeOK /\ RingHoldsNewest /\ HandedOver /\ WireInOrder

-----------------------------------------------------------------------------
(* Division with remainder. *)
LEMMA DivMod ==
  ASSUME NEW n \in Int, NEW R \in Nat \ {0}
  PROVE  /\ n \div R \in Int /\ n % R \in 0 .. R - 1
         /\ n = R * (n \div R) + (n % R)
  BY SMT

(* The only multiple of R strictly between -R and R is 0. *)
LEMMA NoMultiple ==
  ASSUME NEW R \in Nat \ {0}, NEW d \in Int, R * d > -R, R * d < R
  PROVE d = 0
  <1>1. CASE d >= 1
    <2>1. R * d >= R BY <1>1, SMT
    <2> QED BY <2>1
  <1>2. CASE d <= -1
    <2>1. R * d <= -R BY <1>2, SMT
    <2> QED BY <2>1
  <1> QED BY <1>1, <1>2

(* Quotient and remainder are unique. *)
LEMMA Unique ==
  ASSUME NEW R \in Nat \ {0}, NEW x \in Int, NEW q \in Int, NEW r \in 0 .. R - 1, x = R * q + r
  PROVE x % R = r
  <1>1. x \div R \in Int /\ x % R \in 0 .. R - 1 /\ x = R * (x \div R) + (x % R)
    BY DivMod
  <1> DEFINE d == (x \div R) - q
  <1>2. d \in Int
    BY <1>1
  <1>3. R * d = r - (x % R)
    BY <1>1, SMT
  <1>4. R * d > -R /\ R * d < R
    BY <1>1, <1>3
  <1> HIDE DEF d
  <1>5. d = 0
    BY <1>2, <1>4, NoMultiple
  <1> QED
    BY <1>1, <1>3, <1>5

(* A remainder may be taken before a shift as well as after it. *)
LEMMA Shift ==
  ASSUME NEW R \in Nat \ {0}, NEW n \in Int, NEW k \in Int
  PROVE ((n % R) + k) % R = (n + k) % R
  <1>1. n \div R \in Int /\ n % R \in 0 .. R - 1 /\ n = R * (n \div R) + (n % R)
    BY DivMod
  <1> DEFINE y == (n % R) + k
  <1>2. y \in Int /\ y \div R \in Int /\ y % R \in 0 .. R - 1 /\ y = R * (y \div R) + (y % R)
    BY <1>1, DivMod
  <1> DEFINE q == (n \div R) + (y \div R)
             x == n + k
  <1>3. x \in Int /\ q \in Int /\ x = R * q + (y % R)
    BY <1>1, <1>2, SMT
  <1> HIDE DEF y, q, x
  <1>4. x % R = y % R
    BY <1>2, <1>3, Unique
  <1> QED
    BY <1>4 DEF x, y

(* A whole turn of the ring changes no remainder. *)
LEMMA WholeTurn ==
  ASSUME NEW R \in Nat \ {0}, NEW n \in Int
  PROVE (n + R) % R = n % R
  <1>1. n \div R \in Int /\ n % R \in 0 .. R - 1 /\ n = R * (n \div R) + (n % R)
    BY DivMod
  <1> DEFINE q == (n \div R) + 1
             x == n + R
  <1>2. x \in Int /\ q \in Int /\ x = R * q + (n % R)
    BY <1>1, SMT
  <1> HIDE DEF q, x
  <1>3. x % R = n % R
    BY <1>1, <1>2, Unique
  <1> QED
    BY <1>3 DEF x

(* Two numbers less than R apart have different remainders: the newest R   *)
(* events are in different slots (tasks.go:577-584).                       *)
LEMMA Distinct ==
  ASSUME NEW R \in Nat \ {0}, NEW m \in Int, NEW n \in Int, m < n, n < m + R
  PROVE m % R # n % R
  <1> SUFFICES ASSUME m % R = n % R PROVE FALSE
    OBVIOUS
  <1>1. m \div R \in Int /\ m = R * (m \div R) + (m % R)
    BY DivMod
  <1>2. n \div R \in Int /\ n % R \in Int /\ n = R * (n \div R) + (n % R)
    BY DivMod
  <1> DEFINE d == (n \div R) - (m \div R)
  <1>3. d \in Int
    BY <1>1, <1>2
  <1>4. R * d = n - m
    BY <1>1, <1>2, SMT
  <1> HIDE DEF d
  <1>5. d = 0
    BY <1>3, <1>4, NoMultiple
  <1> QED
    BY <1>4, <1>5

-----------------------------------------------------------------------------
(* The ring starts so. *)
LEMMA Initially == Init => Inv
  <1> SUFFICES ASSUME Init PROVE Inv
    OBVIOUS
  <1> USE RingAssumption
  <1>1. TypeOK
    <2>1. Blank \in Entry
      BY DEF Entry, Blank
    <2>2. ring \in [0 .. RingSize - 1 -> Entry]
      BY <2>1 DEF Init
    <2>3. head \in 0 .. RingSize - 1
      BY DEF Init
    <2>4. wire \in Seq(Nat) /\ emitted \in Seq(Kinds)
      BY DEF Init
    <2> QED
      BY <2>1, <2>2, <2>3, <2>4 DEF Init, TypeOK
  <1>2. RingHoldsNewest
    <2>1. total = Len(emitted) /\ Oldest = 1 /\ total = 0 /\ head = 0
      BY DEF Init, Oldest
    <2>2. 0 % RingSize = 0
      BY Unique, RingSize * 0 + 0 = 0
    <2> QED
      BY <2>1, <2>2 DEF RingHoldsNewest
  <1>3. HandedOver /\ WireInOrder
    BY DEF Init, HandedOver, WireInOrder
  <1> QED
    BY <1>1, <1>2, <1>3 DEF Inv

(* Steps that leave the ring alone keep what it holds. *)
LEMMA RingKept ==
  ASSUME RingHoldsNewest, UNCHANGED <<ring, head, total, emitted>>
  PROVE  RingHoldsNewest'
  BY DEF RingHoldsNewest, Oldest

(* appendEventOwned overwrites the slot of the one event that leaves the   *)
(* newest RingSize.                                                        *)
LEMMA Appended ==
  ASSUME Inv, AppendEvent, held
  PROVE  TypeOK' /\ RingHoldsNewest'
  <1> USE RingAssumption
  <1>1. /\ total' = total + 1 /\ total \in Nat
        /\ emitted' = Append(emitted, event.kind) /\ emitted \in Seq(Kinds)
        /\ event.kind \in Kinds /\ event \in Entry
        /\ event' = [event EXCEPT !.seq = total + 1]
        /\ ring' = [ring EXCEPT ![head] = [seq |-> total + 1, kind |-> event.kind]]
        /\ head' = (head + 1) % RingSize
        /\ step' = "notify" /\ UNCHANGED <<held, terminal, wire>>
    BY DEF AppendEvent, Inv, TypeOK, HandedOver, Place, NextHead
  <1>2. ring \in [0 .. RingSize - 1 -> Entry] /\ head \in 0 .. RingSize - 1
    BY DEF Inv, TypeOK
  <1>3. total = Len(emitted) /\ head = total % RingSize
    BY DEF Inv, RingHoldsNewest
  <1>4. head' = (total + 1) % RingSize /\ head' \in 0 .. RingSize - 1
    <2>1. total \in Int /\ total + 1 \in Int
      BY <1>1
    <2> DEFINE one == 1
    <2>2. one \in Int
      OBVIOUS
    <2> HIDE DEF one
    <2>3. ((total % RingSize) + one) % RingSize = (total + one) % RingSize
      BY <2>1, <2>2, Shift
    <2>4. (total + 1) % RingSize \in 0 .. RingSize - 1
      BY <2>1, DivMod
    <2> QED
      BY <1>1, <1>3, <2>3, <2>4 DEF one
  <1>6. TypeOK'
    <2>1. [seq |-> total + 1, kind |-> event.kind] \in Entry
      BY <1>1 DEF Entry
    <2>2. ring' \in [0 .. RingSize - 1 -> Entry]
      BY <1>1, <1>2, <2>1
    <2>3. event' \in Entry
      BY <1>1 DEF Entry
    <2>4. emitted' \in Seq(Kinds)
      BY <1>1
    <2> QED
      BY <1>1, <1>4, <2>2, <2>3, <2>4 DEF Inv, TypeOK
  <1>7. Len(emitted') = total + 1 /\ emitted'[total + 1] = event.kind
    BY <1>1, <1>3
  <1>8. ASSUME NEW s \in Oldest' .. total'
        PROVE  ring'[(s - 1) % RingSize] = [seq |-> s, kind |-> emitted'[s]]
    <2>1. s \in Nat /\ 1 <= s /\ s <= total + 1 /\ s >= total + 2 - RingSize
      BY <1>1 DEF Oldest
    <2>2. (s - 1) % RingSize \in 0 .. RingSize - 1
      BY <2>1, DivMod
    <2>3. CASE s = total + 1
      <3>1. (s - 1) % RingSize = head
        BY <1>1, <1>3, <2>3
      <3> QED
        BY <1>1, <1>2, <1>7, <2>3, <3>1
    <2>4. CASE s <= total
      <3>1. s \in Oldest .. total
        BY <1>1, <2>1, <2>4 DEF Oldest
      <3>2. ring[(s - 1) % RingSize] = [seq |-> s, kind |-> emitted[s]]
        BY <3>1 DEF Inv, RingHoldsNewest
      <3>3. emitted'[s] = emitted[s]
        BY <1>1, <1>3, <2>1, <2>4
      <3>4. s - 1 \in Int /\ s - 1 < total /\ total < (s - 1) + RingSize
        BY <1>1, <2>1, <2>4
      <3>5. (s - 1) % RingSize # total % RingSize
        BY <1>1, <3>4, Distinct
      <3>6. ring'[(s - 1) % RingSize] = ring[(s - 1) % RingSize]
        BY <1>1, <1>2, <1>3, <2>2, <3>5
      <3> QED
        BY <3>2, <3>3, <3>6
    <2>5. s = total + 1 \/ s <= total
      BY <1>1, <2>1
    <2> QED
      BY <2>3, <2>4, <2>5
  <1> QED
    BY <1>1, <1>4, <1>6, <1>7, <1>8 DEF RingHoldsNewest

(* Every step of the ring keeps it. *)
LEMMA Inductive == Inv /\ [Next]_vars => Inv'
  <1> SUFFICES ASSUME Inv, [Next]_vars PROVE Inv'
    OBVIOUS
  <1> USE RingAssumption
  <1>1. ASSUME NEW k \in Kinds, Produce(k) PROVE Inv'
    <2>1. TypeOK'
      BY <1>1 DEF Inv, TypeOK, Produce, Entry
    <2>2. RingHoldsNewest'
      BY <1>1, RingKept DEF Inv, Produce
    <2>3. HandedOver' /\ WireInOrder'
      BY <1>1 DEF Inv, TypeOK, HandedOver, WireInOrder, Produce, Kinds
    <2> QED
      BY <2>1, <2>2, <2>3 DEF Inv
  <1>2. CASE AppendEvent
    <2>1. CASE held
      <3>1. TypeOK' /\ RingHoldsNewest'
        BY <1>2, <2>1, Appended
      <3>2. HandedOver'
        BY <1>2, <2>1 DEF Inv, TypeOK, HandedOver, AppendEvent, Entry
      <3>3. WireInOrder'
        BY <1>2 DEF Inv, WireInOrder, AppendEvent
      <3> QED
        BY <3>1, <3>2, <3>3 DEF Inv
    <2>2. CASE ~held
      <3>1. TypeOK' /\ HandedOver' /\ WireInOrder'
        BY <1>2, <2>2 DEF Inv, TypeOK, HandedOver, WireInOrder, AppendEvent
      <3>2. RingHoldsNewest'
        BY <1>2, <2>2, RingKept DEF Inv, AppendEvent
      <3> QED
        BY <3>1, <3>2 DEF Inv
    <2> QED
      BY <2>1, <2>2
  <1>3. CASE Notify
    <2>1. /\ wire' = Append(wire, event.seq) /\ wire \in Seq(Nat) /\ event.seq \in Nat
          /\ step = "notify" /\ step' = "idle"
          /\ UNCHANGED <<ring, head, total, held, terminal, event, emitted>>
      BY <1>3 DEF Notify, Inv, TypeOK, Entry
    <2>2. TypeOK'
      BY <2>1 DEF Inv, TypeOK
    <2>3. RingHoldsNewest'
      BY <2>1, RingKept DEF Inv
    <2>4. Len(wire') = Len(wire) + 1 /\ wire'[Len(wire) + 1] = event.seq
      BY <2>1
    <2>5. \A i \in 1 .. Len(wire) : wire'[i] = wire[i]
      BY <2>1
    <2>6. HandedOver'
      BY <2>1, <2>4 DEF Inv, HandedOver
    <2>7. event.seq = Len(wire) + 1 \/ (event.seq = 0 /\ ~held)
      BY <2>1 DEF Inv, HandedOver
    <2>8. WireInOrder'
      <3> SUFFICES ASSUME NEW i \in 1 .. Len(wire')
                   PROVE  wire'[i] = i \/ (wire'[i] = 0 /\ ~held')
        BY DEF WireInOrder
      <3>1. CASE i = Len(wire) + 1
        BY <2>1, <2>4, <2>7, <3>1
      <3>2. CASE i \in 1 .. Len(wire)
        BY <2>1, <2>5, <3>2 DEF Inv, WireInOrder
      <3> QED
        BY <2>1, <2>4, <3>1, <3>2
    <2> QED
      BY <2>2, <2>3, <2>6, <2>8 DEF Inv
  <1>4. CASE Finish
    BY <1>4, RingKept DEF Inv, TypeOK, HandedOver, WireInOrder, Finish
  <1>5. CASE Evict
    BY <1>5, RingKept DEF Inv, TypeOK, HandedOver, WireInOrder, Evict
  <1>6. CASE Return
    BY <1>6, RingKept DEF Inv, TypeOK, HandedOver, WireInOrder, Return
  <1>7. CASE UNCHANGED vars
    BY <1>7, RingKept DEF Inv, TypeOK, HandedOver, WireInOrder, vars
  <1> QED
    BY <1>1, <1>2, <1>3, <1>4, <1>5, <1>6, <1>7 DEF Next

(* Every reachable state of the ring and of what is handed over is well    *)
(* typed, the ring holds the newest events and the wire is in order.       *)
THEOREM RingInvariant == Spec => []Inv
  BY Initially, Inductive, PTL DEF Spec

-----------------------------------------------------------------------------
(* The walk of Events from head finds the event of each seq: the slot it   *)
(* reads is the slot the event was written to (tasks.go:625-651).          *)
LEMMA WalkFinds ==
  ASSUME Inv, NEW since \in Oldest .. total, NEW j \in 1 .. total - since + 1
  PROVE  Walk(total - since + 1)[j] = [seq |-> since + j - 1, kind |-> emitted[since + j - 1]]
  <1> USE RingAssumption
  <1>1. /\ total \in Nat /\ head = total % RingSize
        /\ since \in Nat /\ 1 <= since /\ since >= total - RingSize + 1 /\ since <= total
    BY DEF Inv, TypeOK, RingHoldsNewest, Oldest
  <1> DEFINE s == since + j - 1
             k == RingSize - (total - s) - 1
  <1>2. s \in Oldest .. total /\ k \in Int
    BY <1>1 DEF Oldest
  <1>3. Walk(total - since + 1)[j] = ring[(head - 1 - (total - s) + RingSize) % RingSize]
    BY <1>1 DEF Walk
  <1>4. head \in Int /\ head - 1 - (total - s) + RingSize = head + k
    BY <1>1, <1>2 DEF Inv, TypeOK
  <1>5. (head + k) % RingSize = (total + k) % RingSize
    <2>1. total \in Int /\ k \in Int
      BY <1>1, <1>2
    <2> HIDE DEF k
    <2>2. ((total % RingSize) + k) % RingSize = (total + k) % RingSize
      BY <2>1, Shift
    <2> QED
      BY <1>1, <2>2
  <1>6. s - 1 \in Int /\ total + k = (s - 1) + RingSize
    BY <1>1, <1>2
  <1>7. (total + k) % RingSize = (s - 1) % RingSize
    BY <1>6, WholeTurn
  <1>8. ring[(s - 1) % RingSize] = [seq |-> s, kind |-> emitted[s]]
    BY <1>2 DEF Inv, RingHoldsNewest
  <1> QED
    BY <1>3, <1>4, <1>5, <1>7, <1>8

(* What the ring holds is what snapshot replays. *)
LEMMA ReplayFromRing == Inv => ReplayExact
  <1> SUFFICES ASSUME Inv, NEW since \in 1 .. total + 2
               PROVE  Events(since) =
                        IF since <= total - RingSize THEN [result |-> "lost", events |-> <<>>]
                        ELSE [result |-> "ok",
                              events |-> [j \in 1 .. (IF since > total THEN 0 ELSE total - since + 1) |->
                                            [seq |-> since + j - 1, kind |-> emitted[since + j - 1]]]]
    BY DEF ReplayExact
  <1> USE RingAssumption
  <1>1. total \in Nat
    BY DEF Inv, TypeOK
  <1>2. CASE since <= total - RingSize
    BY <1>1, <1>2 DEF Events, Oldest
  <1>3. CASE since > total
    <2>1. ~(since < Oldest) /\ ~(since <= total - RingSize)
      BY <1>1, <1>3 DEF Oldest
    <2>2. 1 .. 0 = {}
      OBVIOUS
    <2>3. [j \in 1 .. 0 |-> [seq |-> since + j - 1, kind |-> emitted[since + j - 1]]] = <<>>
      BY <2>2
    <2> QED
      BY <1>3, <2>1, <2>3 DEF Events
  <1>4. CASE since > total - RingSize /\ since <= total
    <2>1. since \in Oldest .. total /\ ~(since < Oldest) /\ ~(since > total)
          /\ ~(since <= total - RingSize)
      BY <1>1, <1>4 DEF Oldest
    <2>2. \A j \in 1 .. total - since + 1 :
            Walk(total - since + 1)[j] = [seq |-> since + j - 1, kind |-> emitted[since + j - 1]]
      BY <2>1, WalkFinds
    <2>3. Walk(total - since + 1) =
            [j \in 1 .. total - since + 1 |-> [seq |-> since + j - 1, kind |-> emitted[since + j - 1]]]
      BY <2>2 DEF Walk
    <2> QED
      BY <2>1, <2>3 DEF Events
  <1> QED
    BY <1>1, <1>2, <1>3, <1>4

(* A replay is exact, for any ring size: from any seq it is the events     *)
(* from that one on, or ErrEventsLost just when the ring no longer has     *)
(* them (tasks.go:591-651).                                                *)
THEOREM ReplayIsExact == Spec => []ReplayExact
  BY RingInvariant, ReplayFromRing, PTL

-----------------------------------------------------------------------------
(* The natural numbers are well founded. *)
LEMMA NatMin ==
  ASSUME NEW T \in SUBSET Nat, T # {}
  PROVE  \E x \in T : \A y \in T : x <= y
  <1>1. PICK x \in T : \A y \in T : ~(<<y, x>> \in OpToRel(<, Nat))
    BY NatLessThanWellFounded, WFMin
  <1>2. \A y \in T : ~(y < x)
    BY <1>1 DEF OpToRel
  <1>3. QED
    BY <1>2

-----------------------------------------------------------------------------
(* A product grows with its first factor. *)
LEMMA Product ==
  ASSUME NEW a \in Int, NEW b \in Int, NEW c \in Nat, a <= b
  PROVE  a * c <= b * c /\ a * c \in Int /\ b * c \in Int
  <1>1. (b - a) * c >= 0
    BY SMT
  <1>2. QED
    BY <1>1, SMT

(* A ceiling is the least number of pieces of c bytes that hold z bytes. *)
LEMMA CeilingFacts ==
  ASSUME NEW z \in Nat \ {0}, NEW c \in Nat \ {0}
  PROVE  /\ Ceiling(z, c) \in Nat \ {0}
         /\ z <= Ceiling(z, c) * c
         /\ (Ceiling(z, c) - 1) * c < z
  <1>1. PICK q : q = (z + c - 1) \div c
    OBVIOUS
  <1>2. PICK r : r = (z + c - 1) % c
    OBVIOUS
  <1>3. q \in Int /\ r \in 0 .. c - 1 /\ z + c - 1 = c * q + r
    BY <1>1, <1>2, DivMod
  <1>4. q >= 1
    <2>1. ASSUME q <= 0 PROVE FALSE
      <3>1. q * c <= 0 * c
        BY <1>3, <2>1, Product
      <3>2. q * c = c * q /\ 0 * c = 0
        BY <1>3, SMT
      <3>3. QED
        BY <1>3, <3>1, <3>2
    <2>2. QED
      BY <1>3, <2>1
  <1>5. q * c = c * q /\ (q - 1) * c = c * q - c /\ c * q \in Int
    BY <1>3, SMT
  <1>6. QED
    BY <1>1, <1>3, <1>4, <1>5 DEF Ceiling

-----------------------------------------------------------------------------
(* The sizes the loop of marshalTaskEventChunks tries on z bytes: is piece *)
(* i, from 0, of size c short enough, and are all of them?                 *)
PieceLen(z, c, i) == Least((i + 1) * c, z) - i * c

PieceFits(z, c, i) ==
  ~(Envelope + Digits(i) + Digits(Ceiling(z, c)) + 4 * Ceiling(PieceLen(z, c, i), 3) > MaxMessageSize)

AllFit(z, c) == \A i \in 0 .. Ceiling(z, c) - 1 : PieceFits(z, c, i)

(* g is where the loop ends from each size up to N: there when all fits,   *)
(* and otherwise where it ends from half of it.                            *)
Follows(g, z, N) ==
  /\ g \in [1 .. N -> Nat \ {0}]
  /\ \A x \in 1 .. N : g[x] = IF x = 1 \/ AllFit(z, x) THEN x ELSE g[x \div 2]

Settles(z) == CHOOSE g : Follows(g, z, ChunkPayload)

(* The size it cuts z bytes in, and into how many pieces.                  *)
ChunkSize(z) == Settles(z)[ChunkPayload]
ChunkCount(z) == Ceiling(z, ChunkSize(z))

(* The event goes into one frame, or all its chunks into one each.         *)
Travels(z) == Envelope + z <= MaxMessageSize \/ AllFit(z, ChunkSize(z))

(* The loop ends from every size. *)
LEMMA Settled ==
  ASSUME NEW z
  PROVE  Follows(Settles(z), z, ChunkPayload)
  <1> DEFINE T == {N \in Nat : ~ \E g : Follows(g, z, N)}
  <1>1. ASSUME T # {} PROVE FALSE
    <2>1. PICK N \in T : \A y \in T : N <= y
      <3>1. T \in SUBSET Nat
        OBVIOUS
      <3> HIDE DEF T
      <3>2. QED
        BY <1>1, <3>1, NatMin
    <2>2. N \in Nat /\ ~ \E g : Follows(g, z, N)
      BY <2>1
    <2>3. CASE N = 0
      <3>1. Follows([x \in 1 .. 0 |-> 1], z, 0)
        <4>1. 1 .. 0 = {}
          OBVIOUS
        <4>2. QED
          BY <4>1 DEF Follows
      <3>2. QED
        BY <2>2, <2>3, <3>1
    <2>4. CASE N # 0
      <3>1. N - 1 \in Nat /\ N - 1 \notin T
        BY <2>1, <2>2, <2>4
      <3>2. PICK g : Follows(g, z, N - 1)
        BY <3>1
      <3>3. PICK last : last = IF N = 1 \/ AllFit(z, N) THEN N ELSE g[N \div 2]
        OBVIOUS
      <3>4. last \in Nat \ {0}
        <4>1. N # 1 => N \div 2 \in 1 .. N - 1
          BY <2>2, <2>4, SMT
        <4>2. QED
          BY <2>2, <2>4, <3>2, <3>3, <4>1 DEF Follows
      <3>5. PICK h : h = [x \in 1 .. N |-> IF x = N THEN last ELSE g[x]]
        OBVIOUS
      <3>6. \A x \in 1 .. N : x # N => x \in 1 .. N - 1
        BY <2>2
      <3>7. h \in [1 .. N -> Nat \ {0}]
        BY <3>2, <3>4, <3>5, <3>6 DEF Follows
      <3>8. ASSUME NEW x \in 1 .. N
            PROVE  h[x] = IF x = 1 \/ AllFit(z, x) THEN x ELSE h[x \div 2]
        <4>1. x # 1 => x \div 2 \in 1 .. N /\ x \div 2 # N
          BY <2>2, <3>8, SMT
        <4>2. x # 1 => h[x \div 2] = g[x \div 2]
          BY <3>5, <4>1
        <4>3. CASE x = N
          BY <3>3, <3>5, <4>2, <4>3
        <4>4. CASE x # N
          <5>1. h[x] = g[x] /\ x \in 1 .. N - 1
            BY <3>5, <3>6, <3>8, <4>4
          <5>2. g[x] = IF x = 1 \/ AllFit(z, x) THEN x ELSE g[x \div 2]
            BY <3>2, <5>1 DEF Follows
          <5>3. QED
            BY <4>2, <5>1, <5>2
        <4>5. QED
          BY <4>3, <4>4
      <3>9. Follows(h, z, N)
        BY <3>7, <3>8 DEF Follows
      <3>10. QED
        BY <2>2, <3>9
    <2>5. QED
      BY <2>3, <2>4
  <1>2. ChunkPayload \in Nat
    BY StreamAssumption
  <1>3. \E g : Follows(g, z, ChunkPayload)
    BY <1>1, <1>2
  <1>4. QED
    BY <1>3 DEF Settles

(* It is a size, and when all fits it is the one the loop is at.           *)
LEMMA ChunkSizeIs ==
  ASSUME NEW z
  PROVE  /\ ChunkSize(z) \in Nat \ {0}
         /\ \A c \in 1 .. ChunkPayload :
              /\ AllFit(z, c) => Settles(z)[c] = c
              /\ c # 1 /\ ~AllFit(z, c) => /\ Settles(z)[c \div 2] = Settles(z)[c]
                                           /\ c \div 2 \in 1 .. ChunkPayload
  <1>1. ChunkPayload \in Nat \ {0} /\ ChunkPayload \in 1 .. ChunkPayload
    BY StreamAssumption
  <1>2. /\ Settles(z) \in [1 .. ChunkPayload -> Nat \ {0}]
        /\ \A x \in 1 .. ChunkPayload :
             Settles(z)[x] = IF x = 1 \/ AllFit(z, x) THEN x ELSE Settles(z)[x \div 2]
    BY Settled DEF Follows
  <1>3. \A c \in 1 .. ChunkPayload : c # 1 => c \div 2 \in 1 .. ChunkPayload
    BY <1>1, SMT
  <1>4. QED
    BY <1>1, <1>2, <1>3 DEF ChunkSize

(* Where the first i pieces of a payload of z bytes end. *)
EndOf(z, i) == Least(i * ChunkSize(z), z)

(* The pieces split the payload: each begins where the one before ends,    *)
(* none is empty, none is longer than the chunk size, and the last ends    *)
(* it.                                                                     *)
LEMMA Pieces ==
  ASSUME NEW z \in Nat \ {0}
  PROVE  /\ ChunkCount(z) \in Nat \ {0}
         /\ EndOf(z, 0) = 0 /\ EndOf(z, ChunkCount(z)) = z
         /\ \A i \in 0 .. ChunkCount(z) - 1 :
              /\ EndOf(z, i) \in 0 .. z /\ EndOf(z, i + 1) \in 0 .. z
              /\ EndOf(z, i) = i * ChunkSize(z)
              /\ EndOf(z, i) < EndOf(z, i + 1)
              /\ EndOf(z, i + 1) - EndOf(z, i) <= Least(ChunkSize(z), z)
              /\ EndOf(z, i + 1) = Least((i + 1) * ChunkSize(z), z)
  <1>1. PICK c \in Nat \ {0} : c = ChunkSize(z)
    BY ChunkSizeIs
  <1>2. PICK k : k = ChunkCount(z)
    OBVIOUS
  <1>3. k \in Nat \ {0} /\ z <= k * c /\ (k - 1) * c < z
    BY <1>1, <1>2, CeilingFacts DEF ChunkCount
  <1>4. EndOf(z, 0) = 0
    <2>1. 0 * c = 0
      BY <1>1, SMT
    <2>2. QED
      BY <1>1, <2>1 DEF EndOf, Least
  <1>5. EndOf(z, k) = z
    BY <1>1, <1>3, SMT DEF EndOf, Least
  <1>6. ASSUME NEW i \in 0 .. k - 1
        PROVE  /\ EndOf(z, i) \in 0 .. z /\ EndOf(z, i + 1) \in 0 .. z
               /\ EndOf(z, i) = i * c
               /\ EndOf(z, i) < EndOf(z, i + 1)
               /\ EndOf(z, i + 1) - EndOf(z, i) <= Least(c, z)
    <2>1. i * c <= (k - 1) * c /\ i * c \in Int /\ (k - 1) * c \in Int
      BY <1>3, <1>6, Product
    <2>2. 0 * c <= i * c /\ 0 * c = 0
      BY <1>6, Product, SMT
    <2>3. i * c < z
      BY <1>3, <2>1
    <2>4. (i + 1) * c = i * c + c
      BY <1>6, SMT
    <2>5. PICK p \in Nat : p = i * c
      BY <2>1, <2>2
    <2>6. EndOf(z, i) = p /\ EndOf(z, i + 1) = Least(p + c, z)
      BY <1>1, <2>3, <2>4, <2>5 DEF EndOf, Least
    <2>7. QED
      BY <2>3, <2>5, <2>6 DEF Least
  <1>7. QED
    BY <1>1, <1>2, <1>3, <1>4, <1>5, <1>6 DEF EndOf

-----------------------------------------------------------------------------
(* A byte is named by its event and its place in it. *)
Byte == Nat \X Nat

(* The payload of event n, of z bytes. *)
Bytes(n, z) == [k \in 1 .. z |-> <<n, k>>]

(* The frames a loop over them has made after i pieces of size c.          *)
LoopFrame(n, z, c, s, k, i) ==
  [is |-> "chunk", seq |-> s, kind |-> k, index |-> i, total |-> Ceiling(z, c),
   payload |-> SubSeq(Bytes(n, z), i * c + 1, Least((i + 1) * c, z))]

LoopFrames(n, z, c, s, k, i) == [j \in 1 .. i |-> LoopFrame(n, z, c, s, k, j - 1)]

(* Its piece i, from 0 as the index of a chunk. *)
Piece(n, z, i) == SubSeq(Bytes(n, z), EndOf(z, i) + 1, EndOf(z, i + 1))

(* What MarshalNotificationFrames makes of the event. *)
Frames(n, z, s, k) ==
  IF Envelope + z <= MaxMessageSize
  THEN <<[is |-> "event", seq |-> s, kind |-> k, payload |-> Bytes(n, z)]>>
  ELSE LoopFrames(n, z, ChunkSize(z), s, k, ChunkCount(z))

(* Its first i pieces joined. *)
Prefix(n, z, i) == SubSeq(Bytes(n, z), 1, EndOf(z, i))

(* A payload is a sequence of its bytes. *)
LEMMA BytesType ==
  ASSUME NEW n \in Nat, NEW z \in Nat
  PROVE  /\ Bytes(n, z) \in Seq(Byte) /\ Len(Bytes(n, z)) = z
         /\ \A k \in 1 .. z : Bytes(n, z)[k] = <<n, k>>
  <1>1. Bytes(n, z) \in [1 .. z -> Byte]
    BY DEF Bytes, Byte
  <1>2. Bytes(n, z) \in Seq(Byte)
    BY <1>1
  <1>3. QED
    BY <1>1, <1>2 DEF Bytes

(* Pieces taken in order join to the payload. *)
LEMMA PiecesJoin ==
  ASSUME NEW n \in Nat, NEW z \in Nat \ {0}
  PROVE  /\ Prefix(n, z, 0) = <<>> /\ Prefix(n, z, ChunkCount(z)) = Bytes(n, z)
         /\ \A i \in 0 .. ChunkCount(z) - 1 :
              /\ Piece(n, z, i) \in Seq(Byte)
              /\ Len(Piece(n, z, i)) = EndOf(z, i + 1) - EndOf(z, i)
              /\ Piece(n, z, i)[1][1] = n
              /\ Prefix(n, z, i) \o Piece(n, z, i) = Prefix(n, z, i + 1)
  <1>1. PICK b : b = Bytes(n, z)
    OBVIOUS
  <1>2. b \in Seq(Byte) /\ Len(b) = z /\ \A k \in 1 .. z : b[k] = <<n, k>>
    BY <1>1, BytesType
  <1>3. Prefix(n, z, 0) = <<>>
    <2>1. EndOf(z, 0) = 0
      BY Pieces
    <2>2. QED
      BY <2>1, SubSeqEmpty DEF Prefix
  <1>4. Prefix(n, z, ChunkCount(z)) = b
    <2>1. EndOf(z, ChunkCount(z)) = Len(b)
      BY <1>2, Pieces
    <2>2. QED
      BY <1>1, <1>2, <2>1, SubSeqFull DEF Prefix
  <1>5. ASSUME NEW i \in 0 .. ChunkCount(z) - 1
        PROVE  /\ Piece(n, z, i) \in Seq(Byte)
               /\ Len(Piece(n, z, i)) = EndOf(z, i + 1) - EndOf(z, i)
               /\ Piece(n, z, i)[1][1] = n
               /\ Prefix(n, z, i) \o Piece(n, z, i) = Prefix(n, z, i + 1)
    <2>1. PICK p \in 0 .. z, q \in 0 .. z : p = EndOf(z, i) /\ q = EndOf(z, i + 1) /\ p < q
      BY <1>5, Pieces
    <2>2. PICK d : d = SubSeq(b, p + 1, q)
      OBVIOUS
    <2>3. /\ d \in Seq(Byte) /\ Len(d) = IF p + 1 <= q THEN q - (p + 1) + 1 ELSE 0
          /\ \A k \in 1 .. q - (p + 1) + 1 : d[k] = b[p + 1 + k - 1]
      <3>1. \A k \in p + 1 .. q : b[k] \in Byte
        BY <1>2, <2>1
      <3>2. p + 1 \in Int /\ q \in Int
        BY <2>1
      <3>3. QED
        BY <2>2, <3>1, <3>2, SubSeqProperties
    <2>4. Len(d) = q - p /\ d[1] = b[p + 1]
      <3>1. p + 1 <= q /\ q - (p + 1) + 1 = q - p /\ 1 \in 1 .. q - (p + 1) + 1
        BY <2>1
      <3>2. p + 1 + 1 - 1 = p + 1
        BY <2>1
      <3>3. d[1] = b[p + 1 + 1 - 1]
        BY <2>3, <3>1
      <3>4. QED
        BY <2>3, <3>1, <3>2, <3>3
    <2>5. b[p + 1] = <<n, p + 1>>
      BY <1>2, <2>1
    <2>6. SubSeq(b, 1, p) \o d = SubSeq(b, 1, q)
      <3>1. 1 \in 1 .. Len(b) + 1 /\ p \in 1 - 1 .. Len(b) /\ q \in p .. Len(b)
        BY <1>2, <2>1
      <3>2. QED
        BY <1>2, <2>2, <3>1, ConcatAdjacentSubSeq
    <2>7. Piece(n, z, i) = d /\ Prefix(n, z, i) = SubSeq(b, 1, p) /\ Prefix(n, z, i + 1) = SubSeq(b, 1, q)
      BY <1>1, <2>1, <2>2 DEF Piece, Prefix
    <2>8. d[1][1] = n
      BY <2>4, <2>5
    <2>9. QED
      BY <2>1, <2>3, <2>4, <2>6, <2>7, <2>8
  <1>6. QED
    BY <1>1, <1>3, <1>4, <1>5

-----------------------------------------------------------------------------
(* The kind of an event, or that of a blank one. *)
AnyKind == Kinds \cup {"none"}

(* What a line of the response may be. *)
Frame ==
  [is : {"answer", "error", "cut"}]
    \cup [is : {"event"}, seq : Nat, kind : AnyKind, payload : Seq(Byte)]
    \cup [is : {"chunk"}, seq : Nat, kind : AnyKind, index : Nat, total : Nat, payload : Seq(Byte)]

(* f is one of the frames of event n, of z bytes and seq s. *)
IsFrame(f, n, z, s) ==
  /\ f.seq = s /\ ~TooLarge(f)
  /\ \/ /\ f.is = "event" /\ Envelope + z <= MaxMessageSize
        /\ f.payload = Bytes(n, z)
     \/ /\ f.is = "chunk" /\ ~(Envelope + z <= MaxMessageSize)
        /\ f.total = ChunkCount(z) /\ f.index \in 0 .. ChunkCount(z) - 1
        /\ f.payload = Piece(n, z, f.index)

(* Which event a frame is of, which piece of it, and whether the last.     *)
EventOf(f) == f.payload[1][1]
PieceOf(f) == IF f.is = "chunk" THEN f.index ELSE 0
IsLast(f)  == f.is = "chunk" => f.index + 1 = f.total

(* The event of a frame is told by its payload. *)
LEMMA FrameFacts ==
  ASSUME NEW n \in Nat, NEW z \in Nat \ {0}, NEW s, NEW f, IsFrame(f, n, z, s)
  PROVE  EventOf(f) = n /\ PieceOf(f) \in Nat
  <1>1. CASE f.is = "event"
    <2>1. f.payload = Bytes(n, z)
      BY <1>1 DEF IsFrame
    <2>2. Bytes(n, z)[1] = <<n, 1>>
      BY BytesType
    <2>3. QED
      BY <1>1, <2>1, <2>2 DEF EventOf, PieceOf
  <1>2. CASE f.is = "chunk"
    <2>1. f.payload = Piece(n, z, f.index) /\ f.index \in 0 .. ChunkCount(z) - 1
      BY <1>2 DEF IsFrame
    <2>2. f.index \in Nat
      BY <2>1, Pieces
    <2>3. Piece(n, z, f.index)[1][1] = n
      BY <2>1, PiecesJoin
    <2>4. QED
      BY <1>2, <2>1, <2>2, <2>3 DEF EventOf, PieceOf
  <1>3. QED
    BY <1>1, <1>2 DEF IsFrame

(* A piece of the loop is a sequence of bytes, and its frame within the    *)
(* limit if the piece is short enough.                                     *)
LEMMA LoopPiece ==
  ASSUME NEW n \in Nat, NEW z \in Nat \ {0}, NEW c \in Nat \ {0}, NEW i \in Nat, i * c < z,
         NEW s, NEW k
  PROVE  /\ LoopFrame(n, z, c, s, k, i).payload \in Seq(Byte)
         /\ Len(LoopFrame(n, z, c, s, k, i).payload) = PieceLen(z, c, i)
         /\ PieceLen(z, c, i) \in Nat \ {0}
         /\ TooLarge(LoopFrame(n, z, c, s, k, i)) <=> ~PieceFits(z, c, i)
  <1>1. PICK p \in Nat : p = i * c
    <2>1. 0 * c <= i * c /\ 0 * c = 0 /\ i * c \in Int
      BY Product, SMT
    <2>2. QED
      BY <2>1
  <1>2. (i + 1) * c = p + c
    BY <1>1, SMT
  <1>3. PICK q \in 0 .. z : q = Least((i + 1) * c, z) /\ p < q
    BY <1>1, <1>2 DEF Least
  <1>4. PICK d : d = SubSeq(Bytes(n, z), p + 1, q)
    OBVIOUS
  <1>5. d \in Seq(Byte) /\ Len(d) = q - p
    <2>1. \A j \in p + 1 .. q : Bytes(n, z)[j] \in Byte
      BY <1>1, <1>3, BytesType
    <2>2. p + 1 \in Int /\ q \in Int /\ p + 1 <= q /\ q - (p + 1) + 1 = q - p
      BY <1>1, <1>3
    <2>3. d \in Seq(Byte) /\ Len(d) = IF p + 1 <= q THEN q - (p + 1) + 1 ELSE 0
      BY <1>4, <2>1, <2>2, SubSeqProperties
    <2>4. QED
      BY <2>2, <2>3
  <1>6. PICK f : f = LoopFrame(n, z, c, s, k, i)
    OBVIOUS
  <1>7. f = [is |-> "chunk", seq |-> s, kind |-> k, index |-> i, total |-> Ceiling(z, c), payload |-> d]
    BY <1>1, <1>3, <1>4, <1>6 DEF LoopFrame
  <1>8. PieceLen(z, c, i) = q - p /\ q - p \in Nat \ {0}
    BY <1>1, <1>3 DEF PieceLen
  <1>9. TooLarge(f) <=> ~PieceFits(z, c, i)
    <2>1. /\ f.is = "chunk" /\ f.index = i /\ f.total = Ceiling(z, c)
          /\ Len(f.payload) = PieceLen(z, c, i)
      BY <1>5, <1>7, <1>8
    <2>2. QED
      BY <2>1 DEF TooLarge, FrameSize, PieceFits
  <1>10. f.payload = d
    BY <1>7
  <1>11. QED
    BY <1>5, <1>6, <1>8, <1>9, <1>10

(* F are the frames of event n, in order: the last one is marked by its    *)
(* index.                                                                  *)
InPieces(F, n, z, s, k) ==
  /\ F = Frames(n, z, s, k) /\ F # <<>>
  /\ \A i \in 1 .. Len(F) :
       /\ IsFrame(F[i], n, z, s) /\ F[i].kind = k
       /\ PieceOf(F[i]) = i - 1
       /\ IsLast(F[i]) <=> i = Len(F)
       /\ F[i].is = "chunk" =>
            F[Len(F)].is = "chunk" /\ F[i].total = Len(F) /\ F[i].payload # <<>>

(* There are such frames. *)
LEMMA FramesOfEvent ==
  ASSUME NEW n \in Nat, NEW z \in Nat \ {0}, NEW s \in Nat, NEW k \in AnyKind, Travels(z)
  PROVE  \E F \in Seq(Frame) : InPieces(F, n, z, s, k)
  <1> SUFFICES ASSUME NEW F, F = Frames(n, z, s, k)
               PROVE  F \in Seq(Frame) /\ InPieces(F, n, z, s, k)
    BY Zenon
  <1>1. /\ Bytes(n, z) \in Seq(Byte) /\ Len(Bytes(n, z)) = z
        /\ Envelope \in Nat /\ MaxMessageSize \in Nat
    BY BytesType, StreamAssumption
  <1>2. CASE Envelope + z <= MaxMessageSize
    <2>1. PICK f : f = [is |-> "event", seq |-> s, kind |-> k, payload |-> Bytes(n, z)]
      OBVIOUS
    <2>2. F = <<f>>
      BY <1>2, <2>1 DEF Frames
    <2>3. f \in Frame
      BY <1>1, <2>1 DEF Frame
    <2>4. ~TooLarge(f)
      BY <1>1, <1>2, <2>1 DEF TooLarge, FrameSize
    <2>5. /\ IsFrame(f, n, z, s) /\ f.kind = k /\ PieceOf(f) = 0 /\ IsLast(f)
          /\ f.is # "chunk"
      BY <1>2, <2>1, <2>4 DEF IsFrame, PieceOf, IsLast
    <2>6. QED
      BY <2>2, <2>3, <2>5 DEF InPieces
  <1>3. CASE ~(Envelope + z <= MaxMessageSize)
    <2>1. PICK K \in Nat \ {0}, c \in Nat \ {0} : K = ChunkCount(z) /\ c = ChunkSize(z)
      BY Pieces, ChunkSizeIs
    <2>2. F = [i \in 1 .. K |-> LoopFrame(n, z, c, s, k, i - 1)]
      BY <1>3, <2>1 DEF Frames, LoopFrames
    <2>3. Ceiling(z, c) = K /\ \A i \in 0 .. K - 1 : PieceFits(z, c, i)
      BY <1>3, <2>1 DEF AllFit, ChunkCount, Travels
    <2>4. ASSUME NEW i \in 1 .. K
          PROVE  /\ F[i] \in Frame /\ IsFrame(F[i], n, z, s) /\ F[i].kind = k
                 /\ PieceOf(F[i]) = i - 1
                 /\ IsLast(F[i]) <=> i = K
                 /\ F[i].is = "chunk" /\ F[i].total = K /\ F[i].payload # <<>>
      <3>1. PICK j \in 0 .. K - 1 : j = i - 1 /\ i = j + 1 /\ j \in Nat
        BY <2>1, <2>4
      <3>2. /\ EndOf(z, j) = j * c /\ EndOf(z, j + 1) = Least((j + 1) * c, z)
            /\ EndOf(z, j) \in 0 .. z /\ EndOf(z, j + 1) \in 0 .. z /\ EndOf(z, j) < EndOf(z, j + 1)
        BY <2>1, <3>1, Pieces
      <3>3. j * c < z
        BY <3>2
      <3>4. PICK f : f = LoopFrame(n, z, c, s, k, j)
        OBVIOUS
      <3>5. /\ f.payload \in Seq(Byte) /\ Len(f.payload) \in Nat \ {0}
            /\ TooLarge(f) <=> ~PieceFits(z, c, j)
        <4>1. PICK m : m = PieceLen(z, c, j)
          OBVIOUS
        <4>2. /\ f.payload \in Seq(Byte) /\ Len(f.payload) = m /\ m \in Nat \ {0}
              /\ TooLarge(f) <=> ~PieceFits(z, c, j)
          BY <2>1, <3>1, <3>3, <3>4, <4>1, LoopPiece
        <4>3. QED
          BY <4>2
      <3>6. f = [is |-> "chunk", seq |-> s, kind |-> k, index |-> j, total |-> K,
                 payload |-> Piece(n, z, j)]
        BY <2>3, <3>2, <3>4 DEF LoopFrame, Piece
      <3>7. F[i] = f
        BY <2>2, <2>4, <3>1, <3>4
      <3>8. ~TooLarge(f)
        BY <2>3, <3>1, <3>5
      <3>9. f \in Frame
        <4>1. f \in [is : {"chunk"}, seq : Nat, kind : AnyKind, index : Nat, total : Nat,
                      payload : Seq(Byte)]
          BY <2>1, <3>1, <3>5, <3>6
        <4>2. QED
          BY <4>1 DEF Frame
      <3>10. IsFrame(f, n, z, s) /\ f.kind = k
        BY <1>3, <2>1, <3>1, <3>6, <3>8 DEF IsFrame
      <3>11. PieceOf(f) = i - 1 /\ (IsLast(f) <=> i = K)
        <4>1. f.is = "chunk" /\ f.index = j /\ f.total = K
          BY <3>6
        <4>2. j + 1 = K <=> i = K
          BY <2>1, <3>1
        <4>3. QED
          BY <3>1, <4>1, <4>2 DEF PieceOf, IsLast
      <3>12. f.is = "chunk" /\ f.total = K /\ f.payload # <<>>
        <4>1. f.payload # <<>>
          BY <3>5
        <4>2. QED
          BY <3>6, <4>1
      <3>13. QED
        BY <3>7, <3>9, <3>10, <3>11, <3>12
    <2>5. F \in [1 .. K -> Frame]
      BY <2>2, <2>4
    <2>6. F \in Seq(Frame) /\ Len(F) = K /\ F # <<>>
      BY <2>1, <2>5
    <2>7. QED
      BY <2>1, <2>4, <2>6 DEF InPieces
  <1>4. QED
    BY <1>2, <1>3

-----------------------------------------------------------------------------
(* A frame of an event, not the end of the response. *)
OfEvent(f) == f.is \in {"event", "chunk"}

(* The client is still there to read. *)
Attended == call \in {"posting", "reading"}
(* The handler may still emit. *)
AtWork == server = "handling" /\ step # "over"

(* Of an event sent, seq as in wire, size as in sizes. *)
Genuine(f, w, z) ==
  OfEvent(f) => LET n == EventOf(f)
                IN n \in 1 .. Len(w) /\ IsFrame(f, n, z[n], w[n])

(* A frame in a state of the world: of an event sent, an answer only after *)
(* the task, an error only from a handler that ended, a cut only from a    *)
(* crash.                                                                  *)
Sound(f, w, z, st, sv) ==
  /\ Genuine(f, w, z)
  /\ f.is = "answer" => st = "over"
  /\ f.is = "error" => sv # "handling"
  /\ f.is = "cut" => sv = "crashed"

(* a holds the first pieces of event n. *)
PartOf(a, n, w, z) ==
  /\ n \in 1 .. Len(w)
  /\ a.total = ChunkCount(z[n]) /\ a.parts \in 1 .. a.total - 1
  /\ a.payload = Prefix(n, z[n], a.parts)

(* The frame that comes after f begins at this event and this piece. *)
NextEvent(f) == IF IsLast(f) THEN EventOf(f) + 1 ELSE EventOf(f)
NextPiece(f) == IF IsLast(f) THEN 0 ELSE PieceOf(f) + 1

(* f may come next when piece i of event n is due, of kind k, and m events *)
(* were sent; an answer only when nothing is due.                          *)
Continues(f, n, i, k, m) ==
  /\ OfEvent(f) => EventOf(f) = n /\ PieceOf(f) = i /\ (i > 0 => f.kind = k)
  /\ f.is = "answer" => n = m + 1 /\ i = 0

(* The frames of S follow each other from there, a cut apart. *)
Chained(S, n, i, k, m) ==
  /\ S # <<>> => Continues(S[1], n, i, k, m)
  /\ \A j \in 1 .. Len(S) - 1 :
       \/ S[j + 1].is = "cut"
       \/ OfEvent(S[j]) /\ Continues(S[j + 1], NextEvent(S[j]), NextPiece(S[j]), S[j].kind, m)

(* The frames of S end with the last event sent. *)
Complete(S, n, i, m) ==
  IF S = <<>> THEN n = m + 1 /\ i = 0
  ELSE OfEvent(S[Len(S)]) /\ NextEvent(S[Len(S)]) = m + 1 /\ NextPiece(S[Len(S)]) = 0

(* What the client, on a sound wire, waits for: the event after those      *)
(* delivered, and of it the pieces after those gathered.                   *)
Awaited == Len(delivered) + 1
Assembly == chunks[wire[Awaited]]
Got == IF DOMAIN chunks = {} THEN 0 ELSE Assembly.parts
GotKind == IF DOMAIN chunks = {} THEN "none" ELSE Assembly.kind

-----------------------------------------------------------------------------
(* What the records hold, the frames included. *)
Typed ==
  /\ StreamTypeOK
  /\ pipe \in Seq(Frame) /\ outgoing \in Seq(Frame)
  /\ delivered \in Seq([seq : Nat, kind : AnyKind, payload : Seq(Byte)])
  /\ \A s \in DOMAIN chunks :
       chunks[s] \in [kind : AnyKind, total : Nat, parts : Nat, payload : Seq(Byte)]

(* Every event recorded but the one at hand was sent, and while one may    *)
(* still be written the response is open to a client that reads.           *)
Counted ==
  /\ Len(sizes) = Len(wire) + (IF step \in {"append", "notify"} THEN 1 ELSE 0)
  /\ Attended /\ (AtWork \/ outgoing # <<>>) => open

(* Every frame on its way is of an event sent. *)
Framed ==
  /\ \A i \in 1 .. Len(pipe) : Sound(pipe[i], wire, sizes, step, server)
  /\ \A i \in 1 .. Len(outgoing) : Sound(outgoing[i], wire, sizes, step, server)

(* Every assembly holds the first pieces of the event of its seq (a record *)
(* evicted before its append has seq 0, and several may share it).         *)
Assembled ==
  \A s \in DOMAIN chunks \ {0} : s \in DOMAIN wire /\ wire[s] = s /\ PartOf(chunks[s], s, wire, sizes)

(* Every event delivered is one that was sent, whole. *)
DeliveredWhole ==
  \A i \in 1 .. Len(delivered) :
    delivered[i].seq # 0 =>
      \E n \in 1 .. Len(wire) :
        delivered[i].payload = Bytes(n, sizes[n]) /\ delivered[i].seq = wire[n]

(* The events delivered are the first ones sent, in order. *)
DeliveredInOrder ==
  \A i \in 1 .. Len(delivered) :
    i <= Len(wire) /\ delivered[i].payload = Bytes(i, sizes[i]) /\ delivered[i].seq = wire[i]

(* The one assembly is of the awaited event, and what is on its way goes   *)
(* on from there, up to the last event sent.                               *)
InOrder ==
  /\ DOMAIN chunks # {} =>
       Awaited <= Len(wire) /\ DOMAIN chunks = {wire[Awaited]} /\ PartOf(Assembly, Awaited, wire, sizes)
  /\ Chained(pipe \o outgoing, Awaited, Got, GotKind, Len(wire))
  /\ AtWork => Complete(pipe \o outgoing, Awaited, Got, Len(wire))

(* On a sound wire the client has every event in order, and ends with all  *)
(* of them or with the crash of the broker.                                *)
Ordered ==
  faults = 0 =>
    /\ DeliveredInOrder
    /\ Attended => InOrder
    /\ call = "ok" => step = "over" /\ Len(delivered) = Len(wire)
    /\ call = "error" => server = "crashed"

(* The loop has made the first i pieces of size c of the event at hand,    *)
(* none of them too large, and will end at the size ChunkSize.             *)
LoopAt(n, z, c, i) ==
  /\ cut = [size |-> c, total |-> Ceiling(z, c), index |-> i, start |-> i * c,
            frames |-> LoopFrames(n, z, c, event.seq, event.kind, i)]
  /\ i <= Ceiling(z, c) /\ \A j \in 0 .. i - 1 : PieceFits(z, c, j)
  /\ Settles(z)[c] = ChunkSize(z)

(* A loop is over an event that does not go into one frame. *)
Looped ==
  \/ cut = NoCut
  \/ /\ step = "notify" /\ ~(Envelope + sizes[Len(sizes)] <= MaxMessageSize)
     /\ \E c \in 1 .. ChunkPayload, i \in Nat : LoopAt(Len(sizes), sizes[Len(sizes)], c, i)

(* What is true of the call after every step, together with Inv. *)
StreamInv == Typed /\ Counted /\ Framed /\ Assembled /\ DeliveredWhole /\ Ordered /\ Looped

-----------------------------------------------------------------------------
(* The fields of a frame. *)
LEMMA FrameFields ==
  ASSUME NEW f \in Frame
  PROVE  /\ f.is \in {"answer", "error", "cut", "event", "chunk"}
         /\ OfEvent(f) => f.seq \in Nat /\ f.kind \in AnyKind /\ f.payload \in Seq(Byte)
         /\ f.is = "chunk" => f.index \in Nat /\ f.total \in Nat
  <1>1. CASE f \in [is : {"answer", "error", "cut"}]
    BY <1>1 DEF OfEvent
  <1>2. CASE f \in [is : {"event"}, seq : Nat, kind : AnyKind, payload : Seq(Byte)]
    BY <1>2 DEF OfEvent
  <1>3. CASE f \in [is : {"chunk"}, seq : Nat, kind : AnyKind, index : Nat, total : Nat,
                    payload : Seq(Byte)]
    BY <1>3 DEF OfEvent
  <1>4. QED
    BY <1>1, <1>2, <1>3 DEF Frame

(* w2 continues w. *)
Extends(w2, w) == Len(w) <= Len(w2) /\ \A i \in 1 .. Len(w) : w2[i] = w[i]

(* A sound frame stays sound while events are added and the task and the   *)
(* handler end.                                                            *)
LEMMA SoundStays ==
  ASSUME NEW w \in Seq(Nat), NEW w2 \in Seq(Nat), NEW z \in Seq(Sizes), NEW z2 \in Seq(Sizes),
         Len(w) <= Len(z), Extends(w2, w), Extends(z2, z),
         NEW st, NEW st2, NEW sv, NEW sv2,
         st = "over" => st2 = "over", sv = "crashed" => sv2 = "crashed",
         sv # "handling" => sv2 # "handling",
         NEW f, Sound(f, w, z, st, sv)
  PROVE  Sound(f, w2, z2, st2, sv2)
  <1>1. Genuine(f, w2, z2)
    <2>1. SUFFICES ASSUME OfEvent(f)
                   PROVE  EventOf(f) \in 1 .. Len(w2)
                          /\ IsFrame(f, EventOf(f), z2[EventOf(f)], w2[EventOf(f)])
      BY DEF Genuine
    <2>2. PICK n : n = EventOf(f)
      OBVIOUS
    <2>3. n \in 1 .. Len(w) /\ IsFrame(f, n, z[n], w[n])
      BY <2>1, <2>2 DEF Sound, Genuine
    <2>4. n \in 1 .. Len(w2) /\ n \in 1 .. Len(z)
      BY <2>3 DEF Extends
    <2>5. w2[n] = w[n] /\ z2[n] = z[n]
      BY <2>3, <2>4 DEF Extends
    <2>6. QED
      BY <2>2, <2>3, <2>4, <2>5
  <1>2. QED
    BY <1>1 DEF Sound

(* An assembly stays one of the same event. *)
LEMMA PartStays ==
  ASSUME NEW w \in Seq(Nat), NEW w2 \in Seq(Nat), NEW z \in Seq(Sizes), NEW z2 \in Seq(Sizes),
         Len(w) <= Len(z), Extends(w2, w), Extends(z2, z),
         NEW a, NEW n, PartOf(a, n, w, z)
  PROVE  PartOf(a, n, w2, z2) /\ w2[n] = w[n]
  <1>1. n \in 1 .. Len(w) /\ n \in 1 .. Len(w2) /\ n \in 1 .. Len(z)
    BY DEF PartOf, Extends
  <1>2. w2[n] = w[n] /\ z2[n] = z[n]
    BY <1>1 DEF Extends
  <1>3. QED
    BY <1>1, <1>2 DEF PartOf

-----------------------------------------------------------------------------
(* The rest of a chain goes on after the frame read. *)
LEMMA ChainRead ==
  ASSUME NEW S \in Seq(Frame), S # <<>>, NEW n, NEW i, NEW k, NEW m,
         Chained(S, n, i, k, m), OfEvent(S[1])
  PROVE  /\ Chained(Tail(S), NextEvent(S[1]), NextPiece(S[1]), S[1].kind, m)
         /\ Complete(S, n, i, m) => Complete(Tail(S), NextEvent(S[1]), NextPiece(S[1]), m)
  <1>1. PICK T : T = Tail(S)
    OBVIOUS
  <1>2. /\ T \in Seq(Frame) /\ Len(T) = Len(S) - 1 /\ Len(S) \in Nat /\ Len(S) >= 1
        /\ \A j \in 1 .. Len(T) : T[j] = S[j + 1]
    BY <1>1, HeadTailProperties
  <1>3. ASSUME T # <<>> PROVE Continues(T[1], NextEvent(S[1]), NextPiece(S[1]), S[1].kind, m)
    <2>1. 1 \in 1 .. Len(T) /\ 1 \in 1 .. Len(S) - 1 /\ T[1] = S[1 + 1]
      BY <1>2, <1>3
    <2>2. \/ S[1 + 1].is = "cut"
          \/ Continues(S[1 + 1], NextEvent(S[1]), NextPiece(S[1]), S[1].kind, m)
      BY <2>1 DEF Chained
    <2>3. QED
      BY <2>1, <2>2 DEF Continues, OfEvent
  <1>4. ASSUME NEW j \in 1 .. Len(T) - 1
        PROVE  \/ T[j + 1].is = "cut"
               \/ OfEvent(T[j])
                  /\ Continues(T[j + 1], NextEvent(T[j]), NextPiece(T[j]), T[j].kind, m)
    <2>1. j + 1 \in 1 .. Len(S) - 1 /\ T[j] = S[j + 1] /\ T[j + 1] = S[(j + 1) + 1]
      BY <1>2, <1>4
    <2>2. QED
      BY <2>1 DEF Chained
  <1>5. ASSUME Complete(S, n, i, m) PROVE Complete(T, NextEvent(S[1]), NextPiece(S[1]), m)
    <2>1. OfEvent(S[Len(S)]) /\ NextEvent(S[Len(S)]) = m + 1 /\ NextPiece(S[Len(S)]) = 0
      BY <1>5 DEF Complete
    <2>2. CASE T = <<>>
      <3>1. Len(S) = 1
        BY <1>2, <2>2
      <3>2. QED
        BY <2>1, <2>2, <3>1 DEF Complete
    <2>3. CASE T # <<>>
      <3>1. Len(T) \in 1 .. Len(T) /\ T[Len(T)] = S[Len(S)]
        BY <1>2, <2>3
      <3>2. QED
        BY <2>1, <2>3, <3>1 DEF Complete
    <2>4. QED
      BY <2>2, <2>3
  <1>6. QED
    BY <1>1, <1>3, <1>4, <1>5 DEF Chained

(* A chain cut short, by a crash, is a chain. *)
LEMMA ChainPrefix ==
  ASSUME NEW S \in Seq(Frame), NEW n, NEW i, NEW k, NEW m, Chained(S, n, i, k, m),
         NEW T \in Seq(Frame),
         \A j \in 1 .. Len(T) : \/ j = Len(T) /\ T[j].is = "cut"
                                \/ j <= Len(S) /\ T[j] = S[j]
  PROVE  Chained(T, n, i, k, m)
  <1>1. ASSUME T # <<>> PROVE Continues(T[1], n, i, k, m)
    <2>1. 1 \in 1 .. Len(T)
      BY <1>1
    <2>2. CASE T[1].is = "cut"
      BY <2>2 DEF Continues, OfEvent
    <2>3. CASE 1 <= Len(S) /\ T[1] = S[1]
      <3>1. S # <<>>
        BY <2>3
      <3>2. QED
        BY <2>3, <3>1 DEF Chained
    <2>4. QED
      BY <2>1, <2>2, <2>3
  <1>2. ASSUME NEW j \in 1 .. Len(T) - 1
        PROVE  \/ T[j + 1].is = "cut"
               \/ OfEvent(T[j])
                  /\ Continues(T[j + 1], NextEvent(T[j]), NextPiece(T[j]), T[j].kind, m)
    <2>1. j \in 1 .. Len(T) /\ j + 1 \in 1 .. Len(T) /\ j # Len(T) /\ Len(S) \in Nat
      BY <1>2
    <2>2. T[j] = S[j]
      BY <2>1
    <2>3. CASE T[j + 1].is = "cut"
      BY <2>3
    <2>4. CASE j + 1 <= Len(S) /\ T[j + 1] = S[j + 1]
      <3>1. j \in 1 .. Len(S) - 1
        BY <2>1, <2>4
      <3>2. QED
        BY <2>2, <2>4, <3>1 DEF Chained
    <2>5. QED
      BY <2>1, <2>3, <2>4
  <1>3. QED
    BY <1>1, <1>2 DEF Chained

(* The frames of the next event go on from a complete chain. *)
LEMMA ChainJoin ==
  ASSUME NEW S \in Seq(Frame), NEW F \in Seq(Frame), F # <<>>,
         NEW n, NEW i, NEW k, NEW m \in Nat, NEW kk, NEW mm,
         Chained(S, n, i, k, m), Complete(S, n, i, m),
         \A j \in 1 .. Len(S) : OfEvent(S[j]),
         Chained(F, m + 1, 0, kk, mm)
  PROVE  /\ Chained(S \o F, n, i, k, mm)
         /\ Complete(F, m + 1, 0, mm) => Complete(S \o F, n, i, mm)
  <1>1. PICK T : T = S \o F
    OBVIOUS
  <1>2. /\ T \in Seq(Frame) /\ Len(T) = Len(S) + Len(F) /\ Len(S) \in Nat /\ Len(F) \in Nat \ {0}
        /\ \A j \in 1 .. Len(S) : T[j] = S[j]
        /\ \A j \in 1 .. Len(F) : T[Len(S) + j] = F[j]
    <2>1. /\ T \in Seq(Frame) /\ Len(T) = Len(S) + Len(F)
          /\ \A j \in 1 .. Len(S) + Len(F) : T[j] = IF j <= Len(S) THEN S[j] ELSE F[j - Len(S)]
      BY <1>1, ConcatProperties
    <2>2. Len(S) \in Nat /\ Len(F) \in Nat \ {0}
      BY EmptySeq
    <2>3. \A j \in 1 .. Len(S) : j \in 1 .. Len(S) + Len(F) /\ j <= Len(S)
      BY <2>2
    <2>4. \A j \in 1 .. Len(F) : Len(S) + j \in 1 .. Len(S) + Len(F) /\ ~(Len(S) + j <= Len(S))
                                 /\ (Len(S) + j) - Len(S) = j
      BY <2>2
    <2>5. \A j \in 1 .. Len(F) : T[Len(S) + j] = F[j]
      BY <2>1, <2>4
    <2>6. QED
      BY <2>1, <2>2, <2>3, <2>5
  <1>3. ASSUME NEW f, OfEvent(f), NEW a, NEW b, NEW c, Continues(f, a, b, c, m)
        PROVE  Continues(f, a, b, c, mm)
    BY <1>3 DEF Continues, OfEvent
  <1>4. Continues(F[1], m + 1, 0, kk, mm)
    BY DEF Chained
  <1>5. ASSUME NEW c PROVE Continues(F[1], m + 1, 0, c, mm)
    BY <1>4 DEF Continues
  <1>6. Continues(T[1], n, i, k, mm)
    <2>1. CASE S = <<>>
      <3>1. Len(S) = 0 /\ 1 \in 1 .. Len(F)
        BY <1>2, <2>1
      <3>2. T[1] = F[1] /\ n = m + 1 /\ i = 0
        BY <1>2, <2>1, <3>1 DEF Complete
      <3>3. QED
        BY <1>5, <3>2
    <2>2. CASE S # <<>>
      <3>1. 1 \in 1 .. Len(S)
        BY <2>2
      <3>2. T[1] = S[1] /\ OfEvent(S[1]) /\ Continues(S[1], n, i, k, m)
        BY <1>2, <2>2, <3>1 DEF Chained
      <3>3. QED
        BY <1>3, <3>2
    <2>3. QED
      BY <2>1, <2>2
  <1>7. ASSUME NEW j \in 1 .. Len(T) - 1
        PROVE  \/ T[j + 1].is = "cut"
               \/ OfEvent(T[j])
                  /\ Continues(T[j + 1], NextEvent(T[j]), NextPiece(T[j]), T[j].kind, mm)
    <2>1. CASE j < Len(S)
      <3>1. j \in 1 .. Len(S) - 1 /\ j \in 1 .. Len(S) /\ j + 1 \in 1 .. Len(S)
        BY <1>2, <1>7, <2>1
      <3>2. T[j] = S[j] /\ T[j + 1] = S[j + 1] /\ OfEvent(S[j]) /\ OfEvent(S[j + 1])
        BY <1>2, <3>1
      <3>3. \/ S[j + 1].is = "cut"
            \/ Continues(S[j + 1], NextEvent(S[j]), NextPiece(S[j]), S[j].kind, m)
        BY <3>1 DEF Chained
      <3>4. QED
        BY <1>3, <3>2, <3>3
    <2>2. CASE j = Len(S)
      <3>1. j \in 1 .. Len(S) /\ S # <<>> /\ 1 \in 1 .. Len(F)
        BY <1>2, <1>7, <2>2
      <3>2. T[j] = S[j] /\ T[j + 1] = F[1] /\ OfEvent(S[j])
        BY <1>2, <2>2, <3>1
      <3>3. NextEvent(S[j]) = m + 1 /\ NextPiece(S[j]) = 0
        BY <2>2, <3>1 DEF Complete
      <3>4. Continues(F[1], NextEvent(S[j]), NextPiece(S[j]), S[j].kind, mm)
        BY <1>5, <3>3
      <3>5. QED
        BY <3>2, <3>4
    <2>3. CASE j > Len(S)
      <3>1. PICK h \in 1 .. Len(F) - 1 : j = Len(S) + h
        <4>1. j - Len(S) \in 1 .. Len(F) - 1 /\ j = Len(S) + (j - Len(S))
          BY <1>2, <1>7, <2>3
        <4>2. QED
          BY <4>1
      <3>2. h \in 1 .. Len(F) /\ h + 1 \in 1 .. Len(F) /\ j + 1 = Len(S) + (h + 1)
        BY <1>2, <3>1
      <3>3. T[j] = F[h] /\ T[j + 1] = F[h + 1]
        BY <1>2, <3>1, <3>2
      <3>4. QED
        BY <3>1, <3>3 DEF Chained
    <2>4. QED
      BY <1>2, <1>7, <2>1, <2>2, <2>3
  <1>8. ASSUME Complete(F, m + 1, 0, mm) PROVE Complete(T, n, i, mm)
    <2>1. Len(F) \in 1 .. Len(F) /\ T[Len(T)] = F[Len(F)] /\ T # <<>>
      BY <1>2
    <2>2. QED
      BY <1>8, <2>1 DEF Complete
  <1>9. QED
    BY <1>1, <1>6, <1>7, <1>8 DEF Chained

(* The frames of one event are a chain, that ends with the event.          *)
InChain(F, n, z, s, k) ==
  /\ F = Frames(n, z, s, k) /\ F # <<>>
  /\ Chained(F, n, 0, k, n) /\ Complete(F, n, 0, n)
  /\ \A j \in 1 .. Len(F) :
       /\ OfEvent(F[j]) /\ EventOf(F[j]) = n /\ IsFrame(F[j], n, z, s)
       /\ F[j].is = "chunk" => /\ F[Len(F)].is = "chunk" /\ F[j].payload # <<>>
                              /\ F[j].index + 1 = j /\ F[j].total = Len(F)

(* There is such a chain. *)
LEMMA FramesChained ==
  ASSUME NEW n \in Nat, NEW z \in Nat \ {0}, NEW s \in Nat, NEW k \in AnyKind, Travels(z)
  PROVE  \E F \in Seq(Frame) : InChain(F, n, z, s, k)
  <1>0. PICK F \in Seq(Frame) : InPieces(F, n, z, s, k)
    BY FramesOfEvent
  <1>1. /\ Len(F) \in Nat \ {0} /\ F # <<>>
        /\ \A j \in 1 .. Len(F) : /\ IsFrame(F[j], n, z, s) /\ F[j].kind = k
                                  /\ PieceOf(F[j]) = j - 1 /\ (IsLast(F[j]) <=> j = Len(F))
    BY <1>0, EmptySeq DEF InPieces
  <1>2. \A j \in 1 .. Len(F) : OfEvent(F[j]) /\ EventOf(F[j]) = n
    <2>1. SUFFICES ASSUME NEW j \in 1 .. Len(F) PROVE OfEvent(F[j]) /\ EventOf(F[j]) = n
      OBVIOUS
    <2>2. IsFrame(F[j], n, z, s)
      BY <1>1
    <2>3. OfEvent(F[j])
      BY <2>2 DEF IsFrame, OfEvent
    <2>4. EventOf(F[j]) = n
      BY <2>2, FrameFacts
    <2>5. QED
      BY <2>3, <2>4
  <1>3. Continues(F[1], n, 0, k, n)
    <2>1. 1 \in 1 .. Len(F) /\ 1 - 1 = 0
      BY <1>1
    <2>2. QED
      BY <1>1, <1>2, <2>1 DEF Continues, OfEvent
  <1>4. ASSUME NEW j \in 1 .. Len(F) - 1
        PROVE  Continues(F[j + 1], NextEvent(F[j]), NextPiece(F[j]), F[j].kind, n)
    <2>1. j \in 1 .. Len(F) /\ j + 1 \in 1 .. Len(F) /\ j # Len(F) /\ (j + 1) - 1 = j
          /\ (j - 1) + 1 = j
      BY <1>1, <1>4
    <2>2. NextEvent(F[j]) = n /\ NextPiece(F[j]) = j
      BY <1>1, <1>2, <2>1 DEF NextEvent, NextPiece
    <2>3. EventOf(F[j + 1]) = n /\ PieceOf(F[j + 1]) = j /\ F[j + 1].kind = k /\ F[j].kind = k
          /\ OfEvent(F[j + 1])
      BY <1>1, <1>2, <2>1
    <2>4. QED
      BY <2>2, <2>3 DEF Continues, OfEvent
  <1>5. Complete(F, n, 0, n)
    <2>1. Len(F) \in 1 .. Len(F)
      BY <1>1
    <2>2. NextEvent(F[Len(F)]) = n + 1 /\ NextPiece(F[Len(F)]) = 0
      BY <1>1, <1>2, <2>1 DEF NextEvent, NextPiece
    <2>3. QED
      BY <1>1, <1>2, <2>1, <2>2 DEF Complete
  <1>6. \A j \in 1 .. Len(F) - 1 : OfEvent(F[j])
    BY <1>1, <1>2
  <1>7. Chained(F, n, 0, k, n)
    BY <1>3, <1>4, <1>6 DEF Chained
  <1>8. \A j \in 1 .. Len(F) : F[j].is = "chunk" => F[j].index + 1 = j
    <2>1. \A j \in 1 .. Len(F) : F[j].is = "chunk" => F[j].index = j - 1
      BY <1>1 DEF PieceOf
    <2>2. QED
      BY <1>1, <2>1
  <1>9. QED
    BY <1>0, <1>1, <1>2, <1>5, <1>7, <1>8 DEF InPieces, InChain

-----------------------------------------------------------------------------
(* The types the lemmas below need. *)
LEMMA StreamTyped ==
  ASSUME StreamInv, Inv
  PROVE  /\ pipe \in Seq(Frame) /\ outgoing \in Seq(Frame) /\ pipe \o outgoing \in Seq(Frame)
         /\ wire \in Seq(Nat) /\ sizes \in Seq(Sizes) /\ Len(wire) \in Nat /\ Len(sizes) \in Nat
         /\ Len(wire) <= Len(sizes) /\ Len(delivered) \in Nat /\ faults \in Nat
         /\ \A n \in 1 .. Len(wire) : sizes[n] \in Nat \ {0} /\ wire[n] \in Nat
  <1>1. /\ pipe \in Seq(Frame) /\ outgoing \in Seq(Frame) /\ sizes \in Seq(Sizes) /\ faults \in Nat
        /\ Len(delivered) \in Nat
    BY StreamAssumption DEF StreamInv, Typed, StreamTypeOK
  <1>2. wire \in Seq(Nat)
    BY DEF Inv, TypeOK
  <1>3. Len(wire) \in Nat /\ Len(sizes) \in Nat
    BY <1>1, <1>2
  <1>4. Len(wire) <= Len(sizes)
    BY <1>3 DEF StreamInv, Counted
  <1>5. ASSUME NEW n \in 1 .. Len(wire) PROVE sizes[n] \in Nat \ {0} /\ wire[n] \in Nat
    <2>1. n \in 1 .. Len(sizes)
      BY <1>3, <1>4
    <2>2. sizes[n] \in Sizes /\ wire[n] \in Nat
      BY <1>1, <1>2, <2>1
    <2>3. QED
      BY <2>2, StreamAssumption
  <1>6. pipe \o outgoing \in Seq(Frame)
    BY <1>1
  <1>7. QED
    BY <1>1, <1>2, <1>3, <1>4, <1>5, <1>6

(* What a step leaves of the histories. *)
Grows ==
  /\ Extends(wire', wire) /\ Extends(sizes', sizes)
  /\ wire' \in Seq(Nat) /\ sizes' \in Seq(Sizes) /\ Len(wire') <= Len(sizes')
  /\ step = "over" => step' = "over"
  /\ server = "crashed" => server' = "crashed"
  /\ server # "handling" => server' # "handling"

(* A sequence extends itself. *)
LEMMA Unmoved ==
  ASSUME NEW T, NEW s \in Seq(T)
  PROVE  Extends(s, s)
  BY DEF Extends

(* A sequence with one more element extends it. *)
LEMMA AppendedTo ==
  ASSUME NEW T, NEW s \in Seq(T), NEW e \in T
  PROVE  Extends(Append(s, e), s)
  <1>1. Len(Append(s, e)) = Len(s) + 1 /\ Len(s) \in Nat /\ \A i \in 1 .. Len(s) : Append(s, e)[i] = s[i]
    BY AppendProperties
  <1>2. QED
    BY <1>1 DEF Extends

(* Every step keeps the count of events, and the response open while it is *)
(* needed.                                                                 *)
LEMMA CountedKept ==
  ASSUME StreamInv, Inv, Inv', StreamNext
  PROVE  Counted'
  <1> USE DEF Attended, AtWork
  <1>1. /\ Len(sizes) = Len(wire) + (IF step \in {"append", "notify"} THEN 1 ELSE 0)
        /\ Attended /\ (AtWork \/ outgoing # <<>>) => open
    BY DEF StreamInv, Counted
  <1>2. wire \in Seq(Nat) /\ sizes \in Seq(Sizes) /\ Len(wire) \in Nat /\ Len(sizes) \in Nat
    BY StreamTyped
  <1>3. CASE Post
    BY <1>1, <1>3 DEF Post, Counted, vars
  <1>4. CASE PostRefused
    BY <1>1, <1>4 DEF PostRefused, Counted, vars
  <1>5. CASE ReadEvent
    BY <1>1, <1>5 DEF ReadEvent, Counted, vars
  <1>6. CASE ReadChunk
    BY <1>1, <1>6 DEF ReadChunk, Counted, vars
  <1>7. CASE ReadBadLine \/ ReadAnswer \/ ReadEnd \/ CtxEnds
    <2>1. UNCHANGED <<wire, sizes, step>> /\ call' \notin {"posting", "reading"}
      BY <1>7 DEF ReadBadLine, ReadAnswer, ReadEnd, CtxEnds, EndCall, vars
    <2>2. QED
      BY <1>1, <2>1 DEF Counted
  <1>8. CASE WriteFrame
    BY <1>1, <1>8 DEF WriteFrame, Counted, vars
  <1>9. CASE WriteFails
    BY <1>1, <1>9 DEF WriteFails, Counted, vars
  <1>10. CASE RecordEvent
    BY <1>1, <1>10 DEF RecordEvent, AppendEvent, Handling, Counted, streamVars
  <1>11. CASE NotifyFrames
    <2>1. Len(wire') = Len(wire) + 1
      <3>1. event.seq \in Nat
        BY DEF Inv, TypeOK, Entry
      <3>2. QED
        BY <1>2, <1>11, <3>1 DEF NotifyFrames, Notify
    <2>2. QED
      BY <1>1, <1>2, <1>11, <2>1 DEF NotifyFrames, Notify, Handling, Counted
  <1>12. CASE AnswerCall
    BY <1>1, <1>12 DEF AnswerCall, Return, Handling, Counted
  <1>13. CASE EndBody
    BY <1>1, <1>13 DEF EndBody, Counted, vars
  <1>14. CASE EmitEvent
    <2>1. PICK k \in Kinds, n \in Sizes : Produce(k) /\ sizes' = Append(sizes, n)
      BY <1>14 DEF EmitEvent
    <2>2. Len(sizes') = Len(sizes) + 1
      BY <1>2, <2>1
    <2>3. UNCHANGED <<outgoing, open, call, server>> /\ step = "idle" /\ step' = "append"
          /\ wire' = wire
      BY <1>14, <2>1 DEF EmitEvent, Produce
    <2>4. QED
      BY <1>1, <1>2, <2>2, <2>3 DEF Counted
  <1>15. CASE EndTask
    BY <1>1, <1>15 DEF EndTask, Finish, Evict, Counted, streamVars
  <1>16. CASE AnswerError
    BY <1>1, <1>16 DEF AnswerError, Handling, Counted, vars
  <1>17. CASE Crash
    BY <1>1, <1>17 DEF Crash, Counted, vars
  <1>18. CASE WireFault
    BY <1>1, <1>18 DEF WireFault, Counted, vars
  <1>19. CASE BeginCut \/ AddChunk \/ Halve
    BY <1>1, <1>19 DEF BeginCut, AddChunk, Halve, Counted, vars
  <1>20. QED
    BY <1>3, <1>4, <1>5, <1>6, <1>7, <1>8, <1>9, <1>10, <1>11, <1>12, <1>13, <1>14, <1>15,
       <1>16, <1>17, <1>18, <1>19 DEF StreamNext, Client, Writer, Handler

(* Events are only added, and what ended stays ended. *)
LEMMA HistoryGrows ==
  ASSUME StreamInv, Inv, Inv', StreamNext
  PROVE  Grows
  <1>1. /\ wire \in Seq(Nat) /\ sizes \in Seq(Sizes) /\ Len(wire) \in Nat /\ Len(sizes) \in Nat
        /\ Len(wire) <= Len(sizes)
    BY StreamTyped
  <1>2. Extends(wire, wire) /\ Extends(sizes, sizes)
    BY <1>1, Unmoved
  <1>3. Counted' /\ wire' \in Seq(Nat)
    BY CountedKept DEF Inv, TypeOK
  <1>4. /\ \/ UNCHANGED sizes
           \/ \E n \in Sizes : sizes' = Append(sizes, n)
        /\ \/ UNCHANGED wire
           \/ wire' = Append(wire, event.seq)
        /\ step = "over" => step' = "over"
        /\ server = "crashed" => server' = "crashed"
        /\ server # "handling" => server' # "handling"
    <2>1. CASE Post \/ PostRefused \/ CtxEnds \/ EndBody \/ WriteFrame \/ WriteFails \/ WireFault
               \/ BeginCut \/ AddChunk \/ Halve
      BY <2>1 DEF Post, PostRefused, CtxEnds, EndBody, WriteFrame, WriteFails, WireFault,
                  BeginCut, AddChunk, Halve, vars
    <2>2. CASE Client
      BY <2>2 DEF Client, ReadEvent, ReadChunk, ReadBadLine, ReadAnswer, ReadEnd, vars
    <2>3. CASE RecordEvent \/ EndTask
      BY <2>3 DEF RecordEvent, EndTask, AppendEvent, Finish, Evict, streamVars
    <2>4. CASE NotifyFrames \/ AnswerCall
      BY <2>4 DEF NotifyFrames, Notify, AnswerCall, Return
    <2>5. CASE EmitEvent
      BY <2>5 DEF EmitEvent, Produce
    <2>6. CASE AnswerError \/ Crash
      BY <2>6 DEF AnswerError, Crash, Handling, vars
    <2>7. QED
      BY <2>1, <2>2, <2>3, <2>4, <2>5, <2>6 DEF StreamNext, Writer, Handler
  <1>5. event.seq \in Nat
    BY DEF Inv, TypeOK, Entry
  <1>6. Extends(wire', wire)
    BY <1>1, <1>2, <1>4, <1>5, AppendedTo
  <1>7. sizes' \in Seq(Sizes) /\ Extends(sizes', sizes)
    <2>1. CASE UNCHANGED sizes
      BY <1>1, <1>2, <2>1
    <2>2. CASE \E n \in Sizes : sizes' = Append(sizes, n)
      BY <1>1, <2>2, AppendedTo
    <2>3. QED
      BY <1>4, <2>1, <2>2
  <1>8. Len(wire') <= Len(sizes')
    <2>1. Len(wire') \in Nat
      BY <1>3
    <2>2. Len(sizes') = Len(wire') + (IF step' \in {"append", "notify"} THEN 1 ELSE 0)
      BY <1>3 DEF Counted
    <2>3. QED
      BY <2>1, <2>2
  <1>9. QED
    BY <1>3, <1>4, <1>6, <1>7, <1>8 DEF Grows

-----------------------------------------------------------------------------
(* The first frame of the response. *)
LEMMA FirstFrame ==
  ASSUME StreamInv, Inv, pipe # <<>>
  PROVE  /\ Line \in Frame /\ Line = pipe[1] /\ 1 \in 1 .. Len(pipe)
         /\ Sound(Line, wire, sizes, step, server)
         /\ Tail(pipe) \in Seq(Frame) /\ Len(Tail(pipe)) = Len(pipe) - 1
         /\ \A i \in 1 .. Len(Tail(pipe)) : i + 1 \in 1 .. Len(pipe) /\ Tail(pipe)[i] = pipe[i + 1]
  <1>1. pipe \in Seq(Frame)
    BY StreamTyped
  <1>2. 1 \in 1 .. Len(pipe) /\ Line = pipe[1] /\ Line \in Frame
    BY <1>1 DEF Line
  <1>3. Sound(Line, wire, sizes, step, server)
    BY <1>2 DEF StreamInv, Framed
  <1>4. /\ Tail(pipe) \in Seq(Frame) /\ Len(Tail(pipe)) = Len(pipe) - 1
        /\ \A i \in 1 .. Len(Tail(pipe)) : Tail(pipe)[i] = pipe[i + 1]
    BY <1>1, HeadTailProperties
  <1>5. \A i \in 1 .. Len(Tail(pipe)) : i + 1 \in 1 .. Len(pipe)
    BY <1>1, <1>4
  <1>6. QED
    BY <1>2, <1>3, <1>4, <1>5

(* Frames stay sound wherever they are. *)
LEMMA SoundKept ==
  ASSUME StreamInv, Inv, Grows, NEW f, Sound(f, wire, sizes, step, server)
  PROVE  Sound(f, wire', sizes', step', server')
  <1>1. wire \in Seq(Nat) /\ sizes \in Seq(Sizes) /\ Len(wire) <= Len(sizes)
    BY StreamTyped
  <1>2. QED
    BY <1>1, SoundStays DEF Grows

(* A step that moves frames, or writes a sound one, keeps Framed. *)
LEMMA FramedKept ==
  ASSUME StreamInv, Inv, Grows,
         \A i \in 1 .. Len(pipe') :
           \/ \E j \in 1 .. Len(pipe) : pipe'[i] = pipe[j]
           \/ \E j \in 1 .. Len(outgoing) : pipe'[i] = outgoing[j]
           \/ Sound(pipe'[i], wire', sizes', step', server'),
         \A i \in 1 .. Len(outgoing') :
           \/ \E j \in 1 .. Len(outgoing) : outgoing'[i] = outgoing[j]
           \/ Sound(outgoing'[i], wire', sizes', step', server')
  PROVE  Framed'
  <1>1. \A j \in 1 .. Len(pipe) : Sound(pipe[j], wire', sizes', step', server')
    BY SoundKept DEF StreamInv, Framed
  <1>2. \A j \in 1 .. Len(outgoing) : Sound(outgoing[j], wire', sizes', step', server')
    BY SoundKept DEF StreamInv, Framed
  <1>3. QED
    BY <1>1, <1>2 DEF Framed

(* The event at hand, when a handler is about to notify. *)
LEMMA EventAtHand ==
  ASSUME StreamInv, Inv, step = "notify"
  PROVE  \E n \in Nat \ {0}, z \in Sizes :
           /\ n = Len(sizes) /\ z = sizes[Len(sizes)] /\ z \in Nat \ {0} /\ n = Len(wire) + 1
           /\ AtHand = Bytes(n, z) /\ Len(AtHand) = z
           /\ TooLarge(EventFrame) <=> ~(Envelope + z <= MaxMessageSize)
  <1>1. sizes \in Seq(Sizes) /\ Len(wire) \in Nat /\ Len(sizes) = Len(wire) + 1
    BY StreamTyped DEF StreamInv, Counted
  <1>2. PICK n \in Nat \ {0} : n = Len(sizes) /\ n = Len(wire) + 1
    BY <1>1
  <1>3. PICK z \in Sizes : z = sizes[n]
    BY <1>1, <1>2
  <1>4. z \in Nat \ {0} /\ Envelope \in Nat /\ MaxMessageSize \in Nat
    BY <1>3, StreamAssumption
  <1>5. AtHand = Bytes(n, z) /\ Len(AtHand) = z
    <2>1. AtHand = Bytes(n, z)
      BY <1>2, <1>3 DEF AtHand, Payload, Bytes
    <2>2. QED
      BY <1>4, <2>1, BytesType
  <1>6. TooLarge(EventFrame) <=> ~(Envelope + z <= MaxMessageSize)
    BY <1>4, <1>5 DEF TooLarge, EventFrame, FrameSize
  <1>7. QED
    BY <1>2, <1>3, <1>4, <1>5, <1>6

(* A loop under way: what it has made, and what it is about to make.       *)
LEMMA InLoop ==
  ASSUME StreamInv, Inv, Cutting
  PROVE  \E n \in Nat \ {0}, z \in Sizes, c \in 1 .. ChunkPayload, i \in Nat :
           /\ n = Len(sizes) /\ z = sizes[Len(sizes)] /\ z \in Nat \ {0}
           /\ step = "notify" /\ ~(Envelope + z <= MaxMessageSize)
           /\ c \in Nat \ {0} /\ LoopAt(n, z, c, i)
           /\ AtHand = Bytes(n, z) /\ Len(AtHand) = z
           /\ Ceiling(z, c) \in Nat \ {0} /\ i * c \in Nat
           /\ More <=> i < Ceiling(z, c)
           /\ More => /\ i * c < z
                      /\ ChunkFrame = LoopFrame(n, z, c, event.seq, event.kind, i)
                      /\ TooLarge(ChunkFrame) <=> ~PieceFits(z, c, i)
  <1>1. cut # NoCut
    BY DEF Cutting, NoCut
  <1>2. /\ step = "notify" /\ ~(Envelope + sizes[Len(sizes)] <= MaxMessageSize)
        /\ \E c \in 1 .. ChunkPayload, i \in Nat : LoopAt(Len(sizes), sizes[Len(sizes)], c, i)
    BY <1>1 DEF StreamInv, Looped
  <1>3. PICK n \in Nat \ {0}, z \in Sizes :
          /\ n = Len(sizes) /\ z = sizes[Len(sizes)] /\ z \in Nat \ {0}
          /\ AtHand = Bytes(n, z) /\ Len(AtHand) = z
    BY <1>2, EventAtHand
  <1>4. PICK c \in 1 .. ChunkPayload, i \in Nat : LoopAt(n, z, c, i)
    BY <1>2, <1>3
  <1>5. c \in Nat \ {0} /\ z \in Nat \ {0}
    BY <1>3, <1>4, StreamAssumption
  <1>6. /\ cut.size = c /\ cut.total = Ceiling(z, c) /\ cut.index = i /\ cut.start = i * c
        /\ i <= Ceiling(z, c)
    BY <1>4 DEF LoopAt
  <1>7. PICK K \in Nat \ {0} : K = Ceiling(z, c) /\ z <= K * c /\ (K - 1) * c < z
    BY <1>5, CeilingFacts
  <1>8. i * c \in Nat
    <2>1. 0 * c <= i * c /\ 0 * c = 0 /\ i * c \in Int
      BY <1>5, Product, SMT
    <2>2. QED
      BY <2>1
  <1>9. More <=> i * c < z
    BY <1>3, <1>5, <1>6 DEF More, Cutting
  <1>10. i * c < z <=> i < K
    <2>1. ASSUME i < K PROVE i * c < z
      <3>1. i <= K - 1
        BY <1>7, <2>1
      <3>2. i * c <= (K - 1) * c /\ (K - 1) * c \in Int
        BY <1>5, <1>7, <3>1, Product
      <3>3. QED
        BY <1>5, <1>7, <1>8, <3>2
    <2>2. ASSUME i >= K PROVE ~(i * c < z)
      <3>1. K * c <= i * c /\ K * c \in Int
        BY <1>5, <1>7, <2>2, Product
      <3>2. QED
        BY <1>5, <1>7, <1>8, <3>1
    <2>3. QED
      BY <1>7, <2>1, <2>2
  <1>11. ASSUME More
         PROVE  /\ ChunkFrame = LoopFrame(n, z, c, event.seq, event.kind, i)
                /\ TooLarge(ChunkFrame) <=> ~PieceFits(z, c, i)
    <2>1. (i + 1) * c = i * c + c
      BY <1>5, <1>8, SMT
    <2>2. ChunkFrame = LoopFrame(n, z, c, event.seq, event.kind, i)
      BY <1>3, <1>6, <2>1 DEF ChunkFrame, LoopFrame
    <2>3. n \in Nat /\ i * c < z
      BY <1>9, <1>11
    <2>4. QED
      BY <1>5, <2>2, <2>3, LoopPiece
  <1>12. QED
    BY <1>2, <1>3, <1>4, <1>5, <1>7, <1>8, <1>9, <1>10, <1>11

(* What the notifier hands over. *)
LEMMA LoopEnds ==
  ASSUME StreamInv, Inv, NotifyFrames
  PROVE  LET n == Len(sizes)
             z == sizes[Len(sizes)]
         IN /\ outgoing' = Frames(n, z, event.seq, event.kind)
            /\ Travels(z)
  <1>1. step = "notify"
    BY DEF NotifyFrames, Notify
  <1>2. PICK n \in Nat \ {0}, z \in Sizes :
          /\ n = Len(sizes) /\ z = sizes[Len(sizes)] /\ z \in Nat \ {0}
          /\ AtHand = Bytes(n, z)
          /\ TooLarge(EventFrame) <=> ~(Envelope + z <= MaxMessageSize)
    BY <1>1, EventAtHand
  <1>3. CASE ~Cutting /\ ~TooLarge(EventFrame) /\ outgoing' = <<EventFrame>>
    BY <1>2, <1>3 DEF Frames, EventFrame, Travels
  <1>4. CASE Cutting /\ ~More /\ outgoing' = cut.frames
    <2>1. PICK c \in 1 .. ChunkPayload, i \in Nat :
            /\ ~(Envelope + z <= MaxMessageSize)
            /\ LoopAt(n, z, c, i) /\ Ceiling(z, c) \in Nat \ {0} /\ ~(i < Ceiling(z, c))
      BY <1>2, <1>4, InLoop
    <2>2. /\ i = Ceiling(z, c) /\ Settles(z)[c] = ChunkSize(z)
          /\ cut.frames = LoopFrames(n, z, c, event.seq, event.kind, i)
          /\ \A j \in 0 .. i - 1 : PieceFits(z, c, j)
      BY <2>1 DEF LoopAt
    <2>3. AllFit(z, c)
      BY <2>2 DEF AllFit
    <2>4. c = ChunkSize(z)
      BY <2>2, <2>3, ChunkSizeIs
    <2>5. QED
      BY <1>2, <1>4, <2>1, <2>2, <2>3, <2>4 DEF Frames, ChunkCount, Travels
  <1>5. QED
    BY <1>3, <1>4 DEF NotifyFrames

(* One frame more. *)
LEMMA LoopGrows ==
  ASSUME NEW n, NEW z, NEW c, NEW s, NEW k, NEW i \in Nat
  PROVE  Append(LoopFrames(n, z, c, s, k, i), LoopFrame(n, z, c, s, k, i))
           = LoopFrames(n, z, c, s, k, i + 1)
  <1> DEFINE f(j) == LoopFrame(n, z, c, s, k, j)
             T == {f(j) : j \in 0 .. i}
             fs == [j \in 1 .. i |-> f(j - 1)]
             t == [j \in 1 .. i + 1 |-> f(j - 1)]
  <1>1. \A j \in 1 .. i + 1 : f(j - 1) \in T
    <2>1. \A j \in 1 .. i + 1 : j - 1 \in 0 .. i
      OBVIOUS
    <2>2. QED
      BY <2>1
  <1>2. f(i) \in T
    OBVIOUS
  <1> HIDE DEF f
  <1>3. fs \in Seq(T) /\ Len(fs) = i /\ \A j \in 1 .. i : fs[j] = f(j - 1)
    <2>1. \A j \in 1 .. i : j \in 1 .. i + 1
      OBVIOUS
    <2>2. fs \in [1 .. i -> T]
      BY <1>1, <2>1
    <2>3. QED
      BY <2>2
  <1>4. t \in Seq(T) /\ Len(t) = i + 1 /\ \A j \in 1 .. i + 1 : t[j] = f(j - 1)
    <2>1. t \in [1 .. i + 1 -> T]
      BY <1>1
    <2>2. QED
      BY <2>1
  <1> HIDE DEF T, fs, t
  <1>5. PICK a : a = Append(fs, f(i))
    OBVIOUS
  <1>6. /\ a \in Seq(T) /\ Len(a) = i + 1 /\ a[i + 1] = f(i)
        /\ \A j \in 1 .. i : a[j] = fs[j]
    BY <1>2, <1>3, <1>5, AppendProperties
  <1>7. \A j \in 1 .. i + 1 : a[j] = t[j]
    <2>1. \A j \in 1 .. i + 1 : j \in 1 .. i \/ (j = i + 1 /\ j - 1 = i)
      OBVIOUS
    <2>2. QED
      BY <1>3, <1>4, <1>6, <2>1
  <1>8. a = t
    BY <1>4, <1>6, <1>7, SeqEqual
  <1>9. QED
    BY <1>5, <1>8 DEF LoopFrames, fs, t, f

(* Every step keeps Looped. *)
LEMMA LoopStep ==
  ASSUME StreamInv, Inv, StreamNext
  PROVE  Looped'
  <1>1. Looped
    BY DEF StreamInv
  <1>2. CASE UNCHANGED <<cut, sizes, step, event>>
    BY <1>1, <1>2 DEF Looped, LoopAt
  <1>3. CASE cut' = NoCut
    BY <1>3 DEF Looped
  <1>4. CASE step # "notify" /\ UNCHANGED cut
    BY <1>1, <1>3, <1>4 DEF Looped
  <1>5. CASE BeginCut
    <2>1. /\ step = "notify" /\ TooLarge(EventFrame) /\ cut' = CutFrom(ChunkPayload)
          /\ UNCHANGED <<sizes, step, event>>
      BY <1>5 DEF BeginCut, vars
    <2>2. PICK n \in Nat \ {0}, z \in Sizes :
            /\ n = Len(sizes) /\ z = sizes[Len(sizes)] /\ z \in Nat \ {0}
            /\ Len(AtHand) = z /\ ~(Envelope + z <= MaxMessageSize)
      BY <2>1, EventAtHand
    <2>3. ChunkPayload \in Nat \ {0} /\ ChunkPayload \in 1 .. ChunkPayload
      BY StreamAssumption
    <2>4. LoopFrames(n, z, ChunkPayload, event.seq, event.kind, 0) = <<>>
      BY DEF LoopFrames
    <2>5. 0 * ChunkPayload = 0 /\ 0 <= Ceiling(z, ChunkPayload) /\ 0 .. 0 - 1 = {}
      <3>1. Ceiling(z, ChunkPayload) \in Nat \ {0}
        BY <2>2, <2>3, CeilingFacts
      <3>2. QED
        BY <2>3, <3>1
    <2>6. LoopAt(n, z, ChunkPayload, 0)'
      BY <2>1, <2>2, <2>4, <2>5 DEF LoopAt, CutFrom, ChunkSize
    <2>7. QED
      BY <2>1, <2>2, <2>3, <2>6 DEF Looped
  <1>6. CASE AddChunk
    <2>1. /\ More /\ Cutting /\ ~TooLarge(ChunkFrame) /\ UNCHANGED <<sizes, step, event>>
          /\ cut' = [cut EXCEPT !.index = @ + 1, !.start = @ + cut.size,
                               !.frames = Append(@, ChunkFrame)]
      BY <1>6 DEF AddChunk, vars, More
    <2>2. PICK n \in Nat \ {0}, z \in Sizes, c \in 1 .. ChunkPayload, i \in Nat :
            /\ n = Len(sizes) /\ z = sizes[Len(sizes)]
            /\ step = "notify" /\ ~(Envelope + z <= MaxMessageSize)
            /\ c \in Nat \ {0} /\ LoopAt(n, z, c, i)
            /\ Ceiling(z, c) \in Nat \ {0} /\ i < Ceiling(z, c) /\ i * c \in Nat
            /\ ChunkFrame = LoopFrame(n, z, c, event.seq, event.kind, i)
            /\ PieceFits(z, c, i)
      BY <2>1, InLoop
    <2>3. PICK fs : fs = LoopFrames(n, z, c, event.seq, event.kind, i)
      OBVIOUS
    <2>4. cut = [size |-> c, total |-> Ceiling(z, c), index |-> i, start |-> i * c, frames |-> fs]
      BY <2>2, <2>3 DEF LoopAt
    <2>5. cut' = [size |-> c, total |-> Ceiling(z, c), index |-> i + 1, start |-> i * c + c,
                  frames |-> Append(fs, ChunkFrame)]
      BY <2>1, <2>4
    <2>6. Append(fs, ChunkFrame) = LoopFrames(n, z, c, event.seq, event.kind, i + 1)
      BY <2>2, <2>3, LoopGrows
    <2>7. (i + 1) * c = i * c + c
      BY <2>2, SMT
    <2>8. i + 1 <= Ceiling(z, c) /\ \A j \in 0 .. (i + 1) - 1 : PieceFits(z, c, j)
      BY <2>2 DEF LoopAt
    <2>9. Settles(z)[c] = ChunkSize(z)
      BY <2>2 DEF LoopAt
    <2>10. LoopAt(n, z, c, i + 1)'
      BY <2>1, <2>5, <2>6, <2>7, <2>8, <2>9 DEF LoopAt
    <2>11. i + 1 \in Nat
      BY <2>2
    <2>12. QED
      BY <2>1, <2>2, <2>10, <2>11 DEF Looped
  <1>7. CASE Halve
    <2>1. /\ More /\ Cutting /\ TooLarge(ChunkFrame) /\ cut.size > 1
          /\ cut' = CutFrom(cut.size \div 2) /\ UNCHANGED <<sizes, step, event>>
      BY <1>7 DEF Halve, Halved, vars, More
    <2>2. PICK n \in Nat \ {0}, z \in Sizes, c \in 1 .. ChunkPayload, i \in Nat :
            /\ n = Len(sizes) /\ z = sizes[Len(sizes)] /\ z \in Nat \ {0}
            /\ step = "notify" /\ ~(Envelope + z <= MaxMessageSize)
            /\ LoopAt(n, z, c, i) /\ Len(AtHand) = z
            /\ Ceiling(z, c) \in Nat \ {0} /\ i < Ceiling(z, c)
            /\ ~PieceFits(z, c, i)
      BY <2>1, InLoop
    <2>3. cut.size = c /\ Settles(z)[c] = ChunkSize(z) /\ c # 1
      BY <2>1, <2>2 DEF LoopAt
    <2>4. ~AllFit(z, c)
      BY <2>2 DEF AllFit
    <2>5. PICK h \in 1 .. ChunkPayload : h = c \div 2 /\ Settles(z)[h] = ChunkSize(z)
      BY <2>3, <2>4, ChunkSizeIs
    <2>6. h \in Nat \ {0}
      BY <2>5, StreamAssumption
    <2>7. 0 * h = 0 /\ 0 <= Ceiling(z, h) /\ 0 .. 0 - 1 = {}
      <3>1. Ceiling(z, h) \in Nat \ {0}
        BY <2>2, <2>6, CeilingFacts
      <3>2. QED
        BY <2>6, <3>1
    <2>8. LoopFrames(n, z, h, event.seq, event.kind, 0) = <<>>
      BY DEF LoopFrames
    <2>9. LoopAt(n, z, h, 0)'
      BY <2>1, <2>2, <2>3, <2>5, <2>7, <2>8 DEF LoopAt, CutFrom
    <2>10. QED
      BY <2>1, <2>2, <2>5, <2>9 DEF Looped
  <1>8. CASE Post \/ PostRefused \/ CtxEnds \/ WriteFrame \/ WriteFails \/ EndBody
    BY <1>2, <1>8 DEF Post, PostRefused, CtxEnds, WriteFrame, WriteFails, EndBody, vars
  <1>9. CASE Client
    BY <1>2, <1>9 DEF Client, ReadEvent, ReadChunk, ReadBadLine, ReadAnswer, ReadEnd, vars
  <1>10. CASE EndTask \/ AnswerError \/ WireFault
    BY <1>2, <1>10 DEF EndTask, Finish, Evict, AnswerError, WireFault, streamVars, vars
  <1>11. CASE RecordEvent
    BY <1>4, <1>11 DEF RecordEvent, AppendEvent, streamVars
  <1>12. CASE EmitEvent
    BY <1>4, <1>12 DEF EmitEvent, Produce
  <1>13. CASE AnswerCall
    BY <1>4, <1>13 DEF AnswerCall, Return
  <1>14. CASE NotifyFrames \/ Crash
    BY <1>3, <1>14 DEF NotifyFrames, Crash
  <1>15. QED
    BY <1>5, <1>6, <1>7, <1>8, <1>9, <1>10, <1>11, <1>12, <1>13, <1>14
       DEF StreamNext, Writer, Handler

(* The loop never comes to a piece of one byte that is too large. *)
LEMMA RoomForOne ==
  ASSUME StreamInv, Inv, More, TooLarge(ChunkFrame)
  PROVE  cut.size > 1
  <1>1. Cutting
    BY DEF More
  <1>2. PICK n \in Nat \ {0}, z \in Sizes, c \in 1 .. ChunkPayload, i \in Nat :
          /\ z \in Nat \ {0} /\ c \in Nat \ {0} /\ LoopAt(n, z, c, i) /\ i < Ceiling(z, c)
          /\ ~PieceFits(z, c, i)
    BY <1>1, InLoop
  <1>3. cut.size = c
    BY <1>2 DEF LoopAt
  <1>4. ASSUME c = 1 PROVE FALSE
    <2>1. Ceiling(z, 1) = z /\ i \in 0 .. z /\ z \in 0 .. z /\ i + 1 <= z
      BY <1>2, <1>4, SMT DEF Ceiling
    <2>2. PieceLen(z, 1, i) = 1
      BY <1>2, <2>1, SMT DEF PieceLen, Least
    <2>3. Ceiling(1, 3) = 1
      BY SMT DEF Ceiling
    <2>4. /\ Digits(i) \in Nat /\ Digits(z) \in Nat
          /\ Envelope + Digits(i) + Digits(z) + 4 <= MaxMessageSize
      BY <1>2, <2>1, RoomAssumption
    <2>5. Envelope \in Nat /\ MaxMessageSize \in Nat
      BY StreamAssumption
    <2>6. PieceFits(z, 1, i)
      BY <2>1, <2>2, <2>3, <2>4, <2>5 DEF PieceFits
    <2>7. QED
      BY <1>2, <1>4, <2>6
  <1>5. QED
    BY <1>2, <1>3, <1>4

(* What Notify writes: the frames of the next event. *)
LEMMA FramesAreSound ==
  ASSUME StreamInv, Inv, Inv', Grows, NotifyFrames
  PROVE  /\ outgoing = <<>> /\ AtWork
         /\ outgoing' \in Seq(Frame) /\ outgoing' # <<>>
         /\ Len(wire) \in Nat /\ Len(wire') = Len(wire) + 1
         /\ Chained(outgoing', Len(wire) + 1, 0, event.kind, Len(wire'))
         /\ Complete(outgoing', Len(wire) + 1, 0, Len(wire'))
         /\ \A i \in 1 .. Len(outgoing') :
              /\ Sound(outgoing'[i], wire', sizes', step', server')
              /\ outgoing'[i].is = "chunk" =>
                   /\ outgoing'[i].index + 1 = i /\ outgoing'[i].total = Len(outgoing')
                   /\ outgoing'[Len(outgoing')].is = "chunk"
                   /\ outgoing'[i].payload # <<>>
  <1>1. /\ wire \in Seq(Nat) /\ sizes \in Seq(Sizes) /\ Len(wire) \in Nat /\ Len(sizes) \in Nat
    BY StreamTyped
  <1>2. event.seq \in Nat /\ event.kind \in AnyKind
    BY DEF Inv, TypeOK, Entry, AnyKind
  <1>3. step = "notify" /\ wire' = Append(wire, event.seq) /\ sizes' = sizes /\ outgoing = <<>>
        /\ server = "handling"
    BY DEF NotifyFrames, Notify, Handling
  <1>4. PICK n \in Nat : n = Len(wire) + 1
    BY <1>1
  <1>5. Len(sizes) = n /\ n \in 1 .. Len(sizes)
    BY <1>1, <1>3, <1>4 DEF StreamInv, Counted
  <1>6. PICK z \in Nat \ {0} : z = sizes[n]
    <2>1. sizes[n] \in Sizes
      BY <1>1, <1>5
    <2>2. sizes[n] \in Nat \ {0}
      BY <2>1, StreamAssumption
    <2>3. QED
      BY <2>2
  <1>7. Len(wire') = n /\ wire'[n] = event.seq
    BY <1>1, <1>2, <1>3, <1>4
  <1>8. /\ outgoing' = Frames(n, z, event.seq, event.kind)
        /\ Travels(z)
    BY <1>5, <1>6, LoopEnds
  <1>10. PICK s \in Nat, k \in AnyKind : s = event.seq /\ k = event.kind
    BY <1>2
  <1>11. PICK F \in Seq(Frame) : InChain(F, n, z, s, k)
    BY <1>8, FramesChained
  <1>12. ASSUME NEW i \in 1 .. Len(F) PROVE Sound(F[i], wire', sizes', step', server')
    <2>1. OfEvent(F[i]) /\ EventOf(F[i]) = n /\ IsFrame(F[i], n, z, s)
      BY <1>11 DEF InChain
    <2>2. n \in 1 .. Len(wire')
      BY <1>4, <1>7, <1>1
    <2>3. QED
      BY <1>3, <1>6, <1>7, <1>10, <2>1, <2>2 DEF Sound, Genuine, OfEvent
  <1>13. AtWork
    BY <1>3 DEF AtWork
  <1>14. outgoing' = F
    BY <1>8, <1>10, <1>11 DEF InChain
  <1>15. QED
    BY <1>1, <1>3, <1>4, <1>7, <1>10, <1>11, <1>12, <1>13, <1>14 DEF InChain

(* Every step keeps Framed. *)
LEMMA FramedStep ==
  ASSUME StreamInv, Inv, Inv', StreamNext
  PROVE  Framed'
  <1>1. Grows
    BY HistoryGrows
  <1>2. pipe \in Seq(Frame) /\ outgoing \in Seq(Frame) /\ Len(pipe) \in Nat
    BY StreamTyped
  <1>3. CASE UNCHANGED <<pipe, outgoing>>
    BY <1>1, <1>3, FramedKept
  <1>4. CASE pipe' = <<>> /\ UNCHANGED outgoing
    <2>1. Len(pipe') = 0
      BY <1>4
    <2>2. 1 .. Len(pipe') = {}
      BY <2>1
    <2>3. QED
      BY <1>1, <1>4, <2>2, FramedKept
  <1>5. CASE pipe # <<>> /\ pipe' = Tail(pipe) /\ UNCHANGED outgoing
    <2>1. \A i \in 1 .. Len(pipe') : \E j \in 1 .. Len(pipe) : pipe'[i] = pipe[j]
      BY <1>5, FirstFrame
    <2>2. QED
      BY <1>1, <1>5, <2>1, FramedKept
  <1>6. CASE WriteFrame
    <2>1. outgoing # <<>> /\ pipe' = Append(pipe, outgoing[1]) /\ outgoing' = Tail(outgoing)
      BY <1>2, <1>6 DEF WriteFrame
    <2>2. 1 \in 1 .. Len(outgoing) /\ outgoing[1] \in Frame
      BY <1>2, <2>1
    <2>3. ASSUME NEW i \in 1 .. Len(pipe')
          PROVE  \/ \E j \in 1 .. Len(pipe) : pipe'[i] = pipe[j]
                 \/ \E j \in 1 .. Len(outgoing) : pipe'[i] = outgoing[j]
      <3>1. /\ Len(pipe') = Len(pipe) + 1 /\ pipe'[Len(pipe) + 1] = outgoing[1]
            /\ \A j \in 1 .. Len(pipe) : pipe'[j] = pipe[j]
        BY <1>2, <2>1, <2>2, AppendProperties
      <3>2. i \in 1 .. Len(pipe) \/ i = Len(pipe) + 1
        BY <1>2, <2>3, <3>1
      <3>3. QED
        BY <2>2, <3>1, <3>2
    <2>4. ASSUME NEW i \in 1 .. Len(outgoing')
          PROVE  \E j \in 1 .. Len(outgoing) : outgoing'[i] = outgoing[j]
      <3>1. /\ Len(Tail(outgoing)) = Len(outgoing) - 1
            /\ \A j \in 1 .. Len(Tail(outgoing)) : Tail(outgoing)[j] = outgoing[j + 1]
        BY <1>2, <2>1, HeadTailProperties
      <3>2. i + 1 \in 1 .. Len(outgoing) /\ outgoing'[i] = outgoing[i + 1]
        BY <1>2, <2>1, <2>4, <3>1
      <3>3. QED
        BY <3>2
    <2>5. QED
      BY <1>1, <2>3, <2>4, FramedKept
  <1>7. CASE WriteFails
    <2>1. UNCHANGED pipe /\ outgoing' = <<>>
      BY <1>7 DEF WriteFails
    <2>2. 1 .. Len(outgoing') = {}
      BY <2>1
    <2>3. QED
      BY <1>1, <2>1, <2>2, FramedKept
  <1>8. CASE NotifyFrames
    <2>1. UNCHANGED pipe
      BY <1>8 DEF NotifyFrames
    <2>2. QED
      BY <1>1, <1>8, <2>1, FramesAreSound, FramedKept
  <1>9. CASE AnswerCall
    <2>1. UNCHANGED pipe /\ outgoing' = <<[is |-> "answer"]>> /\ step' = "over"
      BY <1>9 DEF AnswerCall, Return
    <2>2. \A i \in 1 .. Len(outgoing') : outgoing'[i] = [is |-> "answer"]
      BY <2>1
    <2>3. Sound([is |-> "answer"], wire', sizes', step', server')
      BY <2>1 DEF Sound, Genuine, OfEvent
    <2>4. QED
      BY <1>1, <2>1, <2>2, <2>3, FramedKept
  <1>10. CASE AnswerError
    <2>1. UNCHANGED pipe /\ outgoing' = <<[is |-> "error"]>> /\ server' = "refusing"
      BY <1>10 DEF AnswerError
    <2>2. \A i \in 1 .. Len(outgoing') : outgoing'[i] = [is |-> "error"]
      BY <2>1
    <2>3. Sound([is |-> "error"], wire', sizes', step', server')
      BY <2>1 DEF Sound, Genuine, OfEvent
    <2>4. QED
      BY <1>1, <2>1, <2>2, <2>3, FramedKept
  <1>11. CASE Crash
    <2>1. PICK a \in 0 .. Len(pipe) : \/ pipe' = SubSeq(pipe, 1, a)
                                      \/ pipe' = Append(SubSeq(pipe, 1, a), [is |-> "cut"])
      BY <1>11 DEF Crash
    <2>2. outgoing' = <<>> /\ server' = "crashed"
      BY <1>11 DEF Crash
    <2>3. 1 .. Len(outgoing') = {}
      BY <2>2
    <2>4. PICK p : p = SubSeq(pipe, 1, a)
      OBVIOUS
    <2>5. p \in Seq(Frame) /\ Len(p) = a /\ \A i \in 1 .. a : i \in 1 .. Len(pipe) /\ p[i] = pipe[i]
      BY <1>2, <2>1, <2>4
    <2>6. [is |-> "cut"] \in Frame /\ Sound([is |-> "cut"], wire', sizes', step', server')
      BY <2>2 DEF Frame, Sound, Genuine, OfEvent
    <2>7. ASSUME NEW i \in 1 .. Len(pipe')
          PROVE  \/ \E j \in 1 .. Len(pipe) : pipe'[i] = pipe[j]
                 \/ Sound(pipe'[i], wire', sizes', step', server')
      <3>1. CASE pipe' = p
        BY <2>5, <2>7, <3>1
      <3>2. CASE pipe' = Append(p, [is |-> "cut"])
        <4>1. Len(pipe') = a + 1 /\ pipe'[a + 1] = [is |-> "cut"] /\ \A j \in 1 .. a : pipe'[j] = p[j]
          BY <2>5, <2>6, <3>2, AppendProperties
        <4>2. i \in 1 .. a \/ i = a + 1
          BY <2>1, <2>7, <4>1
        <4>3. QED
          BY <2>5, <2>6, <4>1, <4>2
      <3>3. QED
        BY <2>1, <2>4, <3>1, <3>2
    <2>8. QED
      BY <1>1, <2>3, <2>7, FramedKept
  <1>12. CASE WireFault
    <2>1. PICK i \in 1 .. Len(pipe) :
            \/ pipe' = SubSeq(pipe, 1, i - 1) \o SubSeq(pipe, i + 1, Len(pipe))
            \/ pipe' = SubSeq(pipe, 1, i) \o SubSeq(pipe, i, Len(pipe))
            \/ i < Len(pipe) /\ pipe' = [pipe EXCEPT ![i] = pipe[i + 1], ![i + 1] = pipe[i]]
      BY <1>12 DEF WireFault
    <2>2. UNCHANGED outgoing
      BY <1>12 DEF WireFault
    <2>3. ASSUME NEW a \in 0 .. Len(pipe), NEW b \in 1 .. Len(pipe) + 1,
                 pipe' = SubSeq(pipe, 1, a) \o SubSeq(pipe, b, Len(pipe))
          PROVE  \A k \in 1 .. Len(pipe') : \E j \in 1 .. Len(pipe) : pipe'[k] = pipe[j]
      <3>1. PICK p, q : p = SubSeq(pipe, 1, a) /\ q = SubSeq(pipe, b, Len(pipe))
        OBVIOUS
      <3>2. p \in Seq(Frame) /\ Len(p) = a /\ \A k \in 1 .. a : k \in 1 .. Len(pipe) /\ p[k] = pipe[k]
        BY <1>2, <2>3, <3>1
      <3>3. /\ q \in Seq(Frame) /\ Len(q) = Len(pipe) - b + 1
            /\ \A k \in 1 .. Len(pipe) - b + 1 : q[k] = pipe[b + k - 1]
        <4>1. \A k \in b .. Len(pipe) : pipe[k] \in Frame
          BY <1>2
        <4>2. b \in Int /\ Len(pipe) \in Int
          BY <1>2
        <4>3. Len(q) = (IF b <= Len(pipe) THEN Len(pipe) - b + 1 ELSE 0) /\ q \in Seq(Frame)
              /\ \A k \in 1 .. Len(pipe) - b + 1 : q[k] = pipe[b + k - 1]
          BY <3>1, <4>1, <4>2, SubSeqProperties
        <4>4. (IF b <= Len(pipe) THEN Len(pipe) - b + 1 ELSE 0) = Len(pipe) - b + 1
          <5>1. b <= Len(pipe) \/ b = Len(pipe) + 1
            BY <1>2
          <5>2. QED
            BY <1>2, <5>1
        <4>5. QED
          BY <4>3, <4>4
      <3>4. /\ Len(pipe') = a + Len(q)
            /\ \A k \in 1 .. a + Len(q) : pipe'[k] = IF k <= a THEN p[k] ELSE q[k - a]
        <4>1. pipe' = p \o q
          BY <2>3, <3>1
        <4>2. QED
          BY <3>2, <3>3, <4>1, ConcatProperties
      <3>5. SUFFICES ASSUME NEW k \in 1 .. Len(pipe')
                     PROVE  \E j \in 1 .. Len(pipe) : pipe'[k] = pipe[j]
        OBVIOUS
      <3>6. CASE k <= a
        <4>1. k \in 1 .. a
          BY <1>2, <2>3, <3>3, <3>4, <3>6
        <4>2. QED
          BY <3>2, <3>4, <3>6, <4>1
      <3>7. CASE k > a
        <4>1. PICK h : h = k - a
          OBVIOUS
        <4>2. h \in 1 .. Len(pipe) - b + 1 /\ ~(k <= a) /\ k \in 1 .. a + Len(q)
          <5>1. Len(q) = Len(pipe) - b + 1 /\ Len(pipe') = a + Len(q)
            BY <3>3, <3>4
          <5>2. a \in Nat /\ b \in Nat /\ Len(pipe) \in Nat /\ k \in 1 .. a + (Len(pipe) - b + 1)
            <6>1. a + Len(q) = a + (Len(pipe) - b + 1)
              BY <5>1
            <6>2. k \in 1 .. a + (Len(pipe) - b + 1)
              BY <3>5, <5>1, <6>1
            <6>3. QED
              BY <1>2, <2>3, <6>2
          <5>3. QED
            BY <3>7, <4>1, <5>1, <5>2
        <4>3. pipe'[k] = pipe[b + h - 1] /\ b + h - 1 \in 1 .. Len(pipe)
          BY <1>2, <2>3, <3>3, <3>4, <4>1, <4>2
        <4>4. QED
          BY <4>3
      <3>8. k \in Int /\ a \in Int
        BY <2>3, <3>5
      <3>9. QED
        BY <3>6, <3>7, <3>8
    <2>4. CASE pipe' = SubSeq(pipe, 1, i - 1) \o SubSeq(pipe, i + 1, Len(pipe))
      <3>1. i - 1 \in 0 .. Len(pipe) /\ i + 1 \in 1 .. Len(pipe) + 1
        BY <1>2
      <3>2. QED
        BY <1>1, <2>2, <2>3, <2>4, <3>1, FramedKept
    <2>5. CASE pipe' = SubSeq(pipe, 1, i) \o SubSeq(pipe, i, Len(pipe))
      <3>1. i \in 0 .. Len(pipe) /\ i \in 1 .. Len(pipe) + 1
        BY <1>2
      <3>2. QED
        BY <1>1, <2>2, <2>3, <2>5, <3>1, FramedKept
    <2>6. CASE i < Len(pipe) /\ pipe' = [pipe EXCEPT ![i] = pipe[i + 1], ![i + 1] = pipe[i]]
      <3>1. i + 1 \in 1 .. Len(pipe) /\ Len(pipe') = Len(pipe)
        BY <1>2, <2>6
      <3>2. \A k \in 1 .. Len(pipe') : \E j \in 1 .. Len(pipe) : pipe'[k] = pipe[j]
        BY <1>2, <2>6, <3>1
      <3>3. QED
        BY <1>1, <2>2, <3>2, FramedKept
    <2>7. QED
      BY <2>1, <2>4, <2>5, <2>6
  <1>13. CASE Post \/ PostRefused \/ RecordEvent \/ EndBody \/ EmitEvent \/ EndTask
              \/ BeginCut \/ AddChunk \/ Halve
    <2>1. UNCHANGED <<pipe, outgoing>>
      BY <1>13 DEF Post, PostRefused, RecordEvent, EndBody, EmitEvent, EndTask, BeginCut, AddChunk,
                   Halve, streamVars
    <2>2. QED
      BY <1>3, <2>1
  <1>14. CASE ReadEvent \/ ReadChunk
    <2>1. pipe # <<>> /\ pipe' = Tail(pipe) /\ UNCHANGED outgoing
      BY <1>14 DEF ReadEvent, ReadChunk, Reads
    <2>2. QED
      BY <1>5, <2>1
  <1>15. CASE ReadBadLine \/ ReadAnswer \/ ReadEnd \/ CtxEnds
    <2>1. pipe' = <<>> /\ UNCHANGED outgoing
      BY <1>15 DEF ReadBadLine, ReadAnswer, ReadEnd, CtxEnds, EndCall
    <2>2. QED
      BY <1>4, <2>1
  <1>16. QED
    BY <1>6, <1>7, <1>8, <1>9, <1>10, <1>11, <1>12, <1>13, <1>14, <1>15
       DEF StreamNext, Client, Writer, Handler

-----------------------------------------------------------------------------
(* The chunks still to be written are numbered up to their total, as when  *)
(* the notifier handed them over.                                          *)
Numbered ==
  \A i \in 1 .. Len(outgoing) :
    outgoing[i].is = "chunk" =>
      /\ outgoing[i].payload # <<>>
      /\ outgoing[i].total = outgoing[Len(outgoing)].total
      /\ outgoing[i].index + 1 + Len(outgoing) - i = outgoing[i].total

(* Every step keeps it. *)
LEMMA NumberedStep ==
  ASSUME StreamInv, Inv, Inv', Numbered, StreamNext
  PROVE  Numbered'
  <1>1. outgoing \in Seq(Frame)
    BY StreamTyped
  <1>2. CASE UNCHANGED outgoing
    BY <1>2 DEF Numbered
  <1>3. CASE outgoing' = <<>>
    BY <1>3 DEF Numbered
  <1>4. CASE NotifyFrames
    <2>1. Grows
      BY HistoryGrows
    <2>2. PICK F \in Seq(Frame) :
            /\ F = outgoing' /\ F # <<>>
            /\ Chained(F, Len(wire) + 1, 0, event.kind, Len(wire'))
            /\ \A i \in 1 .. Len(F) :
                 F[i].is = "chunk" =>
                   /\ F[i].index + 1 = i /\ F[i].total = Len(F)
                   /\ F[Len(F)].is = "chunk" /\ F[i].payload # <<>>
      BY <1>4, <2>1, FramesAreSound
    <2>3. Len(F) \in 1 .. Len(F) /\ Len(F) \in Nat
      BY <2>2
    <2>4. ASSUME NEW i \in 1 .. Len(F), F[i].is = "chunk"
          PROVE  /\ F[i].payload # <<>> /\ F[i].total = F[Len(F)].total
                 /\ F[i].index + 1 + Len(F) - i = F[i].total
      <3>1. F[Len(F)].is = "chunk"
        BY <2>2, <2>3, <2>4
      <3>2. F[Len(F)].total = Len(F) /\ F[i].index + 1 = i /\ F[i].total = Len(F)
        BY <2>2, <2>3, <2>4, <3>1
      <3>3. F[i].index + 1 + Len(F) - i = i + Len(F) - i
        BY <3>2
      <3>4. QED
        BY <2>2, <2>3, <2>4, <3>2, <3>3
    <2>5. QED
      BY <2>2, <2>4 DEF Numbered
  <1>5. CASE WriteFrame
    <2>1. PICK T \in Seq(Frame) :
            /\ T = outgoing' /\ outgoing # <<>> /\ Len(T) = Len(outgoing) - 1
            /\ \A j \in 1 .. Len(T) : T[j] = outgoing[j + 1]
      <3>1. outgoing # <<>> /\ outgoing' = Tail(outgoing)
        BY <1>5 DEF WriteFrame
      <3>2. QED
        BY <1>1, <3>1, HeadTailProperties
    <2>2. ASSUME NEW i \in 1 .. Len(T), T[i].is = "chunk"
          PROVE  /\ T[i].payload # <<>> /\ T[i].total = T[Len(T)].total
                 /\ T[i].index + 1 + Len(T) - i = T[i].total
      <3>1. /\ i + 1 \in 1 .. Len(outgoing) /\ T[i] = outgoing[i + 1]
            /\ T[Len(T)] = outgoing[Len(outgoing)] /\ Len(outgoing) \in Nat
        BY <1>1, <2>1, <2>2
      <3>2. /\ T[i].payload # <<>> /\ T[i].total = outgoing[Len(outgoing)].total
            /\ T[i].index + 1 + Len(outgoing) - (i + 1) = T[i].total
        BY <2>2, <3>1 DEF Numbered
      <3>3. T[i].index \in Nat
        <4>1. T[i] \in Frame
          BY <2>1, <2>2
        <4>2. QED
          BY <2>2, <4>1, FrameFields
      <3>4. T[i].index + 1 + Len(outgoing) - (i + 1) = T[i].index + 1 + Len(T) - i
        BY <2>1, <3>1, <3>3
      <3>5. QED
        BY <3>1, <3>2, <3>4
    <2>3. QED
      BY <2>1, <2>2 DEF Numbered
  <1>6. CASE AnswerCall \/ AnswerError
    <2>1. outgoing' = <<[is |-> "answer"]>> \/ outgoing' = <<[is |-> "error"]>>
      BY <1>6 DEF AnswerCall, AnswerError
    <2>2. \A i \in 1 .. Len(outgoing') : outgoing'[i].is # "chunk"
      BY <2>1
    <2>3. QED
      BY <2>2 DEF Numbered
  <1>7. CASE WriteFails \/ Crash
    BY <1>3, <1>7 DEF WriteFails, Crash
  <1>8. CASE Post \/ PostRefused \/ CtxEnds \/ RecordEvent \/ EndBody \/ EmitEvent \/ EndTask \/ WireFault
    BY <1>2, <1>8
       DEF Post, PostRefused, CtxEnds, RecordEvent, EndBody, EmitEvent, EndTask, WireFault, streamVars
  <1>9. CASE Client \/ BeginCut \/ AddChunk \/ Halve
    BY <1>2, <1>9 DEF Client, ReadEvent, ReadChunk, ReadBadLine, ReadAnswer, ReadEnd, BeginCut,
                      AddChunk, Halve
  <1>10. QED
    BY <1>4, <1>5, <1>6, <1>7, <1>8, <1>9 DEF StreamNext, Writer, Handler

(* What the handler hands over agrees. *)
LEMMA AgreeFrom == StreamInv /\ Inv /\ Numbered => ChunksAgree
  <1> SUFFICES ASSUME StreamInv, Inv, Numbered PROVE ChunksAgree
    OBVIOUS
  <1>1. More /\ TooLarge(ChunkFrame) => cut.size > 1
    BY RoomForOne
  <1>2. \A i \in 1 .. Len(outgoing) : ~TooLarge(outgoing[i])
    <2>1. SUFFICES ASSUME NEW i \in 1 .. Len(outgoing) PROVE ~TooLarge(outgoing[i])
      OBVIOUS
    <2>2. PICK f : f = outgoing[i]
      OBVIOUS
    <2>3. Sound(f, wire, sizes, step, server)
      BY <2>2 DEF StreamInv, Framed
    <2>4. ~TooLarge(f)
      BY <2>3 DEF Sound, Genuine, IsFrame, OfEvent, TooLarge
    <2>5. QED
      BY <2>2, <2>4
  <1>3. QED
    BY <1>1, <1>2 DEF ChunksAgree, Numbered

-----------------------------------------------------------------------------
(* What the reassembler has of a frame that came is what was emitted.      *)
LEMMA EventWhole ==
  ASSUME StreamInv, Inv, ReadEvent
  PROVE  /\ OfEvent(Line) /\ PieceOf(Line) = 0 /\ IsLast(Line)
         /\ EventOf(Line) \in 1 .. Len(wire) /\ Line.seq = wire[EventOf(Line)]
         /\ Line.payload = Bytes(EventOf(Line), sizes[EventOf(Line)])
  <1>1. pipe # <<>> /\ Line.is = "event"
    BY DEF ReadEvent, Reads
  <1>2. Sound(Line, wire, sizes, step, server)
    BY <1>1, FirstFrame
  <1>3. QED
    BY <1>1, <1>2 DEF Sound, Genuine, IsFrame, OfEvent, PieceOf, IsLast

(* A chunk read is a piece of one event sent. *)
LEMMA ChunkFits ==
  ASSUME StreamInv, Inv, Reads("chunk")
  PROVE  /\ OfEvent(Line) /\ PieceOf(Line) = Line.index /\ Line.index \in Nat
         /\ IsLast(Line) <=> Line.index + 1 = Line.total
         /\ EventOf(Line) \in 1 .. Len(wire) /\ Line.seq = wire[EventOf(Line)]
         /\ Line.total = ChunkCount(sizes[EventOf(Line)]) /\ Line.total \in Nat \ {0}
         /\ Line.index \in 0 .. Line.total - 1
         /\ Line.payload = Piece(EventOf(Line), sizes[EventOf(Line)], Line.index)
         /\ Line.payload \in Seq(Byte) /\ Line.seq \in Nat /\ Line.kind \in AnyKind
  <1>1. pipe # <<>> /\ Line.is = "chunk"
    BY DEF Reads
  <1>2. Sound(Line, wire, sizes, step, server) /\ Line \in Frame
    BY <1>1, FirstFrame
  <1>3. OfEvent(Line)
    BY <1>1 DEF OfEvent
  <1>4. PICK n : n = EventOf(Line)
    OBVIOUS
  <1>5. n \in 1 .. Len(wire) /\ IsFrame(Line, n, sizes[n], wire[n])
    BY <1>2, <1>3, <1>4 DEF Sound, Genuine
  <1>6. sizes[n] \in Nat \ {0}
    BY <1>5, StreamTyped
  <1>7. ChunkCount(sizes[n]) \in Nat \ {0}
    BY <1>6, Pieces
  <1>8. /\ Line.seq = wire[n] /\ Line.total = ChunkCount(sizes[n])
        /\ Line.index \in 0 .. ChunkCount(sizes[n]) - 1 /\ Line.payload = Piece(n, sizes[n], Line.index)
    BY <1>1, <1>5 DEF IsFrame
  <1>9. Line.payload \in Seq(Byte) /\ Line.seq \in Nat /\ Line.kind \in AnyKind
    BY <1>2, <1>3, FrameFields
  <1>10. QED
    BY <1>1, <1>3, <1>4, <1>5, <1>7, <1>8, <1>9 DEF PieceOf, IsLast

(* If what came before of the chunk's event is its first pieces, then with *)
(* the chunk it is one piece more, and with the last one the event.        *)
LEMMA JoinedPart ==
  ASSUME StreamInv, Inv, Reads("chunk"), ~Rejects(Line), NEW n, n = EventOf(Line),
         Known(Line) => PartOf(chunks[Line.seq], n, wire, sizes)
  PROVE  /\ Received(Line) = Line.index
         /\ Joined(Line) = Prefix(n, sizes[n], Line.index + 1)
         /\ Line.index + 1 = Line.total => Joined(Line) = Bytes(n, sizes[n])
         /\ Line.index + 1 # Line.total =>
              PartOf([kind |-> Line.kind, total |-> Line.total, parts |-> Received(Line) + 1,
                      payload |-> Joined(Line)], n, wire, sizes)
  <1>1. /\ n \in 1 .. Len(wire) /\ Line.total = ChunkCount(sizes[n]) /\ Line.total \in Nat \ {0}
        /\ Line.index \in 0 .. Line.total - 1 /\ Line.payload = Piece(n, sizes[n], Line.index)
        /\ Line.payload \in Seq(Byte)
    BY ChunkFits
  <1>2. PICK z \in Nat \ {0} : z = sizes[n]
    BY <1>1, StreamTyped
  <1>3. n \in Nat
    BY <1>1
  <1>4. PICK i \in 0 .. ChunkCount(z) - 1 : i = Line.index
    BY <1>1, <1>2
  <1>5. /\ Prefix(n, z, 0) = <<>> /\ Prefix(n, z, ChunkCount(z)) = Bytes(n, z)
        /\ Prefix(n, z, i) \o Piece(n, z, i) = Prefix(n, z, i + 1)
    BY <1>3, PiecesJoin
  <1>6. Received(Line) = Line.index
    BY DEF Rejects
  <1>7. Joined(Line) = Prefix(n, z, i + 1)
    <2>1. CASE Known(Line)
      <3>1. chunks[Line.seq].parts = i
        BY <1>4, <1>6, <2>1 DEF Received
      <3>2. chunks[Line.seq].payload = Prefix(n, z, i)
        BY <1>2, <2>1, <3>1 DEF PartOf
      <3>3. QED
        BY <1>1, <1>2, <1>4, <1>5, <2>1, <3>2 DEF Joined
    <2>2. CASE ~Known(Line)
      <3>1. i = 0
        BY <1>4, <1>6, <2>2 DEF Received
      <3>2. Joined(Line) = <<>> \o Line.payload
        BY <2>2 DEF Joined
      <3>3. QED
        BY <1>1, <1>2, <1>4, <1>5, <3>1, <3>2
    <2>3. QED
      BY <2>1, <2>2
  <1>8. ASSUME Line.index + 1 # Line.total
        PROVE  PartOf([kind |-> Line.kind, total |-> Line.total, parts |-> Received(Line) + 1,
                       payload |-> Joined(Line)], n, wire, sizes)
    <2>1. i + 1 \in 1 .. Line.total - 1
      BY <1>1, <1>4, <1>8
    <2>2. QED
      BY <1>1, <1>2, <1>4, <1>6, <1>7, <2>1 DEF PartOf
  <1>9. QED
    BY <1>1, <1>2, <1>4, <1>5, <1>6, <1>7, <1>8

(* The seq of an event in the ring says which event it is. *)
LEMMA SeqTells ==
  ASSUME Inv, NEW n \in 1 .. Len(wire), wire[n] # 0
  PROVE  n = wire[n]
  BY DEF Inv, WireInOrder

(* The assembly that a chunk joins is of the same event. *)
LEMMA PartOfKnown ==
  ASSUME StreamInv, Inv, Reads("chunk"), Line.seq # 0, Known(Line)
  PROVE  PartOf(chunks[Line.seq], EventOf(Line), wire, sizes)
  <1>1. EventOf(Line) \in 1 .. Len(wire) /\ Line.seq = wire[EventOf(Line)]
    BY ChunkFits
  <1>2. EventOf(Line) = Line.seq
    BY <1>1, SeqTells
  <1>3. Line.seq \in DOMAIN chunks \ {0}
    BY DEF Known
  <1>4. QED
    BY <1>2, <1>3 DEF StreamInv, Assembled

-----------------------------------------------------------------------------
(* A step that leaves the client's state alone keeps what it says of the   *)
(* events.                                                                 *)
LEMMA WholeKept ==
  ASSUME StreamInv, Inv, Grows, UNCHANGED <<chunks, delivered>>
  PROVE  Assembled' /\ DeliveredWhole' /\ (DeliveredInOrder => DeliveredInOrder')
  <1>1. /\ wire \in Seq(Nat) /\ sizes \in Seq(Sizes) /\ Len(wire) <= Len(sizes) /\ Len(wire) \in Nat
        /\ Len(sizes) \in Nat
    BY StreamTyped
  <1>2. /\ wire' \in Seq(Nat) /\ sizes' \in Seq(Sizes) /\ Extends(wire', wire) /\ Extends(sizes', sizes)
        /\ Len(wire') \in Nat
    BY DEF Grows
  <1>3. \A n \in 1 .. Len(wire) : n \in 1 .. Len(wire') /\ wire'[n] = wire[n] /\ sizes'[n] = sizes[n]
    BY <1>1, <1>2 DEF Extends
  <1>4. ASSUME NEW s \in DOMAIN chunks \ {0}
        PROVE  s \in DOMAIN wire' /\ wire'[s] = s /\ PartOf(chunks[s], s, wire', sizes')
    <2>1. s \in DOMAIN wire /\ wire[s] = s /\ PartOf(chunks[s], s, wire, sizes)
      BY DEF StreamInv, Assembled
    <2>2. PartOf(chunks[s], s, wire', sizes') /\ wire'[s] = wire[s]
      BY <1>1, <1>2, <2>1, PartStays
    <2>3. s \in DOMAIN wire'
      BY <1>1, <1>2, <1>3, <2>1
    <2>4. QED
      BY <2>1, <2>2, <2>3
  <1>5. Assembled'
    BY <1>4 DEF Assembled
  <1>6. DeliveredWhole'
    BY <1>3 DEF StreamInv, DeliveredWhole
  <1>7. ASSUME DeliveredInOrder PROVE DeliveredInOrder'
    <2>1. ASSUME NEW i \in 1 .. Len(delivered)
          PROVE  /\ i <= Len(wire') /\ delivered[i].payload = Bytes(i, sizes'[i])
                 /\ delivered[i].seq = wire'[i]
      <3>1. /\ i <= Len(wire) /\ delivered[i].payload = Bytes(i, sizes[i])
            /\ delivered[i].seq = wire[i]
        BY <1>7 DEF DeliveredInOrder
      <3>2. i \in 1 .. Len(wire)
        BY <1>1, <3>1
      <3>3. QED
        BY <1>2, <1>3, <3>1, <3>2
    <2>2. QED
      BY <2>1 DEF DeliveredInOrder
  <1>8. QED
    BY <1>5, <1>6, <1>7

-----------------------------------------------------------------------------
(* What the callback is given, and what the client keeps of an event in    *)
(* pieces.                                                                 *)
Event == [seq : Nat, kind : AnyKind, payload : Seq(Byte)]
Part  == [kind : AnyKind, total : Nat, parts : Nat, payload : Seq(Byte)]

(* One event more is given to the callback. *)
LEMMA Delivers ==
  ASSUME StreamInv, Inv, UNCHANGED <<wire, sizes>>, NEW e \in Event,
         delivered' = Append(delivered, e),
         e.seq # 0 => \E n \in 1 .. Len(wire) : e.payload = Bytes(n, sizes[n]) /\ e.seq = wire[n]
  PROVE  /\ DeliveredWhole' /\ delivered' \in Seq(Event) /\ Len(delivered') = Len(delivered) + 1
         /\ /\ DeliveredInOrder /\ Awaited <= Len(wire)
            /\ e.payload = Bytes(Awaited, sizes[Awaited]) /\ e.seq = wire[Awaited]
            => DeliveredInOrder'
  <1>1. delivered \in Seq(Event) /\ Len(delivered) \in Nat
    BY StreamTyped DEF StreamInv, Typed, Event
  <1>2. /\ delivered' \in Seq(Event) /\ Len(delivered') = Len(delivered) + 1
        /\ \A i \in 1 .. Len(delivered) : delivered'[i] = delivered[i]
        /\ delivered'[Len(delivered) + 1] = e
    BY <1>1, AppendProperties
  <1>3. \A i \in 1 .. Len(delivered') : i \in 1 .. Len(delivered) \/ i = Len(delivered) + 1
    BY <1>1, <1>2
  <1>4. ASSUME NEW i \in 1 .. Len(delivered'), delivered'[i].seq # 0
        PROVE  \E n \in 1 .. Len(wire) :
                 delivered'[i].payload = Bytes(n, sizes[n]) /\ delivered'[i].seq = wire[n]
    <2>1. CASE i \in 1 .. Len(delivered)
      BY <1>2, <1>4, <2>1 DEF StreamInv, DeliveredWhole
    <2>2. CASE i = Len(delivered) + 1
      BY <1>2, <1>4, <2>2
    <2>3. QED
      BY <1>3, <2>1, <2>2
  <1>5. DeliveredWhole'
    BY <1>4 DEF DeliveredWhole
  <1>6. ASSUME DeliveredInOrder, Awaited <= Len(wire),
               e.payload = Bytes(Awaited, sizes[Awaited]), e.seq = wire[Awaited]
        PROVE  DeliveredInOrder'
    <2>1. ASSUME NEW i \in 1 .. Len(delivered')
          PROVE  /\ i <= Len(wire) /\ delivered'[i].payload = Bytes(i, sizes[i])
                 /\ delivered'[i].seq = wire[i]
      <3>1. CASE i \in 1 .. Len(delivered)
        BY <1>2, <1>6, <3>1 DEF DeliveredInOrder
      <3>2. CASE i = Len(delivered) + 1
        BY <1>2, <1>6, <3>2 DEF Awaited
      <3>3. QED
        BY <1>3, <3>1, <3>2
    <2>2. QED
      BY <2>1 DEF DeliveredInOrder
  <1>7. QED
    BY <1>2, <1>5, <1>6

(* An event read in one frame is delivered as sent. *)
LEMMA EventDelivered ==
  ASSUME StreamInv, Inv, ReadEvent
  PROVE  LET e == [seq |-> Line.seq, kind |-> Line.kind, payload |-> Line.payload]
         IN /\ e \in Event /\ delivered' = Append(delivered, e) /\ UNCHANGED <<wire, sizes, chunks>>
            /\ \E n \in 1 .. Len(wire) : e.payload = Bytes(n, sizes[n]) /\ e.seq = wire[n]
  <1>1. pipe # <<>> /\ OfEvent(Line)
    BY EventWhole DEF ReadEvent, Reads
  <1>2. Line.seq \in Nat /\ Line.kind \in AnyKind /\ Line.payload \in Seq(Byte)
    BY <1>1, FirstFrame, FrameFields
  <1>3. UNCHANGED <<wire, sizes, chunks>>
    BY DEF ReadEvent, vars
  <1>4. /\ EventOf(Line) \in 1 .. Len(wire) /\ Line.seq = wire[EventOf(Line)]
        /\ Line.payload = Bytes(EventOf(Line), sizes[EventOf(Line)])
    BY EventWhole
  <1>5. delivered' = Append(delivered, [seq |-> Line.seq, kind |-> Line.kind, payload |-> Line.payload])
    BY DEF ReadEvent
  <1>6. QED
    BY <1>2, <1>3, <1>4, <1>5 DEF Event

(* What an assembly and a chunk join to is a payload. *)
LEMMA JoinedType ==
  ASSUME StreamInv, Inv, Reads("chunk")
  PROVE  /\ Joined(Line) \in Seq(Byte) /\ Received(Line) \in Nat
         /\ Line.seq \in Nat /\ Line.kind \in AnyKind /\ Line.total \in Nat
  <1>1. /\ Line.payload \in Seq(Byte) /\ Line.seq \in Nat /\ Line.kind \in AnyKind
        /\ Line.total \in Nat \ {0}
    BY ChunkFits
  <1>2. CASE Known(Line)
    <2>1. chunks[Line.seq] \in Part
      BY <1>2 DEF Known, StreamInv, Typed, Part
    <2>2. chunks[Line.seq].payload \in Seq(Byte) /\ chunks[Line.seq].parts \in Nat
      BY <2>1 DEF Part
    <2>3. QED
      BY <1>1, <1>2, <2>2 DEF Joined, Received
  <1>3. CASE ~Known(Line)
    BY <1>1, <1>3 DEF Joined, Received
  <1>4. QED
    BY <1>2, <1>3

(* The last chunk completes the event sent. *)
LEMMA LastChunkDelivered ==
  ASSUME StreamInv, Inv, ReadChunk, Received(Line) + 1 = Line.total
  PROVE  LET e == [seq |-> Line.seq, kind |-> Line.kind, payload |-> Joined(Line)]
         IN /\ e \in Event /\ delivered' = Append(delivered, e) /\ UNCHANGED <<wire, sizes>>
            /\ chunks' = Without(Line.seq)
            /\ e.seq # 0 =>
                 \E n \in 1 .. Len(wire) : e.payload = Bytes(n, sizes[n]) /\ e.seq = wire[n]
  <1>1. Reads("chunk") /\ ~Rejects(Line)
    BY DEF ReadChunk
  <1>2. Joined(Line) \in Seq(Byte) /\ Line.seq \in Nat /\ Line.kind \in AnyKind
    BY <1>1, JoinedType
  <1>3. UNCHANGED <<wire, sizes>>
    BY DEF ReadChunk, vars
  <1>4. /\ delivered' = Append(delivered, [seq |-> Line.seq, kind |-> Line.kind, payload |-> Joined(Line)])
        /\ chunks' = Without(Line.seq)
    BY DEF ReadChunk, Forget
  <1>5. ASSUME Line.seq # 0
        PROVE  \E n \in 1 .. Len(wire) : Joined(Line) = Bytes(n, sizes[n]) /\ Line.seq = wire[n]
    <2>1. EventOf(Line) \in 1 .. Len(wire) /\ Line.seq = wire[EventOf(Line)]
      BY <1>1, ChunkFits
    <2>2. Known(Line) => PartOf(chunks[Line.seq], EventOf(Line), wire, sizes)
      BY <1>1, <1>5, PartOfKnown
    <2>3. Received(Line) = Line.index
      BY <1>1 DEF Rejects
    <2>4. Joined(Line) = Bytes(EventOf(Line), sizes[EventOf(Line)])
      BY <1>1, <2>2, <2>3, JoinedPart
    <2>5. QED
      BY <2>1, <2>4
  <1>6. QED
    BY <1>2, <1>3, <1>4, <1>5 DEF Event

(* Another chunk makes the assembly longer by its piece. *)
LEMMA ChunkKept ==
  ASSUME StreamInv, Inv, ReadChunk, Received(Line) + 1 # Line.total
  PROVE  \E a \in Part :
           /\ a = [kind |-> Line.kind, total |-> Line.total, parts |-> Received(Line) + 1,
                   payload |-> Joined(Line)]
           /\ a.parts \in 1 .. a.total - 1
           /\ chunks' = With(Line.seq, a) /\ UNCHANGED <<wire, sizes, delivered>>
           /\ Line.seq # 0 => /\ Line.seq \in DOMAIN wire /\ wire[Line.seq] = Line.seq
                              /\ PartOf(a, Line.seq, wire, sizes)
  <1>1. Reads("chunk") /\ ~Rejects(Line)
    BY DEF ReadChunk
  <1>2. /\ Joined(Line) \in Seq(Byte) /\ Line.seq \in Nat /\ Line.kind \in AnyKind
        /\ Received(Line) \in Nat /\ Line.total \in Nat
    BY <1>1, JoinedType
  <1>3. UNCHANGED <<wire, sizes, delivered>>
    BY DEF ReadChunk, vars
  <1>4. PICK a : a = [kind |-> Line.kind, total |-> Line.total, parts |-> Received(Line) + 1,
                      payload |-> Joined(Line)]
    OBVIOUS
  <1>5. a \in Part
    BY <1>2, <1>4 DEF Part
  <1>6. Received(Line) = Line.index
    BY <1>1 DEF Rejects
  <1>7. a.parts \in 1 .. a.total - 1
    <2>1. Line.index \in 0 .. Line.total - 1
      BY <1>1, ChunkFits
    <2>2. a.parts = Line.index + 1 /\ a.total = Line.total /\ Line.index + 1 # Line.total
      BY <1>4, <1>6
    <2>3. QED
      BY <1>2, <2>1, <2>2
  <1>8. chunks' = With(Line.seq, a)
    BY <1>4 DEF ReadChunk
  <1>9. ASSUME Line.seq # 0
        PROVE  /\ Line.seq \in DOMAIN wire /\ wire[Line.seq] = Line.seq
               /\ PartOf(a, Line.seq, wire, sizes)
    <2>1. EventOf(Line) \in 1 .. Len(wire) /\ Line.seq = wire[EventOf(Line)]
      BY <1>1, ChunkFits
    <2>2. EventOf(Line) = Line.seq
      BY <1>9, <2>1, SeqTells
    <2>3. Known(Line) => PartOf(chunks[Line.seq], EventOf(Line), wire, sizes)
      BY <1>1, <1>9, PartOfKnown
    <2>4. PartOf(a, EventOf(Line), wire, sizes)
      BY <1>1, <1>4, <1>6, <2>3, JoinedPart
    <2>5. wire \in Seq(Nat)
      BY StreamTyped
    <2>6. QED
      BY <2>1, <2>2, <2>4, <2>5
  <1>10. QED
    BY <1>3, <1>4, <1>5, <1>7, <1>8, <1>9

-----------------------------------------------------------------------------
(* Every step keeps Assembled and DeliveredWhole. *)
LEMMA WholeStep ==
  ASSUME StreamInv, Inv, Inv', StreamNext
  PROVE  Assembled' /\ DeliveredWhole'
  <1>1. Grows
    BY HistoryGrows
  <1>2. CASE UNCHANGED <<chunks, delivered>>
    BY <1>1, <1>2, WholeKept
  <1>3. CASE ReadEvent
    <2>1. DeliveredWhole'
      BY <1>3, EventDelivered, Delivers
    <2>2. UNCHANGED <<wire, sizes, chunks>>
      BY <1>3, EventDelivered
    <2>3. Assembled'
      BY <2>2 DEF StreamInv, Assembled
    <2>4. QED
      BY <2>1, <2>3
  <1>4. CASE ReadChunk /\ Received(Line) + 1 = Line.total
    <2>1. DeliveredWhole'
      BY <1>4, LastChunkDelivered, Delivers
    <2>2. UNCHANGED <<wire, sizes>> /\ chunks' = Without(Line.seq)
      BY <1>4, LastChunkDelivered
    <2>3. ASSUME NEW s \in DOMAIN chunks' \ {0}
          PROVE  s \in DOMAIN wire /\ wire[s] = s /\ PartOf(chunks'[s], s, wire, sizes)
      <3>1. s \in DOMAIN chunks \ {0} /\ chunks'[s] = chunks[s]
        BY <2>2, <2>3 DEF Without
      <3>2. QED
        BY <3>1 DEF StreamInv, Assembled
    <2>4. Assembled'
      BY <2>2, <2>3 DEF Assembled
    <2>5. QED
      BY <2>1, <2>4
  <1>5. CASE ReadChunk /\ Received(Line) + 1 # Line.total
    <2>1. PICK a \in Part :
            /\ chunks' = With(Line.seq, a) /\ UNCHANGED <<wire, sizes, delivered>>
            /\ Line.seq # 0 => /\ Line.seq \in DOMAIN wire /\ wire[Line.seq] = Line.seq
                               /\ PartOf(a, Line.seq, wire, sizes)
      BY <1>5, ChunkKept
    <2>2. DeliveredWhole'
      BY <2>1 DEF StreamInv, DeliveredWhole
    <2>3. ASSUME NEW s \in DOMAIN chunks' \ {0}
          PROVE  s \in DOMAIN wire /\ wire[s] = s /\ PartOf(chunks'[s], s, wire, sizes)
      <3>1. CASE s = Line.seq
        <4>1. chunks'[s] = a
          BY <2>1, <3>1 DEF With
        <4>2. QED
          BY <2>1, <2>3, <3>1, <4>1
      <3>2. CASE s # Line.seq
        <4>1. s \in DOMAIN chunks \ {0} /\ chunks'[s] = chunks[s]
          BY <2>1, <2>3, <3>2 DEF With
        <4>2. QED
          BY <4>1 DEF StreamInv, Assembled
      <3>3. QED
        BY <3>1, <3>2
    <2>4. Assembled'
      BY <2>1, <2>3 DEF Assembled
    <2>5. QED
      BY <2>2, <2>4
  <1>6. CASE Post \/ PostRefused \/ CtxEnds \/ ReadBadLine \/ ReadAnswer \/ ReadEnd \/ WriteFrame
             \/ WriteFails \/ RecordEvent \/ NotifyFrames \/ AnswerCall \/ EndBody \/ EmitEvent
             \/ EndTask \/ AnswerError \/ Crash \/ WireFault \/ BeginCut \/ AddChunk \/ Halve
    <2>1. UNCHANGED <<chunks, delivered>>
      BY <1>6 DEF Post, PostRefused, CtxEnds, ReadBadLine, ReadAnswer, ReadEnd, WriteFrame,
                  WriteFails, RecordEvent, NotifyFrames, AnswerCall, EndBody, EmitEvent,
                  EndTask, AnswerError, Crash, WireFault, BeginCut, AddChunk, Halve, streamVars
    <2>2. QED
      BY <1>2, <2>1
  <1>7. QED
    BY <1>3, <1>4, <1>5, <1>6 DEF StreamNext, Client, Writer, Handler

(* Every step keeps the types. *)
LEMMA TypedStep ==
  ASSUME StreamInv, Inv, Inv', StreamNext
  PROVE  Typed'
  <1>1. Grows
    BY HistoryGrows
  <1>2. pipe \in Seq(Frame) /\ outgoing \in Seq(Frame) /\ Len(pipe) \in Nat /\ faults \in Nat
    BY StreamTyped
  <1>3. /\ open \in BOOLEAN /\ server \in {"handling", "refusing", "crashed"}
        /\ call \in {"posting", "refused", "reading", "ok", "rpcerror", "error", "closed", "cancelled"}
        /\ faults \in 0 .. MaxFaults /\ DOMAIN chunks \subseteq Nat
        /\ \A s \in DOMAIN chunks : chunks[s].parts \in 1 .. chunks[s].total - 1
        /\ \A s \in DOMAIN chunks : chunks[s] \in Part
        /\ delivered \in Seq(Event)
    BY DEF StreamInv, Typed, StreamTypeOK, Part, Event
  <1>4. open' \in BOOLEAN
    BY <1>3 DEF StreamNext, Post, PostRefused, Client, ReadEvent, ReadChunk, ReadBadLine,
       ReadAnswer,
       ReadEnd, CtxEnds, EndCall, Writer, WriteFrame, WriteFails, Handler, RecordEvent,
       BeginCut, AddChunk, Halve, NotifyFrames,
       AnswerCall, EndBody, EmitEvent, EndTask, AnswerError, Crash, WireFault, streamVars
  <1>5. server' \in {"handling", "refusing", "crashed"}
    BY <1>3 DEF StreamNext, Post, PostRefused, Client, ReadEvent, ReadChunk, ReadBadLine,
       ReadAnswer,
       ReadEnd, CtxEnds, EndCall, Writer, WriteFrame, WriteFails, Handler, RecordEvent,
       BeginCut, AddChunk, Halve, NotifyFrames,
       AnswerCall, EndBody, EmitEvent, EndTask, AnswerError, Crash, WireFault, streamVars
  <1>6. call' \in {"posting", "refused", "reading", "ok", "rpcerror", "error", "closed", "cancelled"}
    BY <1>3 DEF StreamNext, Post, PostRefused, Client, ReadEvent, ReadChunk, ReadBadLine,
       ReadAnswer,
       ReadEnd, CtxEnds, EndCall, Writer, WriteFrame, WriteFails, Handler, RecordEvent,
       BeginCut, AddChunk, Halve, NotifyFrames,
       AnswerCall, EndBody, EmitEvent, EndTask, AnswerError, Crash, WireFault, streamVars
  <1>7. faults' \in 0 .. MaxFaults
    <2>1. faults' = faults \/ (faults < MaxFaults /\ faults' = faults + 1)
      BY DEF StreamNext, Post, PostRefused, Client, ReadEvent, ReadChunk, ReadBadLine,
         ReadAnswer,
       ReadEnd, CtxEnds, EndCall, Writer, WriteFrame, WriteFails, Handler, RecordEvent,
       BeginCut, AddChunk, Halve, NotifyFrames,
       AnswerCall, EndBody, EmitEvent, EndTask, AnswerError, Crash, WireFault, streamVars
    <2>2. QED
      BY <1>3, <2>1, StreamAssumption
  <1>8. /\ DOMAIN chunks' \subseteq Nat /\ delivered' \in Seq(Event)
        /\ \A s \in DOMAIN chunks' : chunks'[s] \in Part
        /\ \A s \in DOMAIN chunks' : chunks'[s].parts \in 1 .. chunks'[s].total - 1
    <2>1. CASE ReadEvent
      <3>1. UNCHANGED chunks /\ delivered' \in Seq(Event)
        BY <2>1, EventDelivered, Delivers
      <3>2. QED
        BY <1>3, <3>1
    <2>2. CASE ReadChunk /\ Received(Line) + 1 = Line.total
      <3>1. chunks' = Without(Line.seq) /\ delivered' \in Seq(Event)
        BY <2>2, LastChunkDelivered, Delivers
      <3>2. \A s \in DOMAIN chunks' : s \in DOMAIN chunks /\ chunks'[s] = chunks[s]
        BY <3>1 DEF Without
      <3>3. QED
        BY <1>3, <3>1, <3>2
    <2>3. CASE ReadChunk /\ Received(Line) + 1 # Line.total
      <3>1. PICK a \in Part : /\ a.parts \in 1 .. a.total - 1
                              /\ chunks' = With(Line.seq, a) /\ UNCHANGED delivered
        BY <2>3, ChunkKept
      <3>2. Line.seq \in Nat
        BY <2>3, JoinedType DEF ReadChunk
      <3>3. \A s \in DOMAIN chunks' : \/ s = Line.seq /\ chunks'[s] = a
                                      \/ s \in DOMAIN chunks /\ chunks'[s] = chunks[s]
        <4>1. chunks' = [s \in DOMAIN chunks \cup {Line.seq} |-> IF s = Line.seq THEN a ELSE chunks[s]]
          BY <3>1 DEF With
        <4>2. DOMAIN chunks' = DOMAIN chunks \cup {Line.seq}
          BY <4>1
        <4>3. \A s \in DOMAIN chunks \cup {Line.seq} :
                chunks'[s] = IF s = Line.seq THEN a ELSE chunks[s]
          BY <4>1
        <4>4. QED
          BY <4>2, <4>3
      <3>4. QED
        BY <1>3, <3>1, <3>2, <3>3
    <2>4. CASE UNCHANGED <<chunks, delivered>>
      BY <1>3, <2>4
    <2>5. ReadEvent \/ ReadChunk \/ UNCHANGED <<chunks, delivered>>
      BY DEF StreamNext, Post, PostRefused, Client, ReadBadLine, ReadAnswer,
       ReadEnd, CtxEnds, Writer, WriteFrame, WriteFails, Handler, RecordEvent,
       BeginCut, AddChunk, Halve, NotifyFrames,
       AnswerCall, EndBody, EmitEvent, EndTask, AnswerError, Crash, WireFault, streamVars
    <2>6. QED
      BY <2>1, <2>2, <2>3, <2>4, <2>5
  <1>9. pipe' \in Seq(Frame) /\ outgoing' \in Seq(Frame)
    <2>1. CASE UNCHANGED <<pipe, outgoing>>
      BY <1>2, <2>1
    <2>2. CASE pipe' = <<>> /\ UNCHANGED outgoing
      BY <1>2, <2>2
    <2>3. CASE pipe # <<>> /\ pipe' = Tail(pipe) /\ UNCHANGED outgoing
      BY <1>2, <2>3, FirstFrame
    <2>4. CASE WriteFrame
      BY <1>2, <2>4 DEF WriteFrame
    <2>5. CASE WriteFails
      BY <1>2, <2>5 DEF WriteFails
    <2>6. CASE NotifyFrames
      BY <1>1, <1>2, <2>6, FramesAreSound DEF NotifyFrames
    <2>7. CASE AnswerCall \/ AnswerError
      <3>1. [is |-> "answer"] \in Frame /\ [is |-> "error"] \in Frame
        BY DEF Frame
      <3>2. PICK f \in Frame : outgoing' = <<f>>
        BY <2>7, <3>1 DEF AnswerCall, AnswerError
      <3>3. UNCHANGED pipe
        BY <2>7 DEF AnswerCall, AnswerError
      <3>4. <<f>> \in Seq(Frame)
        OBVIOUS
      <3>5. QED
        BY <1>2, <3>2, <3>3, <3>4
    <2>8. CASE Crash
      <3>1. [is |-> "cut"] \in Frame
        BY DEF Frame
      <3>2. PICK a \in 0 .. Len(pipe) : \/ pipe' = SubSeq(pipe, 1, a)
                                        \/ pipe' = Append(SubSeq(pipe, 1, a), [is |-> "cut"])
        BY <2>8 DEF Crash
      <3>3. SubSeq(pipe, 1, a) \in Seq(Frame)
        BY <1>2, <3>2
      <3>4. outgoing' = <<>>
        BY <2>8 DEF Crash
      <3>5. QED
        BY <3>1, <3>2, <3>3, <3>4
    <2>9. CASE WireFault
      <3>1. PICK i \in 1 .. Len(pipe) :
              \/ pipe' = SubSeq(pipe, 1, i - 1) \o SubSeq(pipe, i + 1, Len(pipe))
              \/ pipe' = SubSeq(pipe, 1, i) \o SubSeq(pipe, i, Len(pipe))
              \/ i < Len(pipe) /\ pipe' = [pipe EXCEPT ![i] = pipe[i + 1], ![i + 1] = pipe[i]]
        BY <2>9 DEF WireFault
      <3>2. /\ SubSeq(pipe, 1, i - 1) \in Seq(Frame) /\ SubSeq(pipe, i + 1, Len(pipe)) \in Seq(Frame)
            /\ SubSeq(pipe, 1, i) \in Seq(Frame) /\ SubSeq(pipe, i, Len(pipe)) \in Seq(Frame)
        BY <1>2, <3>1
      <3>3. i < Len(pipe) =>
              [pipe EXCEPT ![i] = pipe[i + 1], ![i + 1] = pipe[i]] \in Seq(Frame)
        <4>1. SUFFICES ASSUME i < Len(pipe)
                       PROVE  [pipe EXCEPT ![i] = pipe[i + 1], ![i + 1] = pipe[i]] \in Seq(Frame)
          OBVIOUS
        <4>2. i + 1 \in 1 .. Len(pipe)
          BY <1>2, <4>1
        <4>3. QED
          BY <1>2, <4>2
      <3>4. UNCHANGED outgoing
        BY <2>9 DEF WireFault
      <3>5. \A p \in Seq(Frame), q \in Seq(Frame) : p \o q \in Seq(Frame)
        OBVIOUS
      <3>6. pipe' \in Seq(Frame)
        BY <3>1, <3>2, <3>3, <3>5
      <3>7. QED
        BY <1>2, <3>4, <3>6
    <2>10. CASE Post \/ PostRefused \/ RecordEvent \/ EndBody \/ EmitEvent \/ EndTask
                \/ BeginCut \/ AddChunk \/ Halve
      BY <2>1, <2>10 DEF Post, PostRefused, RecordEvent, EndBody, EmitEvent, EndTask, BeginCut,
                         AddChunk, Halve, streamVars
    <2>11. CASE ReadEvent \/ ReadChunk
      BY <2>3, <2>11 DEF ReadEvent, ReadChunk, Reads
    <2>12. CASE ReadBadLine \/ ReadAnswer \/ ReadEnd \/ CtxEnds
      BY <2>2, <2>12 DEF ReadBadLine, ReadAnswer, ReadEnd, CtxEnds, EndCall
    <2>13. QED
      BY <2>4, <2>5, <2>6, <2>7, <2>8, <2>9, <2>10, <2>11, <2>12
         DEF StreamNext, Client, Writer, Handler
  <1>10. sizes' \in Seq(Sizes)
    BY <1>1 DEF Grows
  <1>11. QED
    BY <1>4, <1>5, <1>6, <1>7, <1>8, <1>9, <1>10 DEF Typed, StreamTypeOK, Part, Event

-----------------------------------------------------------------------------
(* The rest of two sequences joined. *)
LEMMA TailOfJoin ==
  ASSUME NEW T, NEW p \in Seq(T), NEW o \in Seq(T), p # <<>>
  PROVE  /\ p \o o \in Seq(T) /\ p \o o # <<>> /\ (p \o o)[1] = p[1]
         /\ Tail(p \o o) = Tail(p) \o o
  <1>1. /\ p \o o \in Seq(T) /\ Len(p \o o) = Len(p) + Len(o) /\ Len(p) \in Nat \ {0} /\ Len(o) \in Nat
        /\ \A i \in 1 .. Len(p) + Len(o) : (p \o o)[i] = IF i <= Len(p) THEN p[i] ELSE o[i - Len(p)]
    BY ConcatProperties, EmptySeq
  <1>2. p \o o # <<>> /\ (p \o o)[1] = p[1]
    <2>1. 1 \in 1 .. Len(p) + Len(o) /\ 1 <= Len(p)
      BY <1>1
    <2>2. (p \o o)[1] = p[1]
      BY <1>1, <2>1
    <2>3. Len(p \o o) # 0
      BY <1>1
    <2>4. QED
      BY <2>2, <2>3
  <1>3. /\ Tail(p) \in Seq(T) /\ Len(Tail(p)) = Len(p) - 1
        /\ \A i \in 1 .. Len(Tail(p)) : Tail(p)[i] = p[i + 1]
    BY HeadTailProperties
  <1>4. PICK s : s = p \o o
    OBVIOUS
  <1>5. /\ Tail(s) \in Seq(T) /\ Len(Tail(s)) = Len(s) - 1
        /\ \A i \in 1 .. Len(Tail(s)) : Tail(s)[i] = s[i + 1]
    BY <1>1, <1>2, <1>4, HeadTailProperties
  <1>6. PICK t : t = Tail(p) \o o
    OBVIOUS
  <1>7. /\ t \in Seq(T) /\ Len(t) = Len(p) - 1 + Len(o)
        /\ \A i \in 1 .. Len(p) - 1 + Len(o) :
             t[i] = IF i <= Len(p) - 1 THEN Tail(p)[i] ELSE o[i - (Len(p) - 1)]
    BY <1>3, <1>6, ConcatProperties
  <1>8. Len(Tail(s)) = Len(t)
    BY <1>1, <1>4, <1>5, <1>7
  <1>9. ASSUME NEW i \in 1 .. Len(Tail(s)) PROVE Tail(s)[i] = t[i]
    <2>1. Tail(s)[i] = s[i + 1] /\ i \in 1 .. Len(p) - 1 + Len(o) /\ i + 1 \in 1 .. Len(p) + Len(o)
      BY <1>1, <1>4, <1>5, <1>9
    <2>2. CASE i <= Len(p) - 1
      <3>1. i + 1 <= Len(p) /\ i \in 1 .. Len(Tail(p))
        BY <1>1, <1>3, <1>9, <2>1, <2>2
      <3>2. QED
        BY <1>1, <1>3, <1>4, <1>7, <2>1, <2>2, <3>1
    <2>3. CASE ~(i <= Len(p) - 1)
      <3>1. ~(i + 1 <= Len(p)) /\ (i + 1) - Len(p) = i - (Len(p) - 1)
        BY <1>1, <2>1, <2>3
      <3>2. QED
        BY <1>1, <1>4, <1>7, <2>1, <2>3, <3>1
    <2>4. QED
      BY <2>2, <2>3
  <1>10. Tail(s) = t
    BY <1>5, <1>7, <1>8, <1>9, SeqEqual
  <1>11. QED
    BY <1>1, <1>2, <1>4, <1>6, <1>10

(* The first frame of an event may have any kind. *)
LEMMA AnyKindFirst ==
  ASSUME NEW S, NEW n, NEW k, NEW k2, NEW m, Chained(S, n, 0, k, m)
  PROVE  Chained(S, n, 0, k2, m)
  BY DEF Chained, Continues

(* An assembly has pieces. *)
LEMMA GotSome ==
  ASSUME StreamInv, InOrder, DOMAIN chunks # {}
  PROVE  /\ Got \in Nat \ {0} /\ Got = Assembly.parts /\ GotKind = Assembly.kind
         /\ Got = chunks[wire[Awaited]].parts
  <1>1. PartOf(Assembly, Awaited, wire, sizes) /\ DOMAIN chunks = {wire[Awaited]}
    BY DEF InOrder
  <1>2. Assembly.parts \in 1 .. Assembly.total - 1
    BY <1>1 DEF PartOf
  <1>3. Assembly \in Part
    BY <1>1 DEF StreamInv, Typed, Part, Assembly
  <1>4. QED
    BY <1>2, <1>3 DEF Got, GotKind, Part, Assembly

(* The frame to come is the next piece of the next event. *)
LEMMA NextFrame ==
  ASSUME StreamInv, Inv, InOrder, pipe # <<>>
  PROVE  /\ Continues(Line, Awaited, Got, GotKind, Len(wire))
         /\ OfEvent(Line) =>
              /\ Chained(Tail(pipe) \o outgoing, NextEvent(Line), NextPiece(Line), Line.kind, Len(wire))
              /\ AtWork => Complete(Tail(pipe) \o outgoing, NextEvent(Line), NextPiece(Line), Len(wire))
  <1>1. PICK S : S = pipe \o outgoing
    OBVIOUS
  <1>2. /\ S \in Seq(Frame) /\ S # <<>> /\ S[1] = Line /\ Tail(S) = Tail(pipe) \o outgoing
    BY <1>1, StreamTyped, TailOfJoin, FirstFrame
  <1>3. /\ Chained(S, Awaited, Got, GotKind, Len(wire))
        /\ AtWork => Complete(S, Awaited, Got, Len(wire))
    BY <1>1 DEF InOrder
  <1>4. Continues(Line, Awaited, Got, GotKind, Len(wire))
    BY <1>2, <1>3 DEF Chained
  <1>5. ASSUME OfEvent(Line)
        PROVE  /\ Chained(Tail(S), NextEvent(Line), NextPiece(Line), Line.kind, Len(wire))
               /\ AtWork => Complete(Tail(S), NextEvent(Line), NextPiece(Line), Len(wire))
    BY <1>2, <1>3, <1>5, ChainRead
  <1>6. QED
    BY <1>2, <1>4, <1>5

(* A step that moves frames towards the client keeps the order. *)
LEMMA OrderKept ==
  ASSUME StreamInv, Inv, Grows, InOrder, UNCHANGED <<chunks, delivered, wire>>,
         pipe' \o outgoing' = pipe \o outgoing, AtWork' => AtWork
  PROVE  InOrder'
  <1>1. wire \in Seq(Nat) /\ sizes \in Seq(Sizes) /\ Len(wire) <= Len(sizes)
    BY StreamTyped
  <1>2. ASSUME DOMAIN chunks # {}
        PROVE  /\ Awaited <= Len(wire) /\ DOMAIN chunks = {wire[Awaited]}
               /\ PartOf(Assembly, Awaited, wire, sizes')
    <2>1. /\ Awaited <= Len(wire) /\ DOMAIN chunks = {wire[Awaited]}
          /\ PartOf(Assembly, Awaited, wire, sizes)
      BY <1>2 DEF InOrder
    <2>2. wire' \in Seq(Nat) /\ sizes' \in Seq(Sizes) /\ Extends(wire', wire) /\ Extends(sizes', sizes)
      BY DEF Grows
    <2>3. PartOf(Assembly, Awaited, wire', sizes')
      BY <1>1, <2>1, <2>2, PartStays
    <2>4. QED
      BY <2>1, <2>3
  <1>3. Awaited' = Awaited /\ Assembly' = Assembly /\ Got' = Got /\ GotKind' = GotKind
    BY DEF Awaited, Assembly, Got, GotKind
  <1>4. /\ Chained(pipe \o outgoing, Awaited, Got, GotKind, Len(wire))
        /\ AtWork => Complete(pipe \o outgoing, Awaited, Got, Len(wire))
    BY DEF InOrder
  <1>5. /\ Chained(pipe' \o outgoing', Awaited', Got', GotKind', Len(wire'))
        /\ AtWork' => Complete(pipe' \o outgoing', Awaited', Got', Len(wire'))
    BY <1>3, <1>4
  <1>6. DOMAIN chunks' # {} => /\ Awaited' <= Len(wire') /\ DOMAIN chunks' = {wire'[Awaited']}
                               /\ PartOf(Assembly', Awaited', wire', sizes')
    BY <1>2, <1>3
  <1>7. QED
    BY <1>5, <1>6 DEF InOrder

(* More frames follow what is on its way. *)
LEMMA OrderJoined ==
  ASSUME StreamInv, Inv, Grows, InOrder, UNCHANGED <<chunks, delivered, pipe>>,
         outgoing = <<>>, AtWork, outgoing' \in Seq(Frame), outgoing' # <<>>, Len(wire) \in Nat,
         NEW k, Chained(outgoing', Len(wire) + 1, 0, k, Len(wire')),
         AtWork' => Complete(outgoing', Len(wire) + 1, 0, Len(wire'))
  PROVE  InOrder'
  <1>1. /\ wire \in Seq(Nat) /\ sizes \in Seq(Sizes) /\ Len(wire) <= Len(sizes) /\ Len(sizes) \in Nat
        /\ pipe \in Seq(Frame) /\ Len(delivered) \in Nat
    BY StreamTyped
  <1>2. pipe \o outgoing = pipe
    BY <1>1
  <1>3. /\ Chained(pipe, Awaited, Got, GotKind, Len(wire))
        /\ Complete(pipe, Awaited, Got, Len(wire))
    BY <1>2 DEF InOrder
  <1>4. \A j \in 1 .. Len(pipe) : OfEvent(pipe[j])
    <2>1. SUFFICES ASSUME NEW j \in 1 .. Len(pipe) PROVE OfEvent(pipe[j])
      OBVIOUS
    <2>2. Sound(pipe[j], wire, sizes, step, server) /\ pipe[j] \in Frame
      BY <1>1 DEF StreamInv, Framed
    <2>3. pipe[j].is \notin {"answer", "error", "cut"}
      BY <2>2 DEF Sound, AtWork
    <2>4. QED
      BY <2>2, <2>3, FrameFields DEF OfEvent
  <1>5. /\ Chained(pipe \o outgoing', Awaited, Got, GotKind, Len(wire'))
        /\ AtWork' => Complete(pipe \o outgoing', Awaited, Got, Len(wire'))
    BY <1>1, <1>3, <1>4, ChainJoin
  <1>6. wire' \in Seq(Nat) /\ sizes' \in Seq(Sizes) /\ Extends(wire', wire) /\ Extends(sizes', sizes)
    BY DEF Grows
  <1>7. Awaited' = Awaited
    BY DEF Awaited
  <1>8. CASE DOMAIN chunks = {}
    <2>1. Got' = Got /\ GotKind' = GotKind /\ DOMAIN chunks' = {}
      BY <1>8 DEF Got, GotKind
    <2>2. QED
      BY <1>5, <1>7, <2>1 DEF InOrder
  <1>9. CASE DOMAIN chunks # {}
    <2>1. /\ Awaited <= Len(wire) /\ DOMAIN chunks = {wire[Awaited]}
          /\ PartOf(Assembly, Awaited, wire, sizes)
      BY <1>9 DEF InOrder
    <2>2. PartOf(Assembly, Awaited, wire', sizes') /\ wire'[Awaited] = wire[Awaited]
      BY <1>1, <1>6, <2>1, PartStays
    <2>3. Assembly' = Assembly /\ Got' = Got /\ GotKind' = GotKind
      BY <1>7, <2>2 DEF Assembly, Got, GotKind
    <2>4. Awaited <= Len(wire')
      <3>1. Len(wire) <= Len(wire') /\ Len(wire') \in Nat /\ Len(wire) \in Nat /\ Awaited \in Nat
        BY <1>1, <1>6 DEF Extends, Awaited
      <3>2. QED
        BY <2>1, <3>1
    <2>5. QED
      BY <1>5, <1>7, <2>1, <2>2, <2>3, <2>4 DEF InOrder
  <1>10. QED
    BY <1>8, <1>9

-----------------------------------------------------------------------------
(* An event read in one frame is the awaited one. *)
LEMMA EventInOrder ==
  ASSUME StreamInv, Inv, Inv', InOrder, DeliveredInOrder, ReadEvent
  PROVE  InOrder' /\ DeliveredInOrder'
  <1>1. /\ wire \in Seq(Nat) /\ Len(wire) \in Nat /\ Len(delivered) \in Nat
    BY StreamTyped
  <1>2. pipe # <<>> /\ pipe' = Tail(pipe) /\ UNCHANGED <<outgoing, step, server>>
    BY DEF ReadEvent, Reads, vars
  <1>3. /\ OfEvent(Line) /\ PieceOf(Line) = 0 /\ IsLast(Line)
        /\ EventOf(Line) \in 1 .. Len(wire) /\ Line.seq = wire[EventOf(Line)]
        /\ Line.payload = Bytes(EventOf(Line), sizes[EventOf(Line)])
    BY EventWhole
  <1>4. /\ EventOf(Line) = Awaited /\ Got = 0
        /\ Chained(pipe' \o outgoing', NextEvent(Line), NextPiece(Line), Line.kind, Len(wire))
        /\ AtWork => Complete(pipe' \o outgoing', NextEvent(Line), NextPiece(Line), Len(wire))
    BY <1>2, <1>3, NextFrame DEF Continues
  <1>5. DOMAIN chunks = {}
    BY <1>4, GotSome
  <1>6. NextEvent(Line) = Awaited + 1 /\ NextPiece(Line) = 0
    BY <1>3, <1>4 DEF NextEvent, NextPiece
  <1>7. PICK e \in Event :
          /\ e = [seq |-> Line.seq, kind |-> Line.kind, payload |-> Line.payload]
          /\ delivered' = Append(delivered, e) /\ UNCHANGED <<wire, sizes, chunks>>
          /\ \E n \in 1 .. Len(wire) : e.payload = Bytes(n, sizes[n]) /\ e.seq = wire[n]
    BY EventDelivered
  <1>8. Awaited <= Len(wire) /\ e.payload = Bytes(Awaited, sizes[Awaited]) /\ e.seq = wire[Awaited]
    <2>1. Awaited \in 1 .. Len(wire)
      BY <1>3, <1>4
    <2>2. QED
      BY <1>1, <1>3, <1>4, <1>7, <2>1
  <1>9. DeliveredInOrder' /\ Len(delivered') = Len(delivered) + 1
    BY <1>7, <1>8, Delivers
  <1>10. Awaited' = Awaited + 1
    BY <1>1, <1>9 DEF Awaited
  <1>11. Got' = 0 /\ GotKind' = "none" /\ DOMAIN chunks' = {}
    BY <1>5, <1>7 DEF Got, GotKind
  <1>12. Chained(pipe' \o outgoing', Awaited + 1, 0, "none", Len(wire))
    BY <1>4, <1>6, AnyKindFirst
  <1>13. AtWork' => Complete(pipe' \o outgoing', Awaited + 1, 0, Len(wire))
    BY <1>2, <1>4, <1>6 DEF AtWork
  <1>14. InOrder'
    BY <1>7, <1>10, <1>11, <1>12, <1>13 DEF InOrder
  <1>15. QED
    BY <1>9, <1>14

(* The chunk to come continues what there is of its event. *)
LEMMA ChunkAwaited ==
  ASSUME StreamInv, Inv, InOrder, Reads("chunk")
  PROVE  /\ ~Rejects(Line) /\ EventOf(Line) = Awaited /\ Line.seq = wire[Awaited]
         /\ Awaited \in 1 .. Len(wire)
         /\ Known(Line) => PartOf(chunks[Line.seq], Awaited, wire, sizes)
         /\ DOMAIN chunks \subseteq {Line.seq}
         /\ Chained(Tail(pipe) \o outgoing, NextEvent(Line), NextPiece(Line), Line.kind, Len(wire))
         /\ AtWork => Complete(Tail(pipe) \o outgoing, NextEvent(Line), NextPiece(Line), Len(wire))
  <1>1. pipe # <<>>
    BY DEF Reads
  <1>2. /\ OfEvent(Line) /\ PieceOf(Line) = Line.index /\ Line.index \in Nat
        /\ EventOf(Line) \in 1 .. Len(wire) /\ Line.seq = wire[EventOf(Line)]
        /\ Line.total = ChunkCount(sizes[EventOf(Line)])
    BY ChunkFits
  <1>3. /\ EventOf(Line) = Awaited /\ Line.index = Got /\ (Got > 0 => Line.kind = GotKind)
        /\ Chained(Tail(pipe) \o outgoing, NextEvent(Line), NextPiece(Line), Line.kind, Len(wire))
        /\ AtWork => Complete(Tail(pipe) \o outgoing, NextEvent(Line), NextPiece(Line), Len(wire))
    BY <1>1, <1>2, NextFrame DEF Continues
  <1>4. CASE DOMAIN chunks = {}
    <2>1. ~Known(Line) /\ Got = 0
      BY <1>4 DEF Known, Got
    <2>2. ~Rejects(Line)
      BY <1>3, <2>1 DEF Rejects, Received
    <2>3. QED
      BY <1>2, <1>3, <1>4, <2>1, <2>2
  <1>5. CASE DOMAIN chunks # {}
    <2>1. /\ DOMAIN chunks = {wire[Awaited]} /\ PartOf(Assembly, Awaited, wire, sizes)
      BY <1>5 DEF InOrder
    <2>2. Got \in Nat \ {0} /\ Got = Assembly.parts /\ GotKind = Assembly.kind
      BY <1>5, GotSome
    <2>3. Known(Line) /\ chunks[Line.seq] = Assembly
      BY <1>2, <1>3, <2>1 DEF Known, Assembly
    <2>4. Assembly.total = ChunkCount(sizes[Awaited])
      BY <2>1 DEF PartOf
    <2>5. Line.kind = GotKind
      BY <1>3, <2>2
    <2>6. ~Rejects(Line)
      BY <1>2, <1>3, <2>2, <2>3, <2>4, <2>5 DEF Rejects, Received
    <2>7. QED
      BY <1>2, <1>3, <2>1, <2>3, <2>6
  <1>6. QED
    BY <1>4, <1>5

(* A chunk read continues the awaited event. *)
LEMMA ChunkInOrder ==
  ASSUME StreamInv, Inv, Inv', InOrder, DeliveredInOrder, ReadChunk
  PROVE  InOrder' /\ DeliveredInOrder'
  <1>1. /\ wire \in Seq(Nat) /\ Len(wire) \in Nat /\ Len(delivered) \in Nat
    BY StreamTyped
  <1>2. Reads("chunk") /\ pipe' = Tail(pipe) /\ UNCHANGED <<outgoing, step, server>>
    BY DEF ReadChunk, vars
  <1>3. /\ ~Rejects(Line) /\ EventOf(Line) = Awaited /\ Line.seq = wire[Awaited]
        /\ Awaited \in 1 .. Len(wire)
        /\ Known(Line) => PartOf(chunks[Line.seq], Awaited, wire, sizes)
        /\ DOMAIN chunks \subseteq {Line.seq}
        /\ Chained(pipe' \o outgoing', NextEvent(Line), NextPiece(Line), Line.kind, Len(wire))
        /\ AtWork' => Complete(pipe' \o outgoing', NextEvent(Line), NextPiece(Line), Len(wire))
    BY <1>2, ChunkAwaited DEF AtWork
  <1>4. /\ Received(Line) = Line.index
        /\ Line.index + 1 = Line.total => Joined(Line) = Bytes(Awaited, sizes[Awaited])
        /\ Line.index + 1 # Line.total =>
             PartOf([kind |-> Line.kind, total |-> Line.total, parts |-> Received(Line) + 1,
                     payload |-> Joined(Line)], Awaited, wire, sizes)
    BY <1>2, <1>3, JoinedPart
  <1>5. OfEvent(Line) /\ PieceOf(Line) = Line.index /\ (IsLast(Line) <=> Line.index + 1 = Line.total)
    BY <1>2, ChunkFits
  <1>6. CASE Received(Line) + 1 = Line.total
    <2>1. PICK e \in Event :
            /\ e = [seq |-> Line.seq, kind |-> Line.kind, payload |-> Joined(Line)]
            /\ delivered' = Append(delivered, e) /\ UNCHANGED <<wire, sizes>>
            /\ chunks' = Without(Line.seq)
            /\ e.seq # 0 =>
                 \E n \in 1 .. Len(wire) : e.payload = Bytes(n, sizes[n]) /\ e.seq = wire[n]
      BY <1>6, LastChunkDelivered
    <2>2. Awaited <= Len(wire) /\ e.payload = Bytes(Awaited, sizes[Awaited]) /\ e.seq = wire[Awaited]
      BY <1>1, <1>3, <1>4, <1>6, <2>1
    <2>3. DeliveredInOrder' /\ Len(delivered') = Len(delivered) + 1
      BY <2>1, <2>2, Delivers
    <2>4. Awaited' = Awaited + 1
      BY <1>1, <2>3 DEF Awaited
    <2>5. DOMAIN chunks' = {}
      BY <1>3, <2>1 DEF Without
    <2>6. Got' = 0 /\ GotKind' = "none"
      BY <2>5 DEF Got, GotKind
    <2>7. NextEvent(Line) = Awaited + 1 /\ NextPiece(Line) = 0
      BY <1>3, <1>4, <1>5, <1>6 DEF NextEvent, NextPiece
    <2>8. Chained(pipe' \o outgoing', Awaited + 1, 0, "none", Len(wire))
      BY <1>3, <2>7, AnyKindFirst
    <2>9. InOrder'
      BY <1>3, <2>1, <2>4, <2>5, <2>6, <2>7, <2>8 DEF InOrder
    <2>10. QED
      BY <2>3, <2>9
  <1>7. CASE Received(Line) + 1 # Line.total
    <2>1. PICK a \in Part :
            /\ a = [kind |-> Line.kind, total |-> Line.total, parts |-> Received(Line) + 1,
                    payload |-> Joined(Line)]
            /\ chunks' = With(Line.seq, a) /\ UNCHANGED <<wire, sizes, delivered>>
      BY <1>7, ChunkKept
    <2>2. DeliveredInOrder' /\ Awaited' = Awaited
      BY <2>1 DEF DeliveredInOrder, Awaited
    <2>3. PartOf(a, Awaited, wire, sizes)
      BY <1>4, <1>7, <2>1
    <2>4. DOMAIN chunks' = {wire[Awaited]} /\ chunks'[wire[Awaited]] = a
      <3>1. chunks' = [s \in DOMAIN chunks \cup {wire[Awaited]} |->
                         IF s = wire[Awaited] THEN a ELSE chunks[s]]
        BY <1>3, <2>1 DEF With
      <3>2. DOMAIN chunks \cup {wire[Awaited]} = {wire[Awaited]}
        BY <1>3
      <3>3. QED
        BY <3>1, <3>2
    <2>5. Assembly' = a /\ Got' = Line.index + 1 /\ GotKind' = Line.kind
      BY <1>4, <2>1, <2>2, <2>4 DEF Assembly, Got, GotKind
    <2>6. NextEvent(Line) = Awaited /\ NextPiece(Line) = Line.index + 1
      BY <1>3, <1>4, <1>5, <1>7 DEF NextEvent, NextPiece
    <2>7. Chained(pipe' \o outgoing', Awaited', Got', GotKind', Len(wire'))
          /\ (AtWork' => Complete(pipe' \o outgoing', Awaited', Got', Len(wire')))
      BY <1>3, <2>1, <2>2, <2>5, <2>6
    <2>8. /\ Awaited' <= Len(wire') /\ DOMAIN chunks' = {wire'[Awaited']}
          /\ PartOf(Assembly', Awaited', wire', sizes')
      BY <1>1, <1>3, <2>1, <2>2, <2>3, <2>4, <2>5
    <2>9. QED
      BY <2>2, <2>7, <2>8 DEF InOrder
  <1>8. QED
    BY <1>6, <1>7

(* Every step keeps the order. *)
LEMMA OrderedStep ==
  ASSUME StreamInv, Inv, Inv', StreamNext
  PROVE  Ordered'
  <1> DEFINE O == /\ DeliveredInOrder'
                  /\ Attended' => InOrder'
                  /\ call' = "ok" => step' = "over" /\ Len(delivered') = Len(wire')
                  /\ call' = "error" => server' = "crashed"
  <1>1. SUFFICES ASSUME faults' = 0 PROVE O
    BY DEF Ordered
  <1>2. Grows
    BY HistoryGrows
  <1>3. faults = 0 /\ ~WireFault
    <2>1. faults \in Nat
      BY StreamTyped
    <2>2. ~WireFault
      BY <1>1, <2>1 DEF WireFault
    <2>3. faults' = faults
      BY <2>2 DEF StreamNext, Post, PostRefused, Client, ReadEvent, ReadChunk, ReadBadLine,
         ReadAnswer,
       ReadEnd, CtxEnds, EndCall, Writer, WriteFrame, WriteFails, Handler, RecordEvent,
       BeginCut, AddChunk, Halve, NotifyFrames,
       AnswerCall, EndBody, EmitEvent, EndTask, AnswerError, Crash, streamVars
    <2>4. QED
      BY <1>1, <2>2, <2>3
  <1>4. /\ DeliveredInOrder
        /\ Attended => InOrder
        /\ call = "ok" => step = "over" /\ Len(delivered) = Len(wire)
        /\ call = "error" => server = "crashed"
    BY <1>3 DEF StreamInv, Ordered
  <1>5. wire \in Seq(Nat) /\ Len(wire) \in Nat /\ pipe \in Seq(Frame) /\ outgoing \in Seq(Frame)
        /\ Len(delivered) \in Nat
    BY StreamTyped
  <1>6. Counted
    BY DEF StreamInv
  <1>7. ASSUME UNCHANGED <<chunks, delivered>>, call' = call \/ call' = "reading", Attended' => InOrder'
        PROVE  O
    <2>1. DeliveredInOrder'
      BY <1>2, <1>4, <1>7, WholeKept
    <2>2. ASSUME call' = "ok" PROVE step' = "over" /\ Len(delivered') = Len(wire')
      <3>1. step = "over" /\ Len(delivered) = Len(wire) /\ step' = "over"
        BY <1>2, <1>4, <1>7, <2>2 DEF Grows
      <3>2. Len(wire') = Len(wire)
        <4>1. ~NotifyFrames
          BY <3>1 DEF NotifyFrames, Notify
        <4>2. UNCHANGED wire
          BY <4>1 DEF StreamNext, Post, PostRefused, Client, ReadEvent, ReadChunk, ReadBadLine,
             ReadAnswer, ReadEnd, CtxEnds, Writer, WriteFrame, WriteFails, Handler, RecordEvent,
             BeginCut, AddChunk, Halve, AppendEvent, AnswerCall, Return, EndBody, EmitEvent,
             Produce, EndTask, Finish, Evict,
             AnswerError, Crash, WireFault, vars
        <4>3. QED
          BY <4>2
      <3>3. QED
        BY <1>7, <3>1, <3>2
    <2>3. call' = "error" => server' = "crashed"
      BY <1>2, <1>4, <1>7 DEF Grows
    <2>4. QED
      BY <1>7, <2>1, <2>2, <2>3
  <1>8. CASE Post \/ RecordEvent \/ EndTask \/ EmitEvent \/ EndBody \/ BeginCut \/ AddChunk \/ Halve
    <2>1. /\ UNCHANGED <<chunks, delivered, wire, pipe, outgoing>> /\ (call' = call \/ call' = "reading")
          /\ Attended' => Attended
          /\ AtWork' => AtWork
      BY <1>8 DEF Post, RecordEvent, AppendEvent, EndTask, Finish, Evict, EmitEvent, Produce,
                  EndBody, BeginCut, AddChunk, Halve, vars, streamVars, Attended, AtWork
    <2>2. Attended' => InOrder'
      BY <1>2, <1>4, <2>1, OrderKept
    <2>3. QED
      BY <1>7, <2>1, <2>2
  <1>9. CASE PostRefused
    <2>1. UNCHANGED <<chunks, delivered>> /\ call' = "refused"
      BY <1>9 DEF PostRefused
    <2>2. DeliveredInOrder'
      BY <1>2, <1>4, <2>1, WholeKept
    <2>3. QED
      BY <2>1, <2>2 DEF Attended
  <1>10. CASE WriteFrame
    <2>1. /\ UNCHANGED <<chunks, delivered, wire, step, server, call>> /\ outgoing # <<>>
          /\ pipe' = Append(pipe, Head(outgoing)) /\ outgoing' = Tail(outgoing)
      BY <1>10 DEF WriteFrame, vars
    <2>2. pipe' \o outgoing' = pipe \o outgoing
      <3>1. PICK f \in Frame, t \in Seq(Frame) : f = Head(outgoing) /\ t = Tail(outgoing)
        <4>1. Head(outgoing) \in Frame /\ Tail(outgoing) \in Seq(Frame)
          BY <1>5, <2>1, HeadTailProperties
        <4>2. QED
          BY <4>1
      <3>2. outgoing = <<f>> \o t
        BY <1>5, <2>1, <3>1
      <3>3. pipe' = pipe \o <<f>> /\ <<f>> \in Seq(Frame)
        BY <1>5, <2>1, <3>1, AppendIsConcat
      <3>4. (pipe \o <<f>>) \o t = pipe \o (<<f>> \o t)
        BY <1>5, <3>3, ConcatAssociative
      <3>5. QED
        BY <2>1, <3>1, <3>2, <3>3, <3>4
    <2>3. Attended' => InOrder'
      BY <1>2, <1>4, <2>1, <2>2, OrderKept DEF Attended, AtWork
    <2>4. QED
      BY <1>7, <2>1, <2>3
  <1>11. CASE WriteFails
    <2>1. UNCHANGED <<chunks, delivered, call>> /\ outgoing # <<>> /\ ~open
      BY <1>11 DEF WriteFails
    <2>2. ~Attended'
      BY <1>6, <2>1 DEF Counted, Attended
    <2>3. QED
      BY <1>7, <2>1, <2>2
  <1>12. CASE NotifyFrames
    <2>1. UNCHANGED <<chunks, delivered, pipe, call>>
      BY <1>12 DEF NotifyFrames
    <2>2. PICK k : k = event.kind
      OBVIOUS
    <2>3. /\ outgoing = <<>> /\ AtWork
          /\ outgoing' \in Seq(Frame) /\ outgoing' # <<>>
          /\ Chained(outgoing', Len(wire) + 1, 0, k, Len(wire'))
          /\ Complete(outgoing', Len(wire) + 1, 0, Len(wire'))
      BY <1>2, <1>12, <2>2, FramesAreSound
    <2>4. Attended' => InOrder'
      BY <1>2, <1>4, <1>5, <2>1, <2>3, OrderJoined DEF Attended
    <2>5. QED
      BY <1>7, <2>1, <2>4
  <1>13. CASE AnswerCall \/ AnswerError
    <2>1. /\ UNCHANGED <<chunks, delivered, pipe, call, wire>> /\ outgoing = <<>>
          /\ AtWork /\ ~AtWork'
      BY <1>13 DEF AnswerCall, AnswerError, Return, Handling, AtWork, vars
    <2>2. PICK f \in Frame : outgoing' = <<f>> /\ ~OfEvent(f)
      <3>1. [is |-> "answer"] \in Frame /\ [is |-> "error"] \in Frame
        BY DEF Frame
      <3>2. ~OfEvent([is |-> "answer"]) /\ ~OfEvent([is |-> "error"])
        BY DEF OfEvent
      <3>3. QED
        BY <1>13, <3>1, <3>2 DEF AnswerCall, AnswerError
    <2>3. /\ outgoing' \in Seq(Frame) /\ outgoing' # <<>> /\ outgoing'[1] = f /\ Len(outgoing') = 1
      BY <2>2
    <2>4. Chained(outgoing', Len(wire) + 1, 0, "none", Len(wire'))
      <3>1. 1 .. Len(outgoing') - 1 = {}
        BY <2>3
      <3>2. Continues(f, Len(wire) + 1, 0, "none", Len(wire'))
        BY <2>1, <2>2 DEF Continues
      <3>3. QED
        BY <2>3, <3>1, <3>2 DEF Chained
    <2>5. Attended' => InOrder'
      BY <1>2, <1>4, <1>5, <2>1, <2>3, <2>4, OrderJoined DEF Attended
    <2>6. QED
      BY <1>7, <2>1, <2>5
  <1>14. CASE Crash
    <2>1. /\ UNCHANGED <<chunks, delivered, call, wire, sizes>> /\ outgoing' = <<>> /\ ~AtWork'
      BY <1>14 DEF Crash, vars, AtWork
    <2>2. PICK a \in 0 .. Len(pipe) : \/ pipe' = SubSeq(pipe, 1, a)
                                      \/ pipe' = Append(SubSeq(pipe, 1, a), [is |-> "cut"])
      BY <1>14 DEF Crash
    <2>3. PICK S \in Seq(Frame) : S = pipe \o outgoing
      <3>1. pipe \o outgoing \in Seq(Frame)
        BY StreamTyped
      <3>2. QED
        BY <3>1
    <2>4. /\ Len(S) >= Len(pipe) /\ Len(S) \in Nat /\ Len(pipe) \in Nat
          /\ \A j \in 1 .. Len(pipe) : S[j] = pipe[j]
      <3>1. /\ Len(S) = Len(pipe) + Len(outgoing) /\ Len(pipe) \in Nat /\ Len(outgoing) \in Nat
            /\ \A j \in 1 .. Len(pipe) + Len(outgoing) :
                 S[j] = IF j <= Len(pipe) THEN pipe[j] ELSE outgoing[j - Len(pipe)]
        BY <1>5, <2>3, ConcatProperties
      <3>2. QED
        BY <3>1
    <2>5. PICK p : p = SubSeq(pipe, 1, a)
      OBVIOUS
    <2>6. p \in Seq(Frame) /\ Len(p) = a /\ \A i \in 1 .. a : i \in 1 .. Len(pipe) /\ p[i] = pipe[i]
      BY <1>5, <2>2, <2>5
    <2>7. PICK T \in Seq(Frame) : T = pipe'
      BY TypedStep DEF Typed
    <2>8. ASSUME NEW j \in 1 .. Len(T)
          PROVE  \/ j = Len(T) /\ T[j].is = "cut"
                 \/ j <= Len(S) /\ T[j] = S[j]
      <3>1. CASE T = p
        BY <2>4, <2>6, <2>8, <3>1
      <3>2. CASE T = Append(p, [is |-> "cut"])
        <4>1. [is |-> "cut"] \in Frame
          BY DEF Frame
        <4>2. Len(T) = a + 1 /\ T[a + 1] = [is |-> "cut"] /\ \A i \in 1 .. a : T[i] = p[i]
          BY <2>6, <3>2, <4>1, AppendProperties
        <4>3. j \in 1 .. a \/ j = a + 1
          BY <2>2, <2>8, <4>2
        <4>4. QED
          BY <2>4, <2>6, <4>2, <4>3
      <3>3. QED
        BY <2>2, <2>5, <2>7, <3>1, <3>2
    <2>9. pipe' \o outgoing' = T
      BY <2>1, <2>7
    <2>10. ASSUME Attended' PROVE InOrder'
      <3>1. InOrder
        BY <1>4, <2>1, <2>10 DEF Attended
      <3>2. Chained(S, Awaited, Got, GotKind, Len(wire))
        BY <2>3, <3>1 DEF InOrder
      <3>3. Chained(T, Awaited, Got, GotKind, Len(wire))
        BY <2>8, <3>2, ChainPrefix
      <3>4. Awaited' = Awaited /\ Assembly' = Assembly /\ Got' = Got /\ GotKind' = GotKind
        BY <2>1 DEF Awaited, Assembly, Got, GotKind
      <3>5. QED
        BY <2>1, <2>9, <3>1, <3>3, <3>4 DEF InOrder
    <2>11. QED
      BY <1>7, <2>1, <2>10
  <1>15. CASE ReadEvent
    <2>1. Attended /\ call' = "reading"
      BY <1>15 DEF ReadEvent, Reads, Attended
    <2>2. QED
      BY <1>4, <1>15, <2>1, EventInOrder
  <1>16. CASE ReadChunk
    <2>1. Attended /\ call' = "reading"
      BY <1>16 DEF ReadChunk, Reads, Attended
    <2>2. QED
      BY <1>4, <1>16, <2>1, ChunkInOrder
  <1>17. CASE ReadBadLine
    <2>1. Attended /\ pipe # <<>> /\ call = "reading"
          /\ (TooLarge(Line) \/ (Line.is = "chunk" /\ Rejects(Line)))
      BY <1>17 DEF ReadBadLine, Attended
    <2>2. Sound(Line, wire, sizes, step, server)
      BY <2>1, FirstFrame
    <2>3. ~TooLarge(Line)
      BY <2>2 DEF Sound, Genuine, IsFrame, OfEvent, TooLarge
    <2>4. Reads("chunk") /\ Rejects(Line)
      BY <2>1, <2>3 DEF Reads
    <2>5. QED
      BY <1>4, <2>1, <2>4, ChunkAwaited
  <1>18. CASE ReadAnswer
    <2>1. Attended /\ pipe # <<>> /\ UNCHANGED <<wire, step, server, chunks, delivered>>
      BY <1>18 DEF ReadAnswer, Reads, Attended, vars
    <2>2. Sound(Line, wire, sizes, step, server)
      BY <2>1, FirstFrame
    <2>3. Continues(Line, Awaited, Got, GotKind, Len(wire))
      BY <1>4, <2>1, NextFrame
    <2>4. /\ call' \in {"ok", "rpcerror", "error"}
          /\ call' = "ok" => Line.is = "answer"
          /\ call' = "error" => Line.is = "cut"
      BY <1>18 DEF ReadAnswer, Reads, EndCall
    <2>5. ASSUME Line.is = "answer" PROVE step = "over" /\ Len(delivered) = Len(wire)
      <3>1. Len(delivered) + 1 = Len(wire) + 1
        BY <2>3, <2>5 DEF Continues, Awaited
      <3>2. QED
        BY <1>5, <2>2, <2>5, <3>1 DEF Sound
    <2>6. Line.is = "cut" => server = "crashed"
      BY <2>2 DEF Sound
    <2>7. DeliveredInOrder'
      BY <1>2, <1>4, <2>1, WholeKept
    <2>8. QED
      BY <2>1, <2>4, <2>5, <2>6, <2>7 DEF Attended
  <1>19. CASE ReadEnd \/ CtxEnds
    <2>1. UNCHANGED <<chunks, delivered>> /\ call' \in {"closed", "cancelled"}
      BY <1>19 DEF ReadEnd, CtxEnds, EndCall
    <2>2. DeliveredInOrder'
      BY <1>2, <1>4, <2>1, WholeKept
    <2>3. QED
      BY <2>1, <2>2 DEF Attended
  <1>20. QED
    BY <1>3, <1>8, <1>9, <1>10, <1>11, <1>12, <1>13, <1>14, <1>15, <1>16, <1>17, <1>18, <1>19
       DEF StreamNext, Client, Writer, Handler

-----------------------------------------------------------------------------
(* The inductive invariant of the call. *)
StreamIInv == StreamInv /\ Numbered

(* The call starts so. *)
LEMMA StreamInitially == StreamInit => StreamIInv
  <1> SUFFICES ASSUME StreamInit PROVE StreamIInv
    OBVIOUS
  <1>1. /\ outgoing = <<>> /\ pipe = <<>> /\ open = TRUE /\ call = "posting" /\ chunks = <<>>
        /\ delivered = <<>> /\ sizes = <<>> /\ faults = 0 /\ server = "handling"
        /\ step = "idle" /\ wire = <<>> /\ cut = NoCut
    BY DEF StreamInit, Init
  <1>2. 1 .. Len(<<>>) = {} /\ 1 .. Len(<<>>) - 1 = {} /\ DOMAIN <<>> = {} /\ Len(<<>>) = 0
    OBVIOUS
  <1>3. Typed
    BY <1>1, <1>2, StreamAssumption DEF Typed, StreamTypeOK
  <1>4. Counted
    BY <1>1, <1>2 DEF Counted, Attended, AtWork
  <1>5. Framed /\ Assembled /\ DeliveredWhole /\ DeliveredInOrder
    BY <1>1, <1>2 DEF Framed, Assembled, DeliveredWhole, DeliveredInOrder
  <1>6. InOrder
    <2>1. pipe \o outgoing = <<>> /\ DOMAIN chunks = {} /\ Awaited = 1 /\ Got = 0 /\ Len(wire) = 0
      BY <1>1, <1>2 DEF Awaited, Got
    <2>2. Chained(<<>>, 1, 0, GotKind, 0) /\ Complete(<<>>, 1, 0, 0)
      BY <1>2 DEF Chained, Complete
    <2>3. QED
      BY <2>1, <2>2 DEF InOrder
  <1>7. Ordered
    BY <1>1, <1>5, <1>6 DEF Ordered
  <1>8. Numbered /\ Looped
    BY <1>1, <1>2 DEF Numbered, Looped
  <1>9. QED
    BY <1>3, <1>4, <1>5, <1>7, <1>8 DEF StreamIInv, StreamInv

(* Every step of the call keeps it. *)
LEMMA StreamInductive == StreamIInv /\ Inv /\ Inv' /\ [StreamNext]_allVars => StreamIInv'
  <1> SUFFICES ASSUME StreamIInv, Inv, Inv', [StreamNext]_allVars PROVE StreamIInv'
    OBVIOUS
  <1>1. CASE StreamNext
    <2>1. StreamInv /\ Numbered
      BY DEF StreamIInv
    <2>2. Typed' /\ Counted' /\ Framed' /\ Assembled' /\ DeliveredWhole' /\ Ordered'
          /\ Looped' /\ Numbered'
      BY <1>1, <2>1, TypedStep, CountedKept, FramedStep, WholeStep, OrderedStep, LoopStep, NumberedStep
    <2>3. QED
      BY <2>2 DEF StreamIInv, StreamInv
  <1>2. CASE UNCHANGED allVars
    <2>1. UNCHANGED <<outgoing, pipe, open, call, chunks, delivered, sizes, faults, server, wire, step,
                     cut, event>>
      BY <1>2 DEF allVars, streamVars, vars
    <2>2. /\ Typed /\ Counted /\ Framed /\ Assembled /\ DeliveredWhole /\ Ordered /\ Looped /\ Numbered
      BY DEF StreamIInv, StreamInv
    <2>3. Typed' /\ Framed' /\ Assembled' /\ DeliveredWhole' /\ Looped' /\ Numbered'
      BY <2>1, <2>2 DEF Typed, StreamTypeOK, Framed, Assembled, DeliveredWhole, Looped, LoopAt, Numbered
    <2>4. Counted'
      BY <2>1, <2>2 DEF Counted, Attended, AtWork
    <2>5. Ordered'
      BY <2>1, <2>2 DEF Ordered, DeliveredInOrder, InOrder, Attended, AtWork, Awaited,
         Assembly, Got, GotKind
    <2>6. QED
      BY <2>3, <2>4, <2>5 DEF StreamIInv, StreamInv
  <1>3. QED
    BY <1>1, <1>2

(* What it says of the client is StreamFaithful. *)
LEMMA FaithfulFrom == StreamInv /\ Inv => StreamFaithful
  <1> SUFFICES ASSUME StreamInv, Inv PROVE StreamFaithful
    OBVIOUS
  <1>1. TypeOK /\ StreamTypeOK /\ WireInOrder
    BY DEF StreamInv, Typed, Inv
  <1>2. /\ wire \in Seq(Nat) /\ Len(wire) \in Nat /\ Len(sizes) \in Nat /\ Len(wire) <= Len(sizes)
        /\ Len(delivered) \in Nat
    BY StreamTyped
  <1>3. \A n \in 1 .. Len(wire) : n \in 1 .. Len(sizes) /\ Payload(n) = Bytes(n, sizes[n])
    BY <1>2 DEF Payload, Bytes
  <1>4. DeliveredWhole /\ Ordered
    BY DEF StreamInv
  <1>5. WholeEvents
    <2>1. SUFFICES ASSUME NEW i \in 1 .. Len(delivered), delivered[i].seq # 0 \/ faults = 0
                   PROVE  \E n \in 1 .. Len(sizes) :
                            /\ delivered[i].payload = Payload(n)
                            /\ n \in DOMAIN wire => delivered[i].seq = wire[n]
      BY DEF WholeEvents
    <2>2. PICK n \in 1 .. Len(wire) : /\ delivered[i].payload = Bytes(n, sizes[n])
                                      /\ delivered[i].seq = wire[n]
      <3>1. CASE delivered[i].seq # 0
        BY <1>4, <3>1 DEF DeliveredWhole
      <3>2. CASE faults = 0
        <4>1. /\ i <= Len(wire) /\ delivered[i].payload = Bytes(i, sizes[i])
              /\ delivered[i].seq = wire[i]
          BY <1>4, <3>2 DEF Ordered, DeliveredInOrder
        <4>2. i \in 1 .. Len(wire)
          BY <1>2, <4>1
        <4>3. QED
          BY <4>1, <4>2
      <3>3. QED
        BY <2>1, <3>1, <3>2
    <2>3. n \in 1 .. Len(sizes) /\ Payload(n) = Bytes(n, sizes[n])
      BY <1>3
    <2>4. QED
      BY <2>2, <2>3
  <1>6. FaithfulWire
    <2>1. SUFFICES ASSUME faults = 0
                   PROVE  /\ \A i \in 1 .. Len(delivered) :
                               i <= Len(sizes) /\ delivered[i].payload = Payload(i)
                          /\ call = "ok" => Len(delivered) = Len(sizes)
                          /\ call = "error" => server = "crashed"
      BY DEF FaithfulWire
    <2>2. /\ DeliveredInOrder /\ (call = "error" => server = "crashed")
          /\ call = "ok" => step = "over" /\ Len(delivered) = Len(wire)
      BY <1>4, <2>1 DEF Ordered
    <2>3. ASSUME NEW i \in 1 .. Len(delivered)
          PROVE  i <= Len(sizes) /\ delivered[i].payload = Payload(i)
      <3>1. i <= Len(wire) /\ delivered[i].payload = Bytes(i, sizes[i])
        BY <2>2 DEF DeliveredInOrder
      <3>2. i \in 1 .. Len(wire)
        BY <1>2, <3>1
      <3>3. QED
        BY <1>2, <1>3, <3>1, <3>2
    <2>4. call = "ok" => Len(delivered) = Len(sizes)
      BY <1>2, <2>2 DEF StreamInv, Counted
    <2>5. QED
      BY <2>2, <2>3, <2>4
  <1>7. QED
    BY <1>1, <1>5, <1>6 DEF StreamFaithful

(* Every step of the call is a step of the ring, or leaves it alone. *)
LEMMA StreamStepsRing == StreamNext => [Next]_vars
  <1> SUFFICES ASSUME StreamNext PROVE [Next]_vars
    OBVIOUS
  <1>1. CASE Post \/ PostRefused \/ CtxEnds
    BY <1>1 DEF Post, PostRefused, CtxEnds
  <1>2. CASE Client
    BY <1>2 DEF Client, ReadEvent, ReadChunk, ReadBadLine, ReadAnswer, ReadEnd
  <1>3. CASE Writer
    BY <1>3 DEF Writer, WriteFrame, WriteFails
  <1>4. CASE Handler
    <2>1. CASE RecordEvent
      BY <2>1 DEF RecordEvent, Next
    <2>2. CASE NotifyFrames
      BY <2>2 DEF NotifyFrames, Next
    <2>3. CASE AnswerCall
      BY <2>3 DEF AnswerCall, Next
    <2>4. CASE EndBody
      BY <2>4 DEF EndBody
    <2>5. CASE BeginCut \/ AddChunk \/ Halve
      BY <2>5 DEF BeginCut, AddChunk, Halve
    <2> QED
      BY <1>4, <2>1, <2>2, <2>3, <2>4, <2>5 DEF Handler
  <1>5. CASE EmitEvent
    BY <1>5 DEF EmitEvent, Next
  <1>6. CASE EndTask
    BY <1>6 DEF EndTask, Next
  <1>7. CASE AnswerError \/ Crash \/ WireFault
    BY <1>7 DEF AnswerError, Crash, WireFault
  <1> QED
    BY <1>1, <1>2, <1>3, <1>4, <1>5, <1>6, <1>7 DEF StreamNext

(* A dispatch.run call, with every failure of it, is a behaviour of the    *)
(* ring of its task.                                                       *)
THEOREM CallImplementsRing == StreamSpec => Spec
  <1>1. StreamInit => Init
    BY DEF StreamInit
  <1>2. [StreamNext]_allVars => [Next]_vars
    BY StreamStepsRing DEF allVars
  <1> QED
    BY <1>1, <1>2, PTL DEF StreamSpec, Spec

(* While a call runs, a replay asked for by another client is exact, for   *)
(* any ring size, frame sizes and failures of the connection.              *)
THEOREM ReplayExactInCall == StreamSpec => []ReplayExact
  BY CallImplementsRing, ReplayIsExact, PTL

(* The call keeps its invariant. *)
LEMMA StreamInvariant == StreamSpec => []StreamIInv
  <1>1. StreamSpec => []Inv
    BY CallImplementsRing, RingInvariant, PTL
  <1>2. QED
    BY <1>1, StreamInitially, StreamInductive, PTL DEF StreamSpec

(* Whatever the sizes, the limits and the failures, no event reaches the   *)
(* callback in pieces or altered, and on a sound wire the callback is      *)
(* given every event in order before the answer (client.go:229-303 and     *)
(* 559-621, server.go:340-360).                                            *)
THEOREM StreamIsFaithful == StreamSpec => []StreamFaithful
  <1>1. StreamSpec => []Inv
    BY CallImplementsRing, RingInvariant, PTL
  <1>2. StreamIInv /\ Inv => StreamFaithful
    BY FaithfulFrom DEF StreamIInv
  <1>3. QED
    BY <1>1, <1>2, StreamInvariant, PTL

(* However often and however late the loop of marshalTaskEventChunks       *)
(* halves its size, and whatever the sizes and the width of the numerals,  *)
(* the frames it hands over are within the limit at which ReadLine gives   *)
(* the call up, and numbered up to the total each of them names; and it    *)
(* never has to give up a piece of one byte (rpc.go:158-219).              *)
THEOREM ChunksAlwaysAgree == StreamSpec => []ChunksAgree
  <1>1. StreamSpec => []Inv
    BY CallImplementsRing, RingInvariant, PTL
  <1>2. StreamIInv /\ Inv => ChunksAgree
    BY AgreeFrom DEF StreamIInv
  <1>3. QED
    BY <1>1, <1>2, StreamInvariant, PTL
=============================================================================
