---------------------------- MODULE TurnMuxProofs ----------------------------
(***************************************************************************)
(* Theorems about TurnMux, for any turns, threads, buffers and numbers of  *)
(* notifications, with or without abandonment, cancellation and the        *)
(* child's death.                                                          *)
(*                                                                         *)
(* The frames on their way to a consumer form one line of six stages: what *)
(* it has got, its events channel, the pump's hand, its inbox, the         *)
(* reader's frame, the pipe.  The first part is about such lines; then     *)
(* come the routes and who ends a turn (Inv); then each action's effect on *)
(* the line of each turn, and what follows for what a consumer is given.   *)
(***************************************************************************)
EXTENDS TurnMux, TLAPS

(* The frames, and the order a line keeps: those of a turn come before its *)
(* completion, its notifications by number.                                *)
Frame == [turn : Turns \cup {NoTurn}, n : Nat,
          kind : {"lost", "none", "reply", "event", "completed"}]

Precedes(e, f) ==
  e.turn = f.turn /\ f.kind = "event" =>
    e.kind # "completed" /\ (e.kind = "event" => e.n < f.n)

Stages == 1 .. 6
Lines == [Stages -> Seq(Frame)]

(* A line of which the first N[i] entries of stage i count: every entry    *)
(* precedes those behind it; the entries of a line.                        *)
OrderedTo(Q, N) ==
  \A i, j \in Stages : \A k \in 1 .. N[i], l \in 1 .. N[j] :
    i < j \/ (i = j /\ k < l) => Precedes(Q[i][k], Q[j][l])
HasTo(Q, N, e) == \E i \in Stages : \E k \in 1 .. N[i] : Q[i][k] = e

Size(Q) == [i \in Stages |-> Len(Q[i])]
Ordered(Q) == OrderedTo(Q, Size(Q))
Has(Q, e) == HasTo(Q, Size(Q), e)

(* From Q to R, the first entry of stage i + 1 goes to the end of stage i, *)
(* or the first entry of stage i is gone, or f has come to its end.        *)
Passing(Q, N, R, M, i) ==
  /\ N[i + 1] >= 1
  /\ M[i] = N[i] + 1 /\ R[i][N[i] + 1] = Q[i + 1][1]
  /\ \A k \in 1 .. N[i] : R[i][k] = Q[i][k]
  /\ M[i + 1] = N[i + 1] - 1
  /\ \A k \in 1 .. M[i + 1] : R[i + 1][k] = Q[i + 1][k + 1]
  /\ \A x \in Stages \ {i, i + 1} : M[x] = N[x] /\ R[x] = Q[x]

Dropping(Q, N, R, M, i) ==
  /\ N[i] >= 1 /\ M[i] = N[i] - 1
  /\ \A k \in 1 .. M[i] : R[i][k] = Q[i][k + 1]
  /\ \A x \in Stages \ {i} : M[x] = N[x] /\ R[x] = Q[x]

Entering(Q, N, R, M, i, f) ==
  /\ M[i] = N[i] + 1 /\ R[i][N[i] + 1] = f
  /\ \A k \in 1 .. N[i] : R[i][k] = Q[i][k]
  /\ \A x \in Stages \ {i} : M[x] = N[x] /\ R[x] = Q[x]

(* What Tail and Append do to the entries of a queue. *)
LEMMA TailEntries ==
  ASSUME NEW s \in Seq(Frame), s # <<>>
  PROVE  /\ Tail(s) \in Seq(Frame) /\ Head(s) \in Frame /\ Head(s) = s[1]
         /\ Len(Tail(s)) = Len(s) - 1 /\ Len(s) >= 1
         /\ \A k \in 1 .. Len(Tail(s)) : Tail(s)[k] = s[k + 1]
  OBVIOUS

LEMMA AppendEntries ==
  ASSUME NEW s \in Seq(Frame), NEW e \in Frame
  PROVE  /\ Append(s, e) \in Seq(Frame)
         /\ Len(Append(s, e)) = Len(s) + 1 /\ Len(s) \in Nat
         /\ \A k \in 1 .. Len(s) : Append(s, e)[k] = s[k]
         /\ Append(s, e)[Len(s) + 1] = e
  OBVIOUS

(* Passing on keeps the order and the entries; so do the two after it, less *)
(* what is dropped and with what enters. *)
LEMMA PassesTo ==
  ASSUME NEW Q, NEW R, NEW N \in [Stages -> Nat], NEW M \in [Stages -> Nat],
         NEW i \in 1 .. 5,
         Passing(Q, N, R, M, i)
  PROVE  /\ OrderedTo(Q, N) => OrderedTo(R, M)
         /\ \A e : HasTo(R, M, e) <=> HasTo(Q, N, e)
  <1>1. i \in Stages /\ i + 1 \in Stages
    BY DEF Stages
  <1>2. N[i] \in Nat /\ N[i + 1] \in Nat /\ M[i] \in Nat /\ M[i + 1] \in Nat
    BY <1>1
  <1>3. /\ N[i + 1] >= 1 /\ M[i + 1] = N[i + 1] - 1
        /\ \A k \in 1 .. M[i + 1] : R[i + 1][k] = Q[i + 1][k + 1]
    BY DEF Passing
  <1>4. /\ M[i] = N[i] + 1 /\ R[i][N[i] + 1] = Q[i + 1][1]
        /\ \A k \in 1 .. N[i] : R[i][k] = Q[i][k]
    BY DEF Passing
  <1>5. \A x \in Stages \ {i, i + 1} : M[x] = N[x] /\ R[x] = Q[x]
    BY DEF Passing
  <1>6. ASSUME NEW x \in Stages, NEW k \in 1 .. M[x]
        PROVE  \/ x = i /\ k = N[i] + 1 /\ R[x][k] = Q[i + 1][1] /\ 1 \in 1 .. N[i + 1]
               \/ x = i + 1 /\ k + 1 \in 1 .. N[x] /\ R[x][k] = Q[x][k + 1]
               \/ x # i + 1 /\ k \in 1 .. N[x] /\ R[x][k] = Q[x][k]
    <2>1. CASE x = i
      BY <1>1, <1>2, <1>3, <1>4, <2>1
    <2>2. CASE x = i + 1
      BY <1>1, <1>2, <1>3, <1>4, <2>2
    <2>3. CASE x \notin {i, i + 1}
      BY <1>5, <2>3
    <2> QED
      BY <2>1, <2>2, <2>3
  <1>7. ASSUME OrderedTo(Q, N) PROVE OrderedTo(R, M)
    <2> SUFFICES ASSUME NEW x \in Stages, NEW y \in Stages,
                        NEW k \in 1 .. M[x], NEW l \in 1 .. M[y],
                        x < y \/ (x = y /\ k < l)
                 PROVE  Precedes(R[x][k], R[y][l])
      BY DEF OrderedTo
    <2>1. \A a, b \in Stages : \A c \in 1 .. N[a], d \in 1 .. N[b] :
            a < b \/ (a = b /\ c < d) => Precedes(Q[a][c], Q[b][d])
      BY <1>7 DEF OrderedTo
    <2>2. CASE x = i /\ k = N[i] + 1 /\ R[x][k] = Q[i + 1][1] /\ 1 \in 1 .. N[i + 1]
      <3>1. CASE y = i + 1 /\ l + 1 \in 1 .. N[y] /\ R[y][l] = Q[y][l + 1]
        <4>1. 1 < l + 1
          BY <1>1, <1>2
        <4> QED
          BY <1>1, <2>1, <2>2, <3>1, <4>1
      <3>2. CASE y # i + 1 /\ l \in 1 .. N[y] /\ R[y][l] = Q[y][l]
        <4>1. i + 1 < y
          BY <1>1, <1>2, <2>2, <3>2 DEF Stages
        <4> QED
          BY <1>1, <2>1, <2>2, <3>2, <4>1
      <3>3. ~(y = i /\ l = N[i] + 1)
        BY <2>2, <1>2, <1>1 DEF Stages
      <3> QED
        BY <1>6, <3>1, <3>2, <3>3
    <2>3. CASE x = i + 1 /\ k + 1 \in 1 .. N[x] /\ R[x][k] = Q[x][k + 1]
      <3>1. CASE y = i + 1 /\ l + 1 \in 1 .. N[y] /\ R[y][l] = Q[y][l + 1]
        <4>1. k + 1 < l + 1
          BY <1>1, <1>2, <2>3, <3>1 DEF Stages
        <4> QED
          BY <1>1, <2>1, <2>3, <3>1, <4>1
      <3>2. CASE y # i + 1 /\ l \in 1 .. N[y] /\ R[y][l] = Q[y][l]
        <4>1. x < y
          BY <2>3, <3>2
        <4> QED
          BY <1>1, <2>1, <2>3, <3>2, <4>1
      <3>3. ~(y = i /\ l = N[i] + 1)
        BY <2>3, <1>2, <1>1 DEF Stages
      <3> QED
        BY <1>6, <3>1, <3>2, <3>3
    <2>4. CASE x # i + 1 /\ k \in 1 .. N[x] /\ R[x][k] = Q[x][k]
      <3>1. CASE y = i + 1 /\ l + 1 \in 1 .. N[y] /\ R[y][l] = Q[y][l + 1]
        <4>1. x < y
          BY <2>4, <3>1
        <4> QED
          BY <1>1, <2>1, <2>4, <3>1, <4>1
      <3>2. CASE y # i + 1 /\ l \in 1 .. N[y] /\ R[y][l] = Q[y][l]
        BY <2>1, <2>4, <3>2
      <3>3. CASE y = i /\ l = N[i] + 1 /\ R[y][l] = Q[i + 1][1] /\ 1 \in 1 .. N[i + 1]
        <4>1. x < i + 1
          BY <1>1, <3>3 DEF Stages
        <4> QED
          BY <1>1, <2>1, <2>4, <3>3, <4>1
      <3> QED
        BY <1>6, <3>1, <3>2, <3>3
    <2> QED
      BY <1>6, <2>2, <2>3, <2>4
  <1>8. ASSUME NEW e, HasTo(R, M, e) PROVE HasTo(Q, N, e)
    <2>1. PICK x \in Stages : \E k \in 1 .. M[x] : R[x][k] = e
      BY <1>8 DEF HasTo
    <2>2. PICK k \in 1 .. M[x] : R[x][k] = e
      BY <2>1
    <2> QED
      BY <1>1, <1>6, <2>2 DEF HasTo
  <1>9. ASSUME NEW e, HasTo(Q, N, e) PROVE HasTo(R, M, e)
    <2>1. PICK x \in Stages : \E k \in 1 .. N[x] : Q[x][k] = e
      BY <1>9 DEF HasTo
    <2>2. PICK k \in 1 .. N[x] : Q[x][k] = e
      BY <2>1
    <2>3. CASE x = i + 1 /\ k = 1
      <3>1. N[i] + 1 \in 1 .. M[i] /\ R[i][N[i] + 1] = e
        BY <1>1, <1>2, <1>4, <2>2, <2>3
      <3> QED
        BY <1>1, <3>1 DEF HasTo
    <2>4. CASE x = i + 1 /\ k # 1
      <3>1. k - 1 \in 1 .. M[x]
        BY <1>1, <1>2, <1>3, <2>4
      <3>2. R[x][k - 1] = e
        <4>1. R[x][k - 1] = Q[x][k - 1 + 1] /\ k - 1 + 1 = k
          BY <1>3, <2>4, <3>1
        <4> QED
          BY <2>2, <4>1
      <3> QED
        BY <3>1, <3>2 DEF HasTo
    <2>5. CASE x = i
      <3>1. k \in 1 .. M[x] /\ R[x][k] = e
        BY <1>1, <1>2, <1>4, <2>2, <2>5
      <3> QED
        BY <3>1 DEF HasTo
    <2>6. CASE x \notin {i, i + 1}
      <3>1. k \in 1 .. M[x] /\ R[x][k] = e
        BY <1>5, <2>2, <2>6
      <3> QED
        BY <3>1 DEF HasTo
    <2> QED
      BY <2>3, <2>4, <2>5, <2>6
  <1> QED
    BY <1>7, <1>8, <1>9

LEMMA DropsTo ==
  ASSUME NEW Q, NEW R, NEW N \in [Stages -> Nat], NEW M \in [Stages -> Nat],
         NEW i \in Stages,
         Dropping(Q, N, R, M, i)
  PROVE  /\ OrderedTo(Q, N) => OrderedTo(R, M)
         /\ \A e : HasTo(R, M, e) => HasTo(Q, N, e)
         /\ \A e : HasTo(Q, N, e) => HasTo(R, M, e) \/ e = Q[i][1]
  <1>1. N[i] \in Nat /\ M[i] \in Nat
    BY DEF Dropping
  <1>2. N[i] >= 1 /\ M[i] = N[i] - 1 /\ \A k \in 1 .. M[i] : R[i][k] = Q[i][k + 1]
    BY DEF Dropping
  <1>3. \A x \in Stages \ {i} : M[x] = N[x] /\ R[x] = Q[x]
    BY DEF Dropping
  <1>4. ASSUME NEW x \in Stages, NEW k \in 1 .. M[x]
        PROVE  \/ x = i /\ k + 1 \in 1 .. N[x] /\ R[x][k] = Q[x][k + 1]
               \/ x # i /\ k \in 1 .. N[x] /\ R[x][k] = Q[x][k]
    <2>1. CASE x = i
      BY <1>1, <1>2, <2>1
    <2>2. CASE x # i
      BY <1>3, <2>2
    <2> QED
      BY <2>1, <2>2
  <1>5. ASSUME OrderedTo(Q, N) PROVE OrderedTo(R, M)
    <2> SUFFICES ASSUME NEW x \in Stages, NEW y \in Stages,
                        NEW k \in 1 .. M[x], NEW l \in 1 .. M[y],
                        x < y \/ (x = y /\ k < l)
                 PROVE  Precedes(R[x][k], R[y][l])
      BY DEF OrderedTo
    <2>1. \A a, b \in Stages : \A c \in 1 .. N[a], d \in 1 .. N[b] :
            a < b \/ (a = b /\ c < d) => Precedes(Q[a][c], Q[b][d])
      BY <1>5 DEF OrderedTo
    <2>2. CASE x = i /\ y = i
      <3>1. k + 1 \in 1 .. N[x] /\ R[x][k] = Q[x][k + 1]
        BY <1>4, <2>2
      <3>2. l + 1 \in 1 .. N[y] /\ R[y][l] = Q[y][l + 1]
        BY <1>4, <2>2
      <3>3. k + 1 < l + 1
        <4>1. k < l /\ k \in Nat /\ l \in Nat
          BY <2>2, <1>1 DEF Stages
        <4> QED
          BY <4>1
      <3> QED
        BY <2>1, <2>2, <3>1, <3>2, <3>3
    <2>3. CASE x # i /\ y # i
      BY <1>4, <2>1, <2>3
    <2>4. CASE x = i /\ y # i
      BY <1>4, <2>1, <2>4
    <2>5. CASE x # i /\ y = i
      BY <1>4, <2>1, <2>5
    <2> QED
      BY <2>2, <2>3, <2>4, <2>5
  <1>6. ASSUME NEW e, HasTo(R, M, e) PROVE HasTo(Q, N, e)
    <2>1. PICK x \in Stages : \E k \in 1 .. M[x] : R[x][k] = e
      BY <1>6 DEF HasTo
    <2>2. PICK k \in 1 .. M[x] : R[x][k] = e
      BY <2>1
    <2> QED
      BY <1>4, <2>2 DEF HasTo
  <1>7. ASSUME NEW e, HasTo(Q, N, e), e # Q[i][1] PROVE HasTo(R, M, e)
    <2>1. PICK x \in Stages : \E k \in 1 .. N[x] : Q[x][k] = e
      BY <1>7 DEF HasTo
    <2>2. PICK k \in 1 .. N[x] : Q[x][k] = e
      BY <2>1
    <2>3. CASE x = i
      <3>1. k # 1
        BY <1>2, <1>7, <2>2, <2>3
      <3>2. k - 1 \in 1 .. M[x]
        BY <1>1, <1>2, <2>3, <3>1
      <3>3. R[x][k - 1] = Q[x][k - 1 + 1] /\ k - 1 + 1 = k
        BY <1>2, <2>3, <3>2
      <3> QED
        BY <2>2, <3>2, <3>3 DEF HasTo
    <2>4. CASE x # i
      <3>1. k \in 1 .. M[x] /\ R[x][k] = e
        BY <1>3, <2>2, <2>4
      <3> QED
        BY <3>1 DEF HasTo
    <2> QED
      BY <2>3, <2>4
  <1> QED
    BY <1>5, <1>6, <1>7

LEMMA EntersTo ==
  ASSUME NEW Q, NEW R, NEW N \in [Stages -> Nat], NEW M \in [Stages -> Nat],
         NEW i \in Stages, NEW f,
         Entering(Q, N, R, M, i, f)
  PROVE  /\ OrderedTo(Q, N)
            /\ (\A j \in 1 .. i : \A k \in 1 .. N[j] : Precedes(Q[j][k], f))
            /\ (\A j \in i + 1 .. 6 : \A k \in 1 .. N[j] : Precedes(f, Q[j][k]))
            => OrderedTo(R, M)
         /\ \A e : HasTo(R, M, e) <=> HasTo(Q, N, e) \/ e = f
  <1>1. N[i] \in Nat /\ M[i] \in Nat
    BY DEF Entering
  <1>2. /\ M[i] = N[i] + 1 /\ R[i][N[i] + 1] = f
        /\ \A k \in 1 .. N[i] : R[i][k] = Q[i][k]
    BY DEF Entering
  <1>3. \A x \in Stages \ {i} : M[x] = N[x] /\ R[x] = Q[x]
    BY DEF Entering
  <1>4. ASSUME NEW x \in Stages, NEW k \in 1 .. M[x]
        PROVE  \/ x = i /\ k = N[i] + 1 /\ R[x][k] = f
               \/ k \in 1 .. N[x] /\ R[x][k] = Q[x][k]
    <2>1. CASE x = i
      BY <1>1, <1>2, <2>1
    <2>2. CASE x # i
      BY <1>3, <2>2
    <2> QED
      BY <2>1, <2>2
  <1>5. ASSUME OrderedTo(Q, N),
               \A j \in 1 .. i : \A k \in 1 .. N[j] : Precedes(Q[j][k], f),
               \A j \in i + 1 .. 6 : \A k \in 1 .. N[j] : Precedes(f, Q[j][k])
        PROVE  OrderedTo(R, M)
    <2> SUFFICES ASSUME NEW x \in Stages, NEW y \in Stages,
                        NEW k \in 1 .. M[x], NEW l \in 1 .. M[y],
                        x < y \/ (x = y /\ k < l)
                 PROVE  Precedes(R[x][k], R[y][l])
      BY DEF OrderedTo
    <2>1. \A a, b \in Stages : \A c \in 1 .. N[a], d \in 1 .. N[b] :
            a < b \/ (a = b /\ c < d) => Precedes(Q[a][c], Q[b][d])
      BY <1>5 DEF OrderedTo
    <2>2. \A j \in 1 .. i : \A c \in 1 .. N[j] : Precedes(Q[j][c], f)
      BY <1>5
    <2>3. \A j \in i + 1 .. 6 : \A c \in 1 .. N[j] : Precedes(f, Q[j][c])
      BY <1>5
    <2>4. CASE x = i /\ k = N[i] + 1 /\ R[x][k] = f
      <3>1. y > i
        <4>1. y = i => l \in 1 .. N[i] + 1 /\ ~(k < l)
          BY <1>1, <1>2, <2>4
        <4> QED
          BY <2>4, <4>1 DEF Stages
      <3>2. y \in i + 1 .. 6
        BY <3>1 DEF Stages
      <3>3. l \in 1 .. N[y] /\ R[y][l] = Q[y][l]
        BY <1>4, <3>1 DEF Stages
      <3> QED
        BY <2>3, <2>4, <3>2, <3>3
    <2>5. CASE ~(x = i /\ k = N[i] + 1 /\ R[x][k] = f)
      <3>1. k \in 1 .. N[x] /\ R[x][k] = Q[x][k]
        BY <1>4, <2>5
      <3>2. CASE y = i /\ l = N[i] + 1 /\ R[y][l] = f
        <4>1. x \in 1 .. i
          BY <3>2 DEF Stages
        <4> QED
          BY <2>2, <3>1, <3>2, <4>1
      <3>3. CASE l \in 1 .. N[y] /\ R[y][l] = Q[y][l]
        BY <2>1, <3>1, <3>3
      <3> QED
        BY <1>4, <3>2, <3>3
    <2> QED
      BY <2>4, <2>5
  <1>6. ASSUME NEW e, HasTo(R, M, e) PROVE HasTo(Q, N, e) \/ e = f
    <2>1. PICK x \in Stages : \E k \in 1 .. M[x] : R[x][k] = e
      BY <1>6 DEF HasTo
    <2>2. PICK k \in 1 .. M[x] : R[x][k] = e
      BY <2>1
    <2> QED
      BY <1>4, <2>2 DEF HasTo
  <1>7. ASSUME NEW e, HasTo(Q, N, e) PROVE HasTo(R, M, e)
    <2>1. PICK x \in Stages : \E k \in 1 .. N[x] : Q[x][k] = e
      BY <1>7 DEF HasTo
    <2>2. PICK k \in 1 .. N[x] : Q[x][k] = e
      BY <2>1
    <2>3. k \in 1 .. M[x] /\ R[x][k] = Q[x][k]
      BY <1>1, <1>2, <1>3
    <2> QED
      BY <2>2, <2>3 DEF HasTo
  <1>8. HasTo(R, M, f)
    <2>1. N[i] + 1 \in 1 .. M[i] /\ R[i][N[i] + 1] = f
      BY <1>1, <1>2
    <2> QED
      BY <2>1 DEF HasTo
  <1> QED
    BY <1>5, <1>6, <1>7, <1>8

(* The same of lines that sequence operators have changed. *)
LEMMA Passes ==
  ASSUME NEW Q \in Lines, NEW R \in Lines, NEW i \in 1 .. 5, Q[i + 1] # <<>>,
         R[i] = Append(Q[i], Head(Q[i + 1])),
         R[i + 1] = Tail(Q[i + 1]),
         \A k \in Stages \ {i, i + 1} : R[k] = Q[k]
  PROVE  /\ Ordered(Q) => Ordered(R)
         /\ \A e : Has(R, e) <=> Has(Q, e)
  <1> DEFINE N == Size(Q)
             M == Size(R)
  <1>1. i \in Stages /\ i + 1 \in Stages
    BY DEF Stages
  <1>2. Q[i] \in Seq(Frame) /\ Q[i + 1] \in Seq(Frame)
    BY <1>1 DEF Lines
  <1>3. \A x \in Stages : N[x] = Len(Q[x]) /\ M[x] = Len(R[x])
    BY DEF Size
  <1>4. N \in [Stages -> Nat] /\ M \in [Stages -> Nat]
    BY DEF Size, Lines
  <1>5. /\ N[i + 1] >= 1 /\ M[i + 1] = N[i + 1] - 1 /\ Head(Q[i + 1]) = Q[i + 1][1]
        /\ Head(Q[i + 1]) \in Frame
        /\ \A k \in 1 .. M[i + 1] : R[i + 1][k] = Q[i + 1][k + 1]
    <2>1. LET s == Q[i + 1] IN
            /\ Head(s) \in Frame /\ Head(s) = s[1]
            /\ Len(Tail(s)) = Len(s) - 1 /\ Len(s) >= 1
            /\ \A k \in 1 .. Len(Tail(s)) : Tail(s)[k] = s[k + 1]
      BY <1>2, TailEntries
    <2> QED
      BY <1>1, <1>3, <2>1
  <1>6. /\ M[i] = N[i] + 1 /\ R[i][N[i] + 1] = Q[i + 1][1]
        /\ \A k \in 1 .. N[i] : R[i][k] = Q[i][k]
    BY <1>1, <1>2, <1>3, <1>5, AppendEntries
  <1>7. \A x \in Stages \ {i, i + 1} : M[x] = N[x] /\ R[x] = Q[x]
    BY <1>3
  <1> HIDE DEF N, M
  <1>8. /\ OrderedTo(Q, N) => OrderedTo(R, M)
        /\ \A e : HasTo(R, M, e) <=> HasTo(Q, N, e)
    <2>1. Passing(Q, N, R, M, i)
      BY <1>5, <1>6, <1>7 DEF Passing
    <2> QED
      BY <1>4, <2>1, PassesTo
  <1> QED
    BY <1>8 DEF Ordered, Has, N, M

LEMMA Drops ==
  ASSUME NEW Q \in Lines, NEW R \in Lines, NEW i \in Stages, Q[i] # <<>>,
         R[i] = Tail(Q[i]),
         \A k \in Stages \ {i} : R[k] = Q[k]
  PROVE  /\ Ordered(Q) => Ordered(R)
         /\ \A e : Has(R, e) => Has(Q, e)
         /\ \A e : Has(Q, e) => Has(R, e) \/ e = Head(Q[i])
  <1> DEFINE N == Size(Q)
             M == Size(R)
  <1>1. Q[i] \in Seq(Frame)
    BY DEF Lines
  <1>2. \A x \in Stages : N[x] = Len(Q[x]) /\ M[x] = Len(R[x])
    BY DEF Size
  <1>3. N \in [Stages -> Nat] /\ M \in [Stages -> Nat]
    BY DEF Size, Lines
  <1>4. /\ N[i] >= 1 /\ M[i] = N[i] - 1 /\ Head(Q[i]) = Q[i][1]
        /\ \A k \in 1 .. M[i] : R[i][k] = Q[i][k + 1]
    <2>1. LET s == Q[i] IN
            /\ Head(s) \in Frame /\ Head(s) = s[1]
            /\ Len(Tail(s)) = Len(s) - 1 /\ Len(s) >= 1
            /\ \A k \in 1 .. Len(Tail(s)) : Tail(s)[k] = s[k + 1]
      BY <1>1, TailEntries
    <2> QED
      BY <1>2, <2>1
  <1>5. \A x \in Stages \ {i} : M[x] = N[x] /\ R[x] = Q[x]
    BY <1>2
  <1> HIDE DEF N, M
  <1>6. /\ OrderedTo(Q, N) => OrderedTo(R, M)
        /\ \A e : HasTo(R, M, e) => HasTo(Q, N, e)
        /\ \A e : HasTo(Q, N, e) => HasTo(R, M, e) \/ e = Q[i][1]
    <2>1. Dropping(Q, N, R, M, i)
      BY <1>4, <1>5 DEF Dropping
    <2> QED
      BY <1>3, <2>1, DropsTo
  <1> QED
    BY <1>4, <1>6 DEF Ordered, Has, N, M

LEMMA EntersInOrder ==
  ASSUME NEW Q \in Lines, NEW R \in Lines, NEW i \in Stages, NEW f \in Frame,
         R[i] = Append(Q[i], f),
         \A k \in Stages \ {i} : R[k] = Q[k],
         Ordered(Q),
         \A j \in 1 .. i : \A k \in 1 .. Len(Q[j]) : Precedes(Q[j][k], f),
         \A j \in i + 1 .. 6 : \A k \in 1 .. Len(Q[j]) : Precedes(f, Q[j][k])
  PROVE  Ordered(R)
  <1> DEFINE N == Size(Q)
             M == Size(R)
  <1>1. Q[i] \in Seq(Frame)
    BY DEF Lines
  <1>2. \A x \in Stages : N[x] = Len(Q[x]) /\ M[x] = Len(R[x])
    BY DEF Size
  <1>3. N \in [Stages -> Nat] /\ M \in [Stages -> Nat]
    BY DEF Size, Lines
  <1>4. /\ M[i] = N[i] + 1 /\ R[i][N[i] + 1] = f
        /\ \A k \in 1 .. N[i] : R[i][k] = Q[i][k]
    BY <1>1, <1>2, AppendEntries
  <1>5. \A x \in Stages \ {i} : M[x] = N[x] /\ R[x] = Q[x]
    BY <1>2
  <1>6. \A j \in Stages : 1 .. Len(Q[j]) = 1 .. N[j]
    BY <1>2
  <1>7. (1 .. i) \cup (i + 1 .. 6) \subseteq Stages
    BY DEF Stages
  <1> HIDE DEF N, M
  <1>8. /\ OrderedTo(Q, N)
           /\ (\A j \in 1 .. i : \A k \in 1 .. N[j] : Precedes(Q[j][k], f))
           /\ (\A j \in i + 1 .. 6 : \A k \in 1 .. N[j] : Precedes(f, Q[j][k]))
           => OrderedTo(R, M)
        /\ \A e : HasTo(R, M, e) <=> HasTo(Q, N, e) \/ e = f
    <2>1. Entering(Q, N, R, M, i, f)
      BY <1>4, <1>5 DEF Entering
    <2> QED
      BY <1>3, <2>1, EntersTo
  <1> QED
    BY <1>6, <1>7, <1>8 DEF Ordered, N, M

LEMMA Enters ==
  ASSUME NEW Q \in Lines, NEW R \in Lines, NEW i \in Stages, NEW f \in Frame,
         R[i] = Append(Q[i], f),
         \A k \in Stages \ {i} : R[k] = Q[k]
  PROVE  \A e : Has(R, e) <=> Has(Q, e) \/ e = f
  <1> DEFINE N == Size(Q)
             M == Size(R)
  <1>1. Q[i] \in Seq(Frame)
    BY DEF Lines
  <1>2. \A x \in Stages : N[x] = Len(Q[x]) /\ M[x] = Len(R[x])
    BY DEF Size
  <1>3. N \in [Stages -> Nat] /\ M \in [Stages -> Nat]
    BY DEF Size, Lines
  <1>4. /\ M[i] = N[i] + 1 /\ R[i][N[i] + 1] = f
        /\ \A k \in 1 .. N[i] : R[i][k] = Q[i][k]
    BY <1>1, <1>2, AppendEntries
  <1>5. \A x \in Stages \ {i} : M[x] = N[x] /\ R[x] = Q[x]
    BY <1>2
  <1> HIDE DEF N, M
  <1>6. \A e : HasTo(R, M, e) <=> HasTo(Q, N, e) \/ e = f
    <2>1. Entering(Q, N, R, M, i, f)
      BY <1>4, <1>5 DEF Entering
    <2> QED
      BY <1>3, <2>1, EntersTo
  <1> QED
    BY <1>6 DEF Has, N, M

(* What TypeOK leaves out: the frames in the queues, and the reader's. *)
Readers == [at : {"idle", "found", "stashed", "marked", "unrouted", "ended"},
            frame : Frame, turn : Turns \cup {NoTurn}]
FromChild(f) == f.turn \in Turns /\ f.kind \in {"reply", "event", "completed"}

Queued ==
  /\ sent \in [Turns -> Nat]
  /\ child \in [Turns -> {"none", "asked", "active", "over"}]
  /\ alive \in BOOLEAN
  /\ got \in [Turns -> Seq(Frame)] /\ events \in [Turns -> Seq(Frame)]
  /\ hand \in [Turns -> Seq(Frame)] /\ inbox \in [Turns -> Seq(Frame)]
  /\ pipe \in Seq(Frame)
PipeSound == \A k \in 1 .. Len(pipe) : FromChild(pipe[k])
ReaderSound ==
  /\ reader \in Readers
  /\ reader.at = "found" => FromChild(reader.frame) /\ reader.frame.kind # "reply"

Framed == Queued /\ PipeSound /\ ReaderSound

Types == TypeOK /\ Framed

(* A routed turn is one that was started on that thread, and so is the one *)
(* the reader found.                                                       *)
Routed ==
  /\ \A th \in Threads : route[th] # NoTurn =>
       ThreadOf[route[th]] = th /\ caller[route[th]] # "none"
  /\ reader.turn # NoTurn => caller[reader.turn] # "none"

(* The reader's way through a completion. *)
Completing ==
  /\ reader.at \in {"stashed", "marked", "unrouted"} =>
       reader.turn \in Turns /\ final[reader.turn] # NoTurn
  /\ reader.at \in {"marked", "unrouted"} => done[reader.turn]
  /\ reader.at = "unrouted" => route[ThreadOf[reader.turn]] # reader.turn

Off(t) == route[ThreadOf[t]] # t

(* Who may have ended a turn, and that he has removed or will remove its   *)
(* route.                                                                  *)
Ending(t) ==
  /\ caller[t] \in {"none", "starting", "failing"} => cancel[t] = "none"
  /\ caller[t] = "none" => ~done[t] /\ ~canceled[t] /\ ~sealed[t]
  /\ caller[t] = "failing" => Off(t)
  /\ caller[t] = "left" /\ cancel[t] = "none" => done[t] /\ Off(t)
  /\ cancel[t] \in {"won", "unrouted", "over"} => done[t]
  /\ cancel[t] = "unrouted" => Off(t)
  /\ canceled[t] => done[t] /\ Off(t) /\ (caller[t] = "left" \/ cancel[t] = "over")
  /\ sealed[t] => done[t] /\ final[t] # NoTurn /\ Off(t)
  /\ done[t] => \/ Off(t) \/ cancel[t] = "won"
                \/ reader.at = "marked" /\ reader.turn = t

(* A pump ends with its inbox or with the cancellation; it leaves nothing  *)
(* in its hand.                                                            *)
PumpSound(t) ==
  /\ pump[t] = "ending" => sealed[t]
  /\ pump[t] = "closed" => /\ sealed[t] \/ canceled[t]
                           /\ result[t] # NoTurn \/ canceled[t]
                           /\ hand[t] = <<>>
  /\ caller[t] = "ended" => pump[t] = "closed"

Endings == \A t \in Turns : Ending(t) /\ PumpSound(t)

Inv == Types /\ Routed /\ Completing /\ Endings

-----------------------------------------------------------------------------
(* What the assumptions say of threads, turns and capacities. *)
LEMMA Threading == \A u \in Turns : ThreadOf[u] \in Threads /\ u # NoTurn /\ u # "died"
  BY MuxAssumption

LEMMA Capacities == /\ EventsCap \in Nat \ {0} /\ InboxCap \in Nat \ {0} /\ PipeCap \in Nat \ {0}
                    /\ NoTurn # "died"
  BY MuxAssumption

LEMMA FrameFacts ==
  /\ Marker \in Frame
  /\ \A t \in Turns : Reply(t) \in Frame /\ Completed(t) \in Frame
  /\ \A t \in Turns, n \in Nat : Event(t, n) \in Frame
  BY DEF Marker, Reply, Completed, Event, Frame

LEMMA IdleFacts ==
  /\ Idle \in Readers /\ Idle.at = "idle" /\ Idle.turn = NoTurn
  /\ LET ended == [Idle EXCEPT !.at = "ended"] IN
       ended \in Readers /\ ended.at = "ended" /\ ended.turn = NoTurn
  BY DEF Idle, NoFrame, Readers, Frame

(* A queue is replaced by one that fits. *)
LEMMA OneQueue ==
  ASSUME NEW q \in [Turns -> Seq(Frame)], NEW t \in Turns, NEW s \in Seq(Frame), NEW cap,
         \A u \in Turns : Len(q[u]) <= cap, Len(s) <= cap
  PROVE  LET r == [q EXCEPT ![t] = s] IN
           r \in [Turns -> Seq(Frame)] /\ \A u \in Turns : Len(r[u]) <= cap
  OBVIOUS

(* Inv is inductive. *)
LEMMA Initially == Init => Inv
  BY MuxAssumption DEF Init, Inv, Types, TypeOK, Framed, Queued, PipeSound, ReaderSound,
     Readers, FromChild, Frame, Idle, NoFrame, Routed, Completing, Endings,
     Ending, PumpSound, Off

LEMMA Inductive == Inv /\ [Next]_vars => Inv'
  <1> SUFFICES ASSUME Inv, [Next]_vars PROVE Inv'
    OBVIOUS
  <1> USE MuxAssumption DEF turnVars, pumpVars, childVars, Unroute, Write
  <1>1. ASSUME NEW t \in Turns, StartTurn(t) PROVE Inv'
    <2>1. Types'
      BY <1>1 DEF StartTurn, Inv, Types, TypeOK, Framed, Queued, PipeSound, ReaderSound,
         Readers
    <2>2. Routed'
      <3>1. /\ route' = [route EXCEPT ![ThreadOf[t]] = t]
            /\ caller' = [caller EXCEPT ![t] = "starting"] /\ reader' = reader
        BY <1>1 DEF StartTurn
      <3>2. \A u \in Turns : caller[u] # "none" => caller'[u] # "none"
        BY <3>1 DEF Inv, Types, TypeOK
      <3>3. caller'[t] # "none"
        BY <3>1 DEF Inv, Types, TypeOK
      <3>4. ASSUME NEW th \in Threads, route'[th] # NoTurn
            PROVE  ThreadOf[route'[th]] = th /\ caller'[route'[th]] # "none"
        <4>1. CASE th = ThreadOf[t]
          <5>1. route'[th] = t
            BY <3>1, <4>1 DEF Inv, Types, TypeOK
          <5> QED
            BY <3>3, <4>1, <5>1
        <4>2. CASE th # ThreadOf[t]
          <5>1. route'[th] = route[th] /\ route[th] \in Turns \cup {NoTurn}
            BY <3>1, <4>2 DEF Inv, Types, TypeOK
          <5> QED
            BY <3>2, <3>4, <5>1 DEF Inv, Routed
        <4> QED
          BY <4>1, <4>2
      <3>5. reader'.turn # NoTurn => caller'[reader'.turn] # "none"
        BY <3>1, <3>2 DEF Inv, Types, Framed, ReaderSound, Readers, Routed
      <3> QED
        BY <3>4, <3>5 DEF Routed
    <2>3. Completing'
      BY <1>1 DEF StartTurn, Inv, Types, TypeOK, Framed, Queued, PipeSound, ReaderSound,
         Readers, Routed, Completing, Off, Endings, Ending
    <2>4. Endings'
      <3> SUFFICES ASSUME NEW u \in Turns PROVE Ending(u)' /\ PumpSound(u)'
        BY DEF Endings
      <3> USE DEF Inv
      <3>1. Ending(u) /\ PumpSound(u)
        BY DEF Endings
      <3>0. \A v \in Turns \ {t} : Off(v) => Off(v)'
        BY <1>1, Threading DEF Types, TypeOK, Off, StartTurn
      <3>2. CASE u = t
        <4>1. Ending(u)'
          BY <1>1, <3>1, <3>2, Threading, <3>0 DEF Types, TypeOK, Framed, Queued,
             ReaderSound, Readers, Completing, Ending, PumpSound, StartTurn
        <4>2. PumpSound(u)'
          BY <1>1, <3>1, <3>2, <3>0 DEF Types, TypeOK, Ending, PumpSound, StartTurn
        <4> QED
          BY <4>1, <4>2
      <3>3. CASE u # t
        <4>1. Ending(u)'
          BY <1>1, <3>1, <3>3, Threading, <3>0 DEF Types, TypeOK, Framed, Queued,
             ReaderSound, Readers, Completing, Ending, StartTurn
        <4>2. PumpSound(u)'
          BY <1>1, <3>1, <3>3, <3>0 DEF Types, TypeOK, PumpSound, StartTurn
        <4> QED
          BY <4>1, <4>2
      <3> QED
        BY <3>2, <3>3
    <2> QED
      BY <2>1, <2>2, <2>3, <2>4 DEF Inv
  <1>2. ASSUME NEW t \in Turns, StartFails(t) PROVE Inv'
    <2>1. Types'
      BY <1>2 DEF StartFails, Inv, Types, TypeOK, Framed, Queued, PipeSound, ReaderSound,
         Readers
    <2>2. Routed'
      BY <1>2 DEF StartFails, Inv, Types, TypeOK, Framed, Queued, PipeSound, ReaderSound,
         Readers, Routed, Endings, Ending
    <2>3. Completing'
      BY <1>2 DEF StartFails, Inv, Types, TypeOK, Framed, Queued, PipeSound, ReaderSound,
         Readers, Routed, Completing, Off, Endings, Ending
    <2>4. Endings'
      <3> SUFFICES ASSUME NEW u \in Turns PROVE Ending(u)' /\ PumpSound(u)'
        BY DEF Endings
      <3> USE DEF Inv
      <3>1. Ending(u) /\ PumpSound(u)
        BY DEF Endings
      <3>0. Off(t)' /\ \A v \in Turns : Off(v) => Off(v)'
        BY <1>2, Threading DEF Types, TypeOK, Off, StartFails
      <3>2. CASE u = t
        <4>1. Ending(u)'
          BY <1>2, <3>1, <3>2, Threading, <3>0 DEF Types, TypeOK, Framed, Queued,
             ReaderSound, Readers, Completing, Ending, PumpSound, StartFails
        <4>2. PumpSound(u)'
          BY <1>2, <3>1, <3>2, <3>0 DEF Types, TypeOK, Ending, PumpSound, StartFails
        <4> QED
          BY <4>1, <4>2
      <3>3. CASE u # t
        <4>1. Ending(u)'
          BY <1>2, <3>1, <3>3, Threading, <3>0 DEF Types, TypeOK, Framed, Queued,
             ReaderSound, Readers, Completing, Ending, StartFails
        <4>2. PumpSound(u)'
          BY <1>2, <3>1, <3>3, <3>0 DEF Types, TypeOK, PumpSound, StartFails
        <4> QED
          BY <4>1, <4>2
      <3> QED
        BY <3>2, <3>3
    <2> QED
      BY <2>1, <2>2, <2>3, <2>4 DEF Inv
  <1>3. ASSUME NEW t \in Turns, StartGivesUp(t) PROVE Inv'
    <2>1. Types'
      BY <1>3 DEF StartGivesUp, Inv, Types, TypeOK, Framed, Queued, PipeSound,
         ReaderSound, Readers
    <2>2. Routed'
      BY <1>3 DEF StartGivesUp, Inv, Types, TypeOK, Framed, Queued, PipeSound,
         ReaderSound, Readers, Routed, Endings, Ending
    <2>3. Completing'
      BY <1>3 DEF StartGivesUp, Inv, Types, TypeOK, Framed, Queued, PipeSound,
         ReaderSound, Readers, Routed, Completing, Off, Endings, Ending
    <2>4. Endings'
      <3> SUFFICES ASSUME NEW u \in Turns PROVE Ending(u)' /\ PumpSound(u)'
        BY DEF Endings
      <3> USE DEF Inv
      <3>1. Ending(u) /\ PumpSound(u)
        BY DEF Endings
      <3>2. CASE u = t
        <4>1. Ending(u)'
          BY <1>3, <3>1, <3>2, Threading DEF Types, TypeOK, Framed, Queued, ReaderSound,
             Readers, Completing, Off, Ending, PumpSound, StartGivesUp
        <4>2. PumpSound(u)'
          BY <1>3, <3>1, <3>2 DEF Types, TypeOK, Ending, PumpSound, StartGivesUp
        <4> QED
          BY <4>1, <4>2
      <3>3. CASE u # t
        <4>1. Ending(u)'
          BY <1>3, <3>1, <3>3, Threading DEF Types, TypeOK, Framed, Queued, ReaderSound,
             Readers, Completing, Off, Ending, StartGivesUp
        <4>2. PumpSound(u)'
          BY <1>3, <3>1, <3>3 DEF Types, TypeOK, PumpSound, StartGivesUp
        <4> QED
          BY <4>1, <4>2
      <3> QED
        BY <3>2, <3>3
    <2> QED
      BY <2>1, <2>2, <2>3, <2>4 DEF Inv
  <1>4. ASSUME NEW t \in Turns, ChildAnswers(t) PROVE Inv'
    <2>1. Types'
      <3> USE DEF Inv, Types, Framed
      <3>1. Reply(t) \in Frame /\ FromChild(Reply(t))
        BY <1>4, FrameFacts DEF Queued, FromChild, Reply, Event, Completed
      <3>2. pipe' = Append(pipe, Reply(t)) /\ Len(pipe) < PipeCap /\ pipe \in Seq(Frame)
        BY <1>4 DEF ChildAnswers, Queued
      <3>3. /\ pipe' \in Seq(Frame) /\ Len(pipe') = Len(pipe) + 1 /\ Len(pipe) \in Nat
            /\ \A k \in 1 .. Len(pipe) : pipe'[k] = pipe[k]
            /\ pipe'[Len(pipe) + 1] = Reply(t)
        BY <3>1, <3>2, AppendEntries
      <3>4. Len(pipe') <= PipeCap
        BY <3>2, <3>3, Capacities
      <3>5. TypeOK'
        BY <1>4, <3>4 DEF TypeOK, ChildAnswers
      <3>6. Queued'
        BY <1>4, <3>3 DEF Queued, ChildAnswers
      <3>7. PipeSound'
        BY <3>1, <3>3 DEF PipeSound
      <3>8. ReaderSound'
        BY <1>4 DEF ReaderSound, ChildAnswers
      <3> QED
        BY <3>5, <3>6, <3>7, <3>8
    <2>2. Routed'
      BY <1>4 DEF ChildAnswers, Inv, Types, TypeOK, Framed, Queued, PipeSound,
         ReaderSound, Readers, Routed, Endings, Ending
    <2>3. Completing'
      BY <1>4 DEF ChildAnswers, Inv, Types, TypeOK, Framed, Queued, PipeSound,
         ReaderSound, Readers, Routed, Completing, Off, Endings, Ending
    <2>4. Endings'
      BY <1>4 DEF ChildAnswers, Inv, Types, TypeOK, Framed, Queued, PipeSound,
         ReaderSound, Readers, Routed, Completing, Off, Endings, Ending, PumpSound
    <2> QED
      BY <2>1, <2>2, <2>3, <2>4 DEF Inv
  <1>5. ASSUME NEW t \in Turns, ChildNotifies(t) PROVE Inv'
    <2>1. Types'
      <3> USE DEF Inv, Types, Framed
      <3>1. Event(t, sent[t] + 1) \in Frame /\ FromChild(Event(t, sent[t] + 1))
        BY <1>5, FrameFacts DEF Queued, FromChild, Reply, Event, Completed
      <3>2. pipe' = Append(pipe, Event(t, sent[t] + 1)) /\ Len(pipe) < PipeCap /\ pipe \in Seq(Frame)
        BY <1>5 DEF ChildNotifies, Queued
      <3>3. /\ pipe' \in Seq(Frame) /\ Len(pipe') = Len(pipe) + 1 /\ Len(pipe) \in Nat
            /\ \A k \in 1 .. Len(pipe) : pipe'[k] = pipe[k]
            /\ pipe'[Len(pipe) + 1] = Event(t, sent[t] + 1)
        BY <3>1, <3>2, AppendEntries
      <3>4. Len(pipe') <= PipeCap
        BY <3>2, <3>3, Capacities
      <3>5. TypeOK'
        BY <1>5, <3>4 DEF TypeOK, ChildNotifies
      <3>6. Queued'
        BY <1>5, <3>3 DEF Queued, ChildNotifies
      <3>7. PipeSound'
        BY <3>1, <3>3 DEF PipeSound
      <3>8. ReaderSound'
        BY <1>5 DEF ReaderSound, ChildNotifies
      <3> QED
        BY <3>5, <3>6, <3>7, <3>8
    <2>2. Routed'
      BY <1>5 DEF ChildNotifies, Inv, Types, TypeOK, Framed, Queued, PipeSound,
         ReaderSound, Readers, Routed, Endings, Ending
    <2>3. Completing'
      BY <1>5 DEF ChildNotifies, Inv, Types, TypeOK, Framed, Queued, PipeSound,
         ReaderSound, Readers, Routed, Completing, Off, Endings, Ending
    <2>4. Endings'
      BY <1>5 DEF ChildNotifies, Inv, Types, TypeOK, Framed, Queued, PipeSound,
         ReaderSound, Readers, Routed, Completing, Off, Endings, Ending, PumpSound
    <2> QED
      BY <2>1, <2>2, <2>3, <2>4 DEF Inv
  <1>6. ASSUME NEW t \in Turns, ChildCompletes(t) PROVE Inv'
    <2>1. Types'
      <3> USE DEF Inv, Types, Framed
      <3>1. Completed(t) \in Frame /\ FromChild(Completed(t))
        BY <1>6, FrameFacts DEF Queued, FromChild, Reply, Event, Completed
      <3>2. pipe' = Append(pipe, Completed(t)) /\ Len(pipe) < PipeCap /\ pipe \in Seq(Frame)
        BY <1>6 DEF ChildCompletes, Queued
      <3>3. /\ pipe' \in Seq(Frame) /\ Len(pipe') = Len(pipe) + 1 /\ Len(pipe) \in Nat
            /\ \A k \in 1 .. Len(pipe) : pipe'[k] = pipe[k]
            /\ pipe'[Len(pipe) + 1] = Completed(t)
        BY <3>1, <3>2, AppendEntries
      <3>4. Len(pipe') <= PipeCap
        BY <3>2, <3>3, Capacities
      <3>5. TypeOK'
        BY <1>6, <3>4 DEF TypeOK, ChildCompletes
      <3>6. Queued'
        BY <1>6, <3>3 DEF Queued, ChildCompletes
      <3>7. PipeSound'
        BY <3>1, <3>3 DEF PipeSound
      <3>8. ReaderSound'
        BY <1>6 DEF ReaderSound, ChildCompletes
      <3> QED
        BY <3>5, <3>6, <3>7, <3>8
    <2>2. Routed'
      BY <1>6 DEF ChildCompletes, Inv, Types, TypeOK, Framed, Queued, PipeSound,
         ReaderSound, Readers, Routed, Endings, Ending
    <2>3. Completing'
      BY <1>6 DEF ChildCompletes, Inv, Types, TypeOK, Framed, Queued, PipeSound,
         ReaderSound, Readers, Routed, Completing, Off, Endings, Ending
    <2>4. Endings'
      BY <1>6 DEF ChildCompletes, Inv, Types, TypeOK, Framed, Queued, PipeSound,
         ReaderSound, Readers, Routed, Completing, Off, Endings, Ending, PumpSound
    <2> QED
      BY <2>1, <2>2, <2>3, <2>4 DEF Inv
  <1>7. ASSUME ChildDies PROVE Inv'
    <2>1. Types'
      BY <1>7 DEF ChildDies, Inv, Types, TypeOK, Framed, Queued, PipeSound, ReaderSound,
         Readers
    <2>2. Routed'
      BY <1>7 DEF ChildDies, Inv, Types, TypeOK, Framed, Queued, PipeSound, ReaderSound,
         Readers, Routed, Endings, Ending
    <2>3. Completing'
      BY <1>7 DEF ChildDies, Inv, Types, TypeOK, Framed, Queued, PipeSound, ReaderSound,
         Readers, Routed, Completing, Off, Endings, Ending
    <2>4. Endings'
      BY <1>7 DEF ChildDies, Inv, Types, TypeOK, Framed, Queued, PipeSound, ReaderSound,
         Readers, Routed, Completing, Off, Endings, Ending, PumpSound
    <2> QED
      BY <2>1, <2>2, <2>3, <2>4 DEF Inv
  <1>8. ASSUME ReadFrame PROVE Inv'
    <2>1. Types'
      <3> USE DEF Inv, Types, Framed
      <3>1. pipe # <<>> /\ pipe \in Seq(Frame) /\ pipe' = Tail(pipe)
        BY <1>8 DEF ReadFrame, Queued
      <3>2. /\ pipe' \in Seq(Frame) /\ Head(pipe) \in Frame /\ Head(pipe) = pipe[1]
            /\ Len(pipe') = Len(pipe) - 1 /\ Len(pipe) >= 1 /\ Len(pipe) \in Nat
            /\ \A k \in 1 .. Len(pipe') : pipe'[k] = pipe[k + 1]
        BY <3>1, TailEntries
      <3>3. Len(pipe') <= PipeCap
        BY <3>2, Capacities DEF TypeOK
      <3>4. FromChild(Head(pipe))
        BY <3>2 DEF PipeSound
      <3>5. route[ThreadOf[Head(pipe).turn]] \in Turns \cup {NoTurn}
        BY <3>4, Threading DEF TypeOK, FromChild
      <3>6. /\ caller' \in [Turns -> {"none", "starting", "failing", "draining", "left", "ended"}]
        <4>1. CASE caller' = caller
            BY <4>1 DEF TypeOK
          <4>2. CASE caller' # caller
            <5>1. caller' = [caller EXCEPT ![Head(pipe).turn] = IF caller[Head(pipe).turn] = "starting" THEN "draining" ELSE caller[Head(pipe).turn]]
              BY <1>8, <4>2 DEF ReadFrame
            <5> QED
              BY <3>4, <5>1 DEF TypeOK, FromChild
          <4> QED
            BY <4>1, <4>2
      <3>7. \/ reader' = reader
          \/ /\ reader' = [at |-> "found", frame |-> Head(pipe),
                           turn |-> route[ThreadOf[Head(pipe).turn]]]
             /\ Head(pipe).kind # "reply"
        BY <1>8 DEF ReadFrame, LookUp
      <3>8. reader'.at \in {"idle", "found"} /\ reader' \in Readers
        BY <1>8, <3>2, <3>5, <3>7 DEF ReaderSound, Readers, ReadFrame
      <3>9. TypeOK'
        BY <1>8, <3>3, <3>6, <3>8 DEF TypeOK, ReadFrame
      <3>10. Queued'
        BY <1>8, <3>2 DEF Queued, ReadFrame
      <3>11. PipeSound'
        BY <3>2 DEF PipeSound
      <3>12. ReaderSound'
        BY <1>8, <3>4, <3>7, <3>8 DEF ReaderSound, ReadFrame
      <3> QED
        BY <3>9, <3>10, <3>11, <3>12
    <2>2. Routed'
      <3>1. Head(pipe).turn \in Turns
        BY <1>8, TailEntries DEF Inv, Types, Framed, Queued, PipeSound, FromChild, ReadFrame
      <3>2. route[ThreadOf[Head(pipe).turn]] # NoTurn => caller[route[ThreadOf[Head(pipe).turn]]] # "none"
        BY <3>1, Threading DEF Inv, Routed
      <3>3. \A u \in Turns : caller[u] # "none" => caller'[u] # "none"
        BY <1>8, <3>1 DEF Inv, Types, TypeOK, ReadFrame
      <3>4. route' = route /\ (reader' = reader \/ reader'.turn = route[ThreadOf[Head(pipe).turn]])
        BY <1>8 DEF ReadFrame, LookUp
      <3> QED
        BY <3>1, <3>2, <3>3, <3>4, Threading DEF Inv, Types, TypeOK, Framed, Queued,
           ReaderSound, Readers, Routed
    <2>3. Completing'
      <3>1. reader'.at \in {"idle", "found"}
        BY <1>8 DEF ReadFrame
      <3> QED
        BY <3>1 DEF Completing
    <2>4. Endings'
      <3> SUFFICES ASSUME NEW u \in Turns PROVE Ending(u)' /\ PumpSound(u)'
        BY DEF Endings
      <3> USE DEF Inv
      <3>1. Ending(u) /\ PumpSound(u)
        BY DEF Endings
      <3>0. Head(pipe).turn \in Turns
        BY <1>8, TailEntries DEF Types, Framed, Queued, PipeSound, FromChild, ReadFrame
      <3>2. CASE u = Head(pipe).turn
        <4>1. Ending(u)'
          <5>1. caller'[u] = caller[u] \/ (caller[u] = "starting" /\ caller'[u] = "draining")
            <6> DEFINE Went == IF caller[u] = "starting" THEN "draining" ELSE caller[u]
            <6>1. caller' = [caller EXCEPT ![u] = Went] \/ caller' = caller
              BY <1>8, <3>2 DEF ReadFrame
            <6>2. caller \in [Turns -> {"none", "starting", "failing", "draining", "left", "ended"}]
              BY DEF Types, TypeOK
            <6>3. caller'[u] = Went \/ caller'[u] = caller[u]
              BY <6>1, <6>2
            <6> QED
              BY <6>3
          <5>2. /\ route' = route /\ done' = done /\ canceled' = canceled /\ sealed' = sealed
                /\ final' = final /\ cancel' = cancel /\ reader.at = "idle"
            BY <1>8 DEF ReadFrame
          <5> QED
            BY <3>1, <5>1, <5>2 DEF Ending, Off
        <4>2. PumpSound(u)'
          BY <1>8, <3>1, <3>2, <3>0 DEF Types, TypeOK, Ending, PumpSound, ReadFrame
        <4> QED
          BY <4>1, <4>2
      <3>3. CASE u # Head(pipe).turn
        <4>1. Ending(u)'
          <5>1. caller'[u] = caller[u]
            BY <1>8, <3>0, <3>3 DEF Types, TypeOK, ReadFrame
          <5>2. /\ route' = route /\ done' = done /\ canceled' = canceled /\ sealed' = sealed
                /\ final' = final /\ cancel' = cancel /\ reader.at = "idle"
            BY <1>8 DEF ReadFrame
          <5> QED
            BY <3>1, <5>1, <5>2 DEF Ending, Off
        <4>2. PumpSound(u)'
          BY <1>8, <3>1, <3>3, <3>0 DEF Types, TypeOK, PumpSound, ReadFrame
        <4> QED
          BY <4>1, <4>2
      <3> QED
        BY <3>2, <3>3
    <2> QED
      BY <2>1, <2>2, <2>3, <2>4 DEF Inv
  <1>9. ASSUME RouteNothing PROVE Inv'
    <2>1. Types'
      <3> USE DEF Inv, Types, Framed
      <3>1. TypeOK'
        BY <1>9, IdleFacts DEF TypeOK, ReaderSound, Readers, RouteNothing
      <3>2. Queued'
        BY <1>9 DEF Queued, RouteNothing
      <3>3. PipeSound'
        BY <1>9 DEF PipeSound, RouteNothing
      <3>4. ReaderSound'
        BY <1>9, IdleFacts DEF ReaderSound, RouteNothing
      <3> QED
        BY <3>1, <3>2, <3>3, <3>4
    <2>2. Routed'
      BY <1>9, IdleFacts, Threading DEF Inv, Types, TypeOK, Framed, Queued, ReaderSound,
         Readers, Routed, Endings, Ending, RouteNothing
    <2>3. Completing'
      BY <1>9, IdleFacts DEF Inv, Types, TypeOK, Completing, RouteNothing
    <2>4. Endings'
      BY <1>9 DEF RouteNothing, Inv, Types, TypeOK, Framed, Queued, PipeSound,
         ReaderSound, Readers, Routed, Completing, Off, Endings, Ending, PumpSound
    <2> QED
      BY <2>1, <2>2, <2>3, <2>4 DEF Inv
  <1>10. ASSUME RouteEvent PROVE Inv'
    <2>1. Types'
      <3> USE DEF Inv, Types, Framed
      <3>1. /\ reader.turn \in Turns /\ reader.frame \in Frame
            /\ inbox[reader.turn] \in Seq(Frame)
        BY <1>10 DEF Queued, ReaderSound, Readers, RouteEvent
      <3>2. /\ Append(inbox[reader.turn], reader.frame) \in Seq(Frame)
            /\ Len(inbox[reader.turn]) \in Nat
            /\ Len(Append(inbox[reader.turn], reader.frame)) = Len(inbox[reader.turn]) + 1
        BY <3>1, AppendEntries
      <3>3. \/ inbox' = inbox
          \/ /\ inbox' = [inbox EXCEPT ![reader.turn] = Append(inbox[reader.turn], reader.frame)]
             /\ Len(inbox[reader.turn]) < InboxCap
        BY <1>10 DEF Offer, RouteEvent
      <3>4. inbox' \in [Turns -> Seq(Frame)] /\ \A u \in Turns : Len(inbox'[u]) <= InboxCap
        <4>1. CASE inbox' = inbox
            BY <4>1 DEF TypeOK, Queued
          <4>2. CASE inbox' # inbox
            <5>1. Len(Append(inbox[reader.turn], reader.frame)) <= InboxCap
              BY <3>2, <3>3, <4>2, Capacities
            <5>2. inbox \in [Turns -> Seq(Frame)] /\ \A u \in Turns : Len(inbox[u]) <= InboxCap
              BY DEF TypeOK, Queued
            <5>3. LET r == [inbox EXCEPT ![reader.turn] = Append(inbox[reader.turn], reader.frame)] IN
                    r \in [Turns -> Seq(Frame)] /\ \A u \in Turns : Len(r[u]) <= InboxCap
              BY <3>1, <3>2, <5>1, <5>2, OneQueue
            <5> QED
              BY <3>3, <4>2, <5>3
          <4> QED
            BY <4>1, <4>2
      <3>5. TypeOK'
        BY <1>10, <3>1, <3>4, IdleFacts DEF TypeOK, ReaderSound, Readers, FromChild,
           RouteEvent
      <3>6. Queued'
        BY <1>10, <3>4 DEF Queued, RouteEvent
      <3>7. PipeSound'
        BY <1>10 DEF PipeSound, RouteEvent
      <3>8. ReaderSound'
        BY <1>10, IdleFacts DEF ReaderSound, RouteEvent
      <3> QED
        BY <3>5, <3>6, <3>7, <3>8
    <2>2. Routed'
      BY <1>10, IdleFacts, Threading DEF Inv, Types, TypeOK, Framed, Queued, ReaderSound,
         Readers, Routed, Endings, Ending, RouteEvent
    <2>3. Completing'
      BY <1>10, IdleFacts DEF Inv, Types, TypeOK, Completing, RouteEvent
    <2>4. Endings'
      BY <1>10 DEF RouteEvent, Inv, Types, TypeOK, Framed, Queued, PipeSound,
         ReaderSound, Readers, Routed, Completing, Off, Endings, Ending, PumpSound
    <2> QED
      BY <2>1, <2>2, <2>3, <2>4 DEF Inv
  <1>11. ASSUME RouteCompleted PROVE Inv'
    <2>1. Types'
      <3> USE DEF Inv, Types, Framed
      <3>1. /\ reader.turn \in Turns /\ reader.frame \in Frame
            /\ inbox[reader.turn] \in Seq(Frame)
        BY <1>11 DEF Queued, ReaderSound, Readers, RouteCompleted
      <3>2. /\ Append(inbox[reader.turn], reader.frame) \in Seq(Frame)
            /\ Len(inbox[reader.turn]) \in Nat
            /\ Len(Append(inbox[reader.turn], reader.frame)) = Len(inbox[reader.turn]) + 1
        BY <3>1, AppendEntries
      <3>3. \/ inbox' = inbox
          \/ /\ inbox' = [inbox EXCEPT ![reader.turn] = Append(inbox[reader.turn], reader.frame)]
             /\ Len(inbox[reader.turn]) < InboxCap
        BY <1>11 DEF Offer, RouteCompleted
      <3>4. inbox' \in [Turns -> Seq(Frame)] /\ \A u \in Turns : Len(inbox'[u]) <= InboxCap
        <4>1. CASE inbox' = inbox
            BY <4>1 DEF TypeOK, Queued
          <4>2. CASE inbox' # inbox
            <5>1. Len(Append(inbox[reader.turn], reader.frame)) <= InboxCap
              BY <3>2, <3>3, <4>2, Capacities
            <5>2. inbox \in [Turns -> Seq(Frame)] /\ \A u \in Turns : Len(inbox[u]) <= InboxCap
              BY DEF TypeOK, Queued
            <5>3. LET r == [inbox EXCEPT ![reader.turn] = Append(inbox[reader.turn], reader.frame)] IN
                    r \in [Turns -> Seq(Frame)] /\ \A u \in Turns : Len(r[u]) <= InboxCap
              BY <3>1, <3>2, <5>1, <5>2, OneQueue
            <5> QED
              BY <3>3, <4>2, <5>3
          <4> QED
            BY <4>1, <4>2
      <3>5. TypeOK'
        BY <1>11, <3>1, <3>4, IdleFacts DEF TypeOK, ReaderSound, Readers, FromChild,
           RouteCompleted
      <3>6. Queued'
        BY <1>11, <3>4 DEF Queued, RouteCompleted
      <3>7. PipeSound'
        BY <1>11 DEF PipeSound, RouteCompleted
      <3>8. ReaderSound'
        BY <1>11 DEF ReaderSound, Readers, RouteCompleted
      <3> QED
        BY <3>5, <3>6, <3>7, <3>8
    <2>2. Routed'
      BY <1>11 DEF RouteCompleted, Inv, Types, TypeOK, Framed, Queued, PipeSound,
         ReaderSound, Readers, Routed, Endings, Ending
    <2>3. Completing'
      <3>1. /\ reader'.at = "stashed" /\ reader'.turn = reader.turn /\ reader.turn \in Turns
            /\ final'[reader.turn] = reader.frame.turn /\ reader.frame.turn \in Turns
        BY <1>11 DEF Inv, Types, TypeOK, Framed, ReaderSound, Readers, FromChild,
           RouteCompleted
      <3> QED
        BY <3>1, Threading DEF Completing
    <2>4. Endings'
      BY <1>11 DEF RouteCompleted, Inv, Types, TypeOK, Framed, Queued, PipeSound,
         ReaderSound, Readers, Routed, Completing, Off, Endings, Ending, PumpSound
    <2> QED
      BY <2>1, <2>2, <2>3, <2>4 DEF Inv
  <1>12. ASSUME MarkTurnDone PROVE Inv'
    <2>1. Types'
      BY <1>12 DEF MarkTurnDone, Inv, Types, TypeOK, Framed, Queued, PipeSound,
         ReaderSound, Readers
    <2>2. Routed'
      BY <1>12 DEF MarkTurnDone, Inv, Types, TypeOK, Framed, Queued, PipeSound,
         ReaderSound, Readers, Routed, Endings, Ending
    <2>3. Completing'
      BY <1>12 DEF MarkTurnDone, Inv, Types, TypeOK, Framed, Queued, PipeSound,
         ReaderSound, Readers, Routed, Completing, Off, Endings, Ending
    <2>4. Endings'
      BY <1>12 DEF MarkTurnDone, Inv, Types, TypeOK, Framed, Queued, PipeSound,
         ReaderSound, Readers, Routed, Completing, Off, Endings, Ending, PumpSound
    <2> QED
      BY <2>1, <2>2, <2>3, <2>4 DEF Inv
  <1>13. ASSUME Unregister PROVE Inv'
    <2>1. Types'
      BY <1>13 DEF Unregister, Inv, Types, TypeOK, Framed, Queued, PipeSound,
         ReaderSound, Readers
    <2>2. Routed'
      BY <1>13 DEF Unregister, Inv, Types, TypeOK, Framed, Queued, PipeSound,
         ReaderSound, Readers, Routed, Endings, Ending
    <2>3. Completing'
      BY <1>13 DEF Unregister, Inv, Types, TypeOK, Framed, Queued, PipeSound,
         ReaderSound, Readers, Routed, Completing, Off, Endings, Ending
    <2>4. Endings'
      BY <1>13 DEF Unregister, Inv, Types, TypeOK, Framed, Queued, PipeSound,
         ReaderSound, Readers, Routed, Completing, Off, Endings, Ending, PumpSound
    <2> QED
      BY <2>1, <2>2, <2>3, <2>4 DEF Inv
  <1>14. ASSUME CloseInbox PROVE Inv'
    <2>1. Types'
      <3> USE DEF Inv, Types, Framed
      <3>1. TypeOK'
        BY <1>14, IdleFacts DEF TypeOK, ReaderSound, Readers, CloseInbox
      <3>2. Queued'
        BY <1>14 DEF Queued, CloseInbox
      <3>3. PipeSound'
        BY <1>14 DEF PipeSound, CloseInbox
      <3>4. ReaderSound'
        BY <1>14, IdleFacts DEF ReaderSound, CloseInbox
      <3> QED
        BY <3>1, <3>2, <3>3, <3>4
    <2>2. Routed'
      BY <1>14, IdleFacts, Threading DEF Inv, Types, TypeOK, Framed, Queued, ReaderSound,
         Readers, Routed, Endings, Ending, CloseInbox
    <2>3. Completing'
      BY <1>14, IdleFacts DEF Inv, Types, TypeOK, Completing, CloseInbox
    <2>4. Endings'
      BY <1>14 DEF CloseInbox, Inv, Types, TypeOK, Framed, Queued, PipeSound,
         ReaderSound, Readers, Routed, Completing, Off, Endings, Ending, PumpSound
    <2> QED
      BY <2>1, <2>2, <2>3, <2>4 DEF Inv
  <1>15. ASSUME ReaderEnds PROVE Inv'
    <2>1. Types'
      <3> USE DEF Inv, Types, Framed
      <3>1. TypeOK'
        BY <1>15, IdleFacts DEF TypeOK, ReaderSound, Readers, ReaderEnds
      <3>2. Queued'
        BY <1>15 DEF Queued, ReaderEnds
      <3>3. PipeSound'
        BY <1>15 DEF PipeSound, ReaderEnds
      <3>4. ReaderSound'
        BY <1>15, IdleFacts DEF ReaderSound, ReaderEnds
      <3> QED
        BY <3>1, <3>2, <3>3, <3>4
    <2>2. Routed'
      BY <1>15, IdleFacts, Threading DEF Inv, Types, TypeOK, Framed, Queued, ReaderSound,
         Readers, Routed, Endings, Ending, ReaderEnds
    <2>3. Completing'
      BY <1>15, IdleFacts DEF Inv, Types, TypeOK, Completing, ReaderEnds
    <2>4. Endings'
      BY <1>15 DEF ReaderEnds, Inv, Types, TypeOK, Framed, Queued, PipeSound,
         ReaderSound, Readers, Routed, Completing, Off, Endings, Ending, PumpSound
    <2> QED
      BY <2>1, <2>2, <2>3, <2>4 DEF Inv
  <1>16. ASSUME NEW t \in Turns, PumpTakes(t) PROVE Inv'
    <2>1. Types'
      <3> USE DEF Inv, Types, Framed
      <3>1. inbox[t] \in Seq(Frame) /\ inbox[t] # <<>>
        BY <1>16 DEF PumpTakes, Queued
      <3>2. /\ Tail(inbox[t]) \in Seq(Frame) /\ Head(inbox[t]) \in Frame
            /\ Len(inbox[t]) \in Nat /\ Len(Tail(inbox[t])) = Len(inbox[t]) - 1
        BY <3>1, TailEntries
      <3>3. Append(Loss(t), Head(inbox[t])) \in Seq(Frame)
        BY <3>2, FrameFacts DEF Loss
      <3>4. Len(Tail(inbox[t])) <= InboxCap
        BY <3>2, Capacities DEF TypeOK
      <3>5. inbox' \in [Turns -> Seq(Frame)] /\ \A u \in Turns : Len(inbox'[u]) <= InboxCap
        BY <1>16, <3>2, <3>4, OneQueue DEF TypeOK, Queued, PumpTakes
      <3>6. lost' \in [Turns -> {"no", "yes", "told"}]
        BY <1>16 DEF TypeOK, PumpTakes, Told
      <3>7. TypeOK'
        BY <1>16, <3>5, <3>6 DEF TypeOK, PumpTakes
      <3>8. Queued'
        BY <1>16, <3>3, <3>5 DEF Queued, PumpTakes
      <3>9. PipeSound'
        BY <1>16 DEF PipeSound, PumpTakes
      <3>10. ReaderSound'
        BY <1>16 DEF ReaderSound, PumpTakes
      <3> QED
        BY <3>7, <3>8, <3>9, <3>10
    <2>2. Routed'
      BY <1>16 DEF PumpTakes, Inv, Types, TypeOK, Framed, Queued, PipeSound, ReaderSound,
         Readers, Routed, Endings, Ending
    <2>3. Completing'
      BY <1>16 DEF PumpTakes, Inv, Types, TypeOK, Framed, Queued, PipeSound, ReaderSound,
         Readers, Routed, Completing, Off, Endings, Ending
    <2>4. Endings'
      <3> SUFFICES ASSUME NEW u \in Turns PROVE Ending(u)' /\ PumpSound(u)'
        BY DEF Endings
      <3> USE DEF Inv
      <3>1. Ending(u) /\ PumpSound(u)
        BY DEF Endings
      <3>2. CASE u = t
        <4>1. Ending(u)'
          BY <1>16, <3>1, <3>2, Threading DEF Types, TypeOK, Framed, Queued, ReaderSound,
             Readers, Completing, Off, Ending, PumpSound, PumpTakes
        <4>2. PumpSound(u)'
          BY <1>16, <3>1, <3>2 DEF Types, TypeOK, Ending, PumpSound, PumpTakes
        <4> QED
          BY <4>1, <4>2
      <3>3. CASE u # t
        <4>1. Ending(u)'
          BY <1>16, <3>1, <3>3, Threading DEF Types, TypeOK, Framed, Queued, ReaderSound,
             Readers, Completing, Off, Ending, PumpTakes
        <4>2. PumpSound(u)'
          BY <1>16, <3>1, <3>3 DEF Types, TypeOK, PumpSound, PumpTakes
        <4> QED
          BY <4>1, <4>2
      <3> QED
        BY <3>2, <3>3
    <2> QED
      BY <2>1, <2>2, <2>3, <2>4 DEF Inv
  <1>17. ASSUME NEW t \in Turns, PumpForwards(t) PROVE Inv'
    <2>1. Types'
      <3> USE DEF Inv, Types, Framed
      <3>1. hand[t] \in Seq(Frame) /\ hand[t] # <<>> /\ events[t] \in Seq(Frame)
        BY <1>17 DEF PumpForwards, Queued
      <3>2. Tail(hand[t]) \in Seq(Frame) /\ Head(hand[t]) \in Frame
        BY <3>1, TailEntries
      <3>3. /\ Append(events[t], Head(hand[t])) \in Seq(Frame) /\ Len(events[t]) \in Nat
            /\ Len(Append(events[t], Head(hand[t]))) = Len(events[t]) + 1
        BY <3>1, <3>2, AppendEntries
      <3>4. \/ events' = events
          \/ /\ events' = [events EXCEPT ![t] = Append(events[t], Head(hand[t]))]
             /\ Len(events[t]) < EventsCap
        BY <1>17 DEF PumpForwards
      <3>5. events' \in [Turns -> Seq(Frame)] /\ \A u \in Turns : Len(events'[u]) <= EventsCap
        <4>1. CASE events' = events
            BY <4>1 DEF TypeOK, Queued
          <4>2. CASE events' # events
            <5>1. Len(Append(events[t], Head(hand[t]))) <= EventsCap
              BY <3>3, <3>4, <4>2, Capacities
            <5>2. events \in [Turns -> Seq(Frame)] /\ \A u \in Turns : Len(events[u]) <= EventsCap
              BY DEF TypeOK, Queued
            <5>3. LET r == [events EXCEPT ![t] = Append(events[t], Head(hand[t]))] IN
                    r \in [Turns -> Seq(Frame)] /\ \A u \in Turns : Len(r[u]) <= EventsCap
              BY <3>3, <5>1, <5>2, OneQueue
            <5> QED
              BY <3>4, <4>2, <5>3
          <4> QED
            BY <4>1, <4>2
      <3>6. TypeOK'
        BY <1>17, <3>5 DEF TypeOK, PumpForwards
      <3>7. Queued'
        BY <1>17, <3>2, <3>5 DEF Queued, PumpForwards
      <3>8. PipeSound'
        BY <1>17 DEF PipeSound, PumpForwards
      <3>9. ReaderSound'
        BY <1>17 DEF ReaderSound, PumpForwards
      <3> QED
        BY <3>6, <3>7, <3>8, <3>9
    <2>2. Routed'
      BY <1>17 DEF PumpForwards, Inv, Types, TypeOK, Framed, Queued, PipeSound,
         ReaderSound, Readers, Routed, Endings, Ending
    <2>3. Completing'
      BY <1>17 DEF PumpForwards, Inv, Types, TypeOK, Framed, Queued, PipeSound,
         ReaderSound, Readers, Routed, Completing, Off, Endings, Ending
    <2>4. Endings'
      <3> SUFFICES ASSUME NEW u \in Turns PROVE Ending(u)' /\ PumpSound(u)'
        BY DEF Endings
      <3> USE DEF Inv
      <3>1. Ending(u) /\ PumpSound(u)
        BY DEF Endings
      <3>2. CASE u = t
        <4>1. Ending(u)'
          BY <1>17, <3>1, <3>2, Threading DEF Types, TypeOK, Framed, Queued, ReaderSound,
             Readers, Completing, Off, Ending, PumpSound, PumpForwards
        <4>2. PumpSound(u)'
          BY <1>17, <3>1, <3>2 DEF Types, TypeOK, Ending, PumpSound, PumpForwards
        <4> QED
          BY <4>1, <4>2
      <3>3. CASE u # t
        <4>1. Ending(u)'
          BY <1>17, <3>1, <3>3, Threading DEF Types, TypeOK, Framed, Queued, ReaderSound,
             Readers, Completing, Off, Ending, PumpForwards
        <4>2. PumpSound(u)'
          BY <1>17, <3>1, <3>3 DEF Types, TypeOK, PumpSound, PumpForwards
        <4> QED
          BY <4>1, <4>2
      <3> QED
        BY <3>2, <3>3
    <2> QED
      BY <2>1, <2>2, <2>3, <2>4 DEF Inv
  <1>18. ASSUME NEW t \in Turns, PumpEnds(t) PROVE Inv'
    <2>1. Types'
      <3> USE DEF Inv, Types, Framed
      <3>1. Loss(t) \in Seq(Frame)
        BY FrameFacts DEF Loss
      <3>2. lost' \in [Turns -> {"no", "yes", "told"}]
        BY <1>18 DEF TypeOK, PumpEnds, Told
      <3>3. TypeOK'
        BY <1>18, <3>1, <3>2, Capacities DEF TypeOK, Queued, PumpEnds
      <3>4. Queued'
        BY <1>18, <3>1 DEF Queued, PumpEnds
      <3>5. PipeSound'
        BY <1>18 DEF PipeSound, PumpEnds
      <3>6. ReaderSound'
        BY <1>18 DEF ReaderSound, PumpEnds
      <3> QED
        BY <3>3, <3>4, <3>5, <3>6
    <2>2. Routed'
      BY <1>18 DEF PumpEnds, Inv, Types, TypeOK, Framed, Queued, PipeSound, ReaderSound,
         Readers, Routed, Endings, Ending
    <2>3. Completing'
      BY <1>18 DEF PumpEnds, Inv, Types, TypeOK, Framed, Queued, PipeSound, ReaderSound,
         Readers, Routed, Completing, Off, Endings, Ending
    <2>4. Endings'
      <3> SUFFICES ASSUME NEW u \in Turns PROVE Ending(u)' /\ PumpSound(u)'
        BY DEF Endings
      <3> USE DEF Inv
      <3>1. Ending(u) /\ PumpSound(u)
        BY DEF Endings
      <3>2. CASE u = t
        <4>1. Ending(u)'
          BY <1>18, <3>1, <3>2, Threading DEF Types, TypeOK, Framed, Queued, ReaderSound,
             Readers, Completing, Off, Ending, PumpSound, PumpEnds
        <4>2. PumpSound(u)'
          BY <1>18, <3>1, <3>2 DEF Types, TypeOK, Ending, PumpSound, PumpEnds
        <4> QED
          BY <4>1, <4>2
      <3>3. CASE u # t
        <4>1. Ending(u)'
          BY <1>18, <3>1, <3>3, Threading DEF Types, TypeOK, Framed, Queued, ReaderSound,
             Readers, Completing, Off, Ending, PumpEnds
        <4>2. PumpSound(u)'
          BY <1>18, <3>1, <3>3 DEF Types, TypeOK, PumpSound, PumpEnds
        <4> QED
          BY <4>1, <4>2
      <3> QED
        BY <3>2, <3>3
    <2> QED
      BY <2>1, <2>2, <2>3, <2>4 DEF Inv
  <1>19. ASSUME NEW t \in Turns, PumpCloses(t) PROVE Inv'
    <2>1. Types'
      BY <1>19 DEF PumpCloses, Inv, Types, TypeOK, Framed, Queued, PipeSound,
         ReaderSound, Readers
    <2>2. Routed'
      BY <1>19 DEF PumpCloses, Inv, Types, TypeOK, Framed, Queued, PipeSound,
         ReaderSound, Readers, Routed, Endings, Ending
    <2>3. Completing'
      BY <1>19 DEF PumpCloses, Inv, Types, TypeOK, Framed, Queued, PipeSound,
         ReaderSound, Readers, Routed, Completing, Off, Endings, Ending
    <2>4. Endings'
      <3> SUFFICES ASSUME NEW u \in Turns PROVE Ending(u)' /\ PumpSound(u)'
        BY DEF Endings
      <3> USE DEF Inv
      <3>1. Ending(u) /\ PumpSound(u)
        BY DEF Endings
      <3>2. CASE u = t
        <4>1. Ending(u)'
          BY <1>19, <3>1, <3>2, Threading DEF Types, TypeOK, Framed, Queued, ReaderSound,
             Readers, Completing, Off, Ending, PumpSound, PumpCloses
        <4>2. PumpSound(u)'
          BY <1>19, <3>1, <3>2 DEF Types, TypeOK, Ending, PumpSound, PumpCloses
        <4> QED
          BY <4>1, <4>2
      <3>3. CASE u # t
        <4>1. Ending(u)'
          BY <1>19, <3>1, <3>3, Threading DEF Types, TypeOK, Framed, Queued, ReaderSound,
             Readers, Completing, Off, Ending, PumpCloses
        <4>2. PumpSound(u)'
          BY <1>19, <3>1, <3>3 DEF Types, TypeOK, PumpSound, PumpCloses
        <4> QED
          BY <4>1, <4>2
      <3> QED
        BY <3>2, <3>3
    <2> QED
      BY <2>1, <2>2, <2>3, <2>4 DEF Inv
  <1>20. ASSUME NEW t \in Turns, PumpCanceled(t) PROVE Inv'
    <2>1. Types'
      BY <1>20 DEF PumpCanceled, Inv, Types, TypeOK, Framed, Queued, PipeSound,
         ReaderSound, Readers
    <2>2. Routed'
      BY <1>20 DEF PumpCanceled, Inv, Types, TypeOK, Framed, Queued, PipeSound,
         ReaderSound, Readers, Routed, Endings, Ending
    <2>3. Completing'
      BY <1>20 DEF PumpCanceled, Inv, Types, TypeOK, Framed, Queued, PipeSound,
         ReaderSound, Readers, Routed, Completing, Off, Endings, Ending
    <2>4. Endings'
      <3> SUFFICES ASSUME NEW u \in Turns PROVE Ending(u)' /\ PumpSound(u)'
        BY DEF Endings
      <3> USE DEF Inv
      <3>1. Ending(u) /\ PumpSound(u)
        BY DEF Endings
      <3>2. CASE u = t
        <4>1. Ending(u)'
          BY <1>20, <3>1, <3>2, Threading DEF Types, TypeOK, Framed, Queued, ReaderSound,
             Readers, Completing, Off, Ending, PumpSound, PumpCanceled
        <4>2. PumpSound(u)'
          BY <1>20, <3>1, <3>2 DEF Types, TypeOK, Ending, PumpSound, PumpCanceled
        <4> QED
          BY <4>1, <4>2
      <3>3. CASE u # t
        <4>1. Ending(u)'
          BY <1>20, <3>1, <3>3, Threading DEF Types, TypeOK, Framed, Queued, ReaderSound,
             Readers, Completing, Off, Ending, PumpCanceled
        <4>2. PumpSound(u)'
          BY <1>20, <3>1, <3>3 DEF Types, TypeOK, PumpSound, PumpCanceled
        <4> QED
          BY <4>1, <4>2
      <3> QED
        BY <3>2, <3>3
    <2> QED
      BY <2>1, <2>2, <2>3, <2>4 DEF Inv
  <1>21. ASSUME NEW t \in Turns, Receive(t) PROVE Inv'
    <2>1. Types'
      <3> USE DEF Inv, Types, Framed
      <3>1. events[t] \in Seq(Frame) /\ events[t] # <<>> /\ got[t] \in Seq(Frame)
        BY <1>21 DEF Receive, Queued
      <3>2. /\ Tail(events[t]) \in Seq(Frame) /\ Head(events[t]) \in Frame
            /\ Len(events[t]) \in Nat /\ Len(Tail(events[t])) = Len(events[t]) - 1
        BY <3>1, TailEntries
      <3>3. Append(got[t], Head(events[t])) \in Seq(Frame)
        BY <3>1, <3>2, AppendEntries
      <3>4. Len(Tail(events[t])) <= EventsCap
        BY <3>2, Capacities DEF TypeOK
      <3>5. events' \in [Turns -> Seq(Frame)] /\ \A u \in Turns : Len(events'[u]) <= EventsCap
        BY <1>21, <3>2, <3>4, OneQueue DEF TypeOK, Queued, Receive
      <3>6. TypeOK'
        BY <1>21, <3>5 DEF TypeOK, Receive
      <3>7. Queued'
        BY <1>21, <3>3, <3>5 DEF Queued, Receive
      <3>8. PipeSound'
        BY <1>21 DEF PipeSound, Receive
      <3>9. ReaderSound'
        BY <1>21 DEF ReaderSound, Receive
      <3> QED
        BY <3>6, <3>7, <3>8, <3>9
    <2>2. Routed'
      BY <1>21 DEF Receive, Inv, Types, TypeOK, Framed, Queued, PipeSound, ReaderSound,
         Readers, Routed, Endings, Ending
    <2>3. Completing'
      BY <1>21 DEF Receive, Inv, Types, TypeOK, Framed, Queued, PipeSound, ReaderSound,
         Readers, Routed, Completing, Off, Endings, Ending
    <2>4. Endings'
      BY <1>21 DEF Receive, Inv, Types, TypeOK, Framed, Queued, PipeSound, ReaderSound,
         Readers, Routed, Completing, Off, Endings, Ending, PumpSound
    <2> QED
      BY <2>1, <2>2, <2>3, <2>4 DEF Inv
  <1>22. ASSUME NEW t \in Turns, DrainEnds(t) PROVE Inv'
    <2>1. Types'
      BY <1>22 DEF DrainEnds, Inv, Types, TypeOK, Framed, Queued, PipeSound, ReaderSound,
         Readers
    <2>2. Routed'
      BY <1>22 DEF DrainEnds, Inv, Types, TypeOK, Framed, Queued, PipeSound, ReaderSound,
         Readers, Routed, Endings, Ending
    <2>3. Completing'
      BY <1>22 DEF DrainEnds, Inv, Types, TypeOK, Framed, Queued, PipeSound, ReaderSound,
         Readers, Routed, Completing, Off, Endings, Ending
    <2>4. Endings'
      <3> SUFFICES ASSUME NEW u \in Turns PROVE Ending(u)' /\ PumpSound(u)'
        BY DEF Endings
      <3> USE DEF Inv
      <3>1. Ending(u) /\ PumpSound(u)
        BY DEF Endings
      <3>2. CASE u = t
        <4>1. Ending(u)'
          BY <1>22, <3>1, <3>2, Threading DEF Types, TypeOK, Framed, Queued, ReaderSound,
             Readers, Completing, Off, Ending, PumpSound, DrainEnds
        <4>2. PumpSound(u)'
          BY <1>22, <3>1, <3>2 DEF Types, TypeOK, Ending, PumpSound, DrainEnds
        <4> QED
          BY <4>1, <4>2
      <3>3. CASE u # t
        <4>1. Ending(u)'
          BY <1>22, <3>1, <3>3, Threading DEF Types, TypeOK, Framed, Queued, ReaderSound,
             Readers, Completing, Off, Ending, DrainEnds
        <4>2. PumpSound(u)'
          BY <1>22, <3>1, <3>3 DEF Types, TypeOK, PumpSound, DrainEnds
        <4> QED
          BY <4>1, <4>2
      <3> QED
        BY <3>2, <3>3
    <2> QED
      BY <2>1, <2>2, <2>3, <2>4 DEF Inv
  <1>23. ASSUME NEW t \in Turns, Leave(t) PROVE Inv'
    <2>1. Types'
      BY <1>23 DEF Leave, Inv, Types, TypeOK, Framed, Queued, PipeSound, ReaderSound,
         Readers
    <2>2. Routed'
      BY <1>23 DEF Leave, Inv, Types, TypeOK, Framed, Queued, PipeSound, ReaderSound,
         Readers, Routed, Endings, Ending
    <2>3. Completing'
      BY <1>23 DEF Leave, Inv, Types, TypeOK, Framed, Queued, PipeSound, ReaderSound,
         Readers, Routed, Completing, Off, Endings, Ending
    <2>4. Endings'
      <3> SUFFICES ASSUME NEW u \in Turns PROVE Ending(u)' /\ PumpSound(u)'
        BY DEF Endings
      <3> USE DEF Inv
      <3>1. Ending(u) /\ PumpSound(u)
        BY DEF Endings
      <3>2. CASE u = t
        <4>1. Ending(u)'
          BY <1>23, <3>1, <3>2, Threading DEF Types, TypeOK, Framed, Queued, ReaderSound,
             Readers, Completing, Off, Ending, PumpSound, Leave
        <4>2. PumpSound(u)'
          BY <1>23, <3>1, <3>2 DEF Types, TypeOK, Ending, PumpSound, Leave
        <4> QED
          BY <4>1, <4>2
      <3>3. CASE u # t
        <4>1. Ending(u)'
          BY <1>23, <3>1, <3>3, Threading DEF Types, TypeOK, Framed, Queued, ReaderSound,
             Readers, Completing, Off, Ending, Leave
        <4>2. PumpSound(u)'
          BY <1>23, <3>1, <3>3 DEF Types, TypeOK, PumpSound, Leave
        <4> QED
          BY <4>1, <4>2
      <3> QED
        BY <3>2, <3>3
    <2> QED
      BY <2>1, <2>2, <2>3, <2>4 DEF Inv
  <1>24. ASSUME NEW t \in Turns, CancelFromOutside(t) PROVE Inv'
    <2>1. Types'
      BY <1>24 DEF CancelFromOutside, Inv, Types, TypeOK, Framed, Queued, PipeSound,
         ReaderSound, Readers
    <2>2. Routed'
      BY <1>24 DEF CancelFromOutside, Inv, Types, TypeOK, Framed, Queued, PipeSound,
         ReaderSound, Readers, Routed, Endings, Ending
    <2>3. Completing'
      BY <1>24 DEF CancelFromOutside, Inv, Types, TypeOK, Framed, Queued, PipeSound,
         ReaderSound, Readers, Routed, Completing, Off, Endings, Ending
    <2>4. Endings'
      <3> SUFFICES ASSUME NEW u \in Turns PROVE Ending(u)' /\ PumpSound(u)'
        BY DEF Endings
      <3> USE DEF Inv
      <3>1. Ending(u) /\ PumpSound(u)
        BY DEF Endings
      <3>2. CASE u = t
        <4>1. Ending(u)'
          BY <1>24, <3>1, <3>2, Threading DEF Types, TypeOK, Framed, Queued, ReaderSound,
             Readers, Completing, Off, Ending, PumpSound, CancelFromOutside
        <4>2. PumpSound(u)'
          BY <1>24, <3>1, <3>2 DEF Types, TypeOK, Ending, PumpSound, CancelFromOutside
        <4> QED
          BY <4>1, <4>2
      <3>3. CASE u # t
        <4>1. Ending(u)'
          BY <1>24, <3>1, <3>3, Threading DEF Types, TypeOK, Framed, Queued, ReaderSound,
             Readers, Completing, Off, Ending, CancelFromOutside
        <4>2. PumpSound(u)'
          BY <1>24, <3>1, <3>3 DEF Types, TypeOK, PumpSound, CancelFromOutside
        <4> QED
          BY <4>1, <4>2
      <3> QED
        BY <3>2, <3>3
    <2> QED
      BY <2>1, <2>2, <2>3, <2>4 DEF Inv
  <1>25. ASSUME NEW t \in Turns, CancelClaims(t) PROVE Inv'
    <2>1. Types'
      BY <1>25 DEF CancelClaims, Inv, Types, TypeOK, Framed, Queued, PipeSound,
         ReaderSound, Readers
    <2>2. Routed'
      BY <1>25 DEF CancelClaims, Inv, Types, TypeOK, Framed, Queued, PipeSound,
         ReaderSound, Readers, Routed, Endings, Ending
    <2>3. Completing'
      BY <1>25 DEF CancelClaims, Inv, Types, TypeOK, Framed, Queued, PipeSound,
         ReaderSound, Readers, Routed, Completing, Off, Endings, Ending
    <2>4. Endings'
      <3> SUFFICES ASSUME NEW u \in Turns PROVE Ending(u)' /\ PumpSound(u)'
        BY DEF Endings
      <3> USE DEF Inv
      <3>1. Ending(u) /\ PumpSound(u)
        BY DEF Endings
      <3>2. CASE u = t
        <4>1. Ending(u)'
          BY <1>25, <3>1, <3>2, Threading DEF Types, TypeOK, Framed, Queued, ReaderSound,
             Readers, Completing, Off, Ending, PumpSound, CancelClaims
        <4>2. PumpSound(u)'
          BY <1>25, <3>1, <3>2 DEF Types, TypeOK, Ending, PumpSound, CancelClaims
        <4> QED
          BY <4>1, <4>2
      <3>3. CASE u # t
        <4>1. Ending(u)'
          BY <1>25, <3>1, <3>3, Threading DEF Types, TypeOK, Framed, Queued, ReaderSound,
             Readers, Completing, Off, Ending, CancelClaims
        <4>2. PumpSound(u)'
          BY <1>25, <3>1, <3>3 DEF Types, TypeOK, PumpSound, CancelClaims
        <4> QED
          BY <4>1, <4>2
      <3> QED
        BY <3>2, <3>3
    <2> QED
      BY <2>1, <2>2, <2>3, <2>4 DEF Inv
  <1>26. ASSUME NEW t \in Turns, CancelUnroutes(t) PROVE Inv'
    <2>1. Types'
      BY <1>26 DEF CancelUnroutes, Inv, Types, TypeOK, Framed, Queued, PipeSound,
         ReaderSound, Readers
    <2>2. Routed'
      BY <1>26 DEF CancelUnroutes, Inv, Types, TypeOK, Framed, Queued, PipeSound,
         ReaderSound, Readers, Routed, Endings, Ending
    <2>3. Completing'
      BY <1>26 DEF CancelUnroutes, Inv, Types, TypeOK, Framed, Queued, PipeSound,
         ReaderSound, Readers, Routed, Completing, Off, Endings, Ending
    <2>4. Endings'
      <3> SUFFICES ASSUME NEW u \in Turns PROVE Ending(u)' /\ PumpSound(u)'
        BY DEF Endings
      <3> USE DEF Inv
      <3>1. Ending(u) /\ PumpSound(u)
        BY DEF Endings
      <3>0. Off(t)' /\ \A v \in Turns : Off(v) => Off(v)'
        BY <1>26, Threading DEF Types, TypeOK, Off, CancelUnroutes
      <3>2. CASE u = t
        <4>1. Ending(u)'
          <5>1. cancel'[t] = "unrouted" /\ cancel[t] = "won"
            BY <1>26 DEF Types, TypeOK, CancelUnroutes
          <5>2. caller' = caller /\ done' = done /\ canceled' = canceled /\ sealed' = sealed
                /\ final' = final /\ reader' = reader
            BY <1>26 DEF CancelUnroutes
          <5> QED
            BY <3>0, <3>1, <3>2, <5>1, <5>2 DEF Ending
        <4>2. PumpSound(u)'
          BY <1>26, <3>1, <3>2, <3>0 DEF Types, TypeOK, Ending, PumpSound, CancelUnroutes
        <4> QED
          BY <4>1, <4>2
      <3>3. CASE u # t
        <4>1. Ending(u)'
          <5>1. cancel'[u] = cancel[u]
            BY <1>26, <3>3 DEF Types, TypeOK, CancelUnroutes
          <5>2. caller' = caller /\ done' = done /\ canceled' = canceled /\ sealed' = sealed
                /\ final' = final /\ reader' = reader
            BY <1>26 DEF CancelUnroutes
          <5> QED
            BY <3>0, <3>1, <3>3, <5>1, <5>2 DEF Ending
        <4>2. PumpSound(u)'
          BY <1>26, <3>1, <3>3, <3>0 DEF Types, TypeOK, PumpSound, CancelUnroutes
        <4> QED
          BY <4>1, <4>2
      <3> QED
        BY <3>2, <3>3
    <2> QED
      BY <2>1, <2>2, <2>3, <2>4 DEF Inv
  <1>27. ASSUME NEW t \in Turns, CancelSignals(t) PROVE Inv'
    <2>1. Types'
      BY <1>27 DEF CancelSignals, Inv, Types, TypeOK, Framed, Queued, PipeSound,
         ReaderSound, Readers
    <2>2. Routed'
      BY <1>27 DEF CancelSignals, Inv, Types, TypeOK, Framed, Queued, PipeSound,
         ReaderSound, Readers, Routed, Endings, Ending
    <2>3. Completing'
      BY <1>27 DEF CancelSignals, Inv, Types, TypeOK, Framed, Queued, PipeSound,
         ReaderSound, Readers, Routed, Completing, Off, Endings, Ending
    <2>4. Endings'
      <3> SUFFICES ASSUME NEW u \in Turns PROVE Ending(u)' /\ PumpSound(u)'
        BY DEF Endings
      <3> USE DEF Inv
      <3>1. Ending(u) /\ PumpSound(u)
        BY DEF Endings
      <3>2. CASE u = t
        <4>1. Ending(u)'
          BY <1>27, <3>1, <3>2, Threading DEF Types, TypeOK, Framed, Queued, ReaderSound,
             Readers, Completing, Off, Ending, PumpSound, CancelSignals
        <4>2. PumpSound(u)'
          BY <1>27, <3>1, <3>2 DEF Types, TypeOK, Ending, PumpSound, CancelSignals
        <4> QED
          BY <4>1, <4>2
      <3>3. CASE u # t
        <4>1. Ending(u)'
          BY <1>27, <3>1, <3>3, Threading DEF Types, TypeOK, Framed, Queued, ReaderSound,
             Readers, Completing, Off, Ending, CancelSignals
        <4>2. PumpSound(u)'
          BY <1>27, <3>1, <3>3 DEF Types, TypeOK, PumpSound, CancelSignals
        <4> QED
          BY <4>1, <4>2
      <3> QED
        BY <3>2, <3>3
    <2> QED
      BY <2>1, <2>2, <2>3, <2>4 DEF Inv
  <1>28. ASSUME UNCHANGED vars PROVE Inv'
    <2>1. Types'
      BY <1>28 DEF vars, Inv, Types, TypeOK, Framed, Queued, PipeSound, ReaderSound, Readers
    <2>2. Routed'
      BY <1>28 DEF vars, Inv, Types, TypeOK, Framed, Queued, PipeSound, ReaderSound,
         Readers, Routed, Endings, Ending
    <2>3. Completing'
      BY <1>28 DEF vars, Inv, Types, TypeOK, Framed, Queued, PipeSound, ReaderSound,
         Readers, Routed, Completing, Off, Endings, Ending
    <2>4. Endings'
      BY <1>28 DEF vars, Inv, Types, TypeOK, Framed, Queued, PipeSound, ReaderSound,
         Readers, Routed, Completing, Off, Endings, Ending, PumpSound
    <2> QED
      BY <2>1, <2>2, <2>3, <2>4 DEF Inv
  <1> QED
    BY <1>1, <1>2, <1>3, <1>4, <1>5, <1>6, <1>7, <1>8, <1>9, <1>10, <1>11, <1>12, <1>13,
       <1>14, <1>15, <1>16, <1>17, <1>18, <1>19, <1>20, <1>21, <1>22, <1>23, <1>24,
       <1>25, <1>26, <1>27, <1>28
    DEF Next, Reader, Pump, Canceller, Consumer

(* The types of all queues; routes, completions and the ends of turns as   *)
(* the reader, the cancellations and the pumps leave them                  *)
(* (appserver.go:356-440, 590-660).                                        *)
THEOREM MuxInvariant == Spec => []Inv
  BY Initially, Inductive, PTL DEF Spec

(* The routing map holds no turn that has ended for good: ActiveTurns,     *)
(* which keeps the broker from reaping the child, does not leak            *)
(* (appserver.go:968-978).                                                 *)
THEOREM RoutesDoNotLeak == Spec => []RouteHoldsLive
  <1>1. Inv => RouteHoldsLive
    BY DEF Inv, Types, TypeOK, Endings, Ending, PumpSound, Off, RouteHoldsLive
  <1> QED
    BY <1>1, MuxInvariant, PTL

-----------------------------------------------------------------------------
(* No two turns share a thread. *)
Alone == \A t, u \in Turns : ThreadOf[t] = ThreadOf[u] => t = u

(* The frames on their way to the consumer of t, the oldest first. *)
Holding == IF reader.at = "found" THEN <<reader.frame>> ELSE <<>>
Line(t) == <<got[t], events[t], hand[t], inbox[t], Holding, pipe>>

(* The child has written what is on its way, and no event after a          *)
(* completion.                                                             *)
Accounted(e) ==
  /\ e.kind = "event" => e.turn \in Turns /\ e.n \in 1 .. sent[e.turn]
  /\ e.kind = "completed" => e.turn \in Turns /\ child[e.turn] = "over"

Lined == \A t \in Turns : Ordered(Line(t)) /\ \A e : Has(Line(t), e) => Accounted(e)

(* The child has nothing to write of a turn it was not asked for. *)
Asked ==
  \A t \in Turns : /\ caller[t] = "none" => child[t] = "none"
                   /\ child[t] \in {"none", "asked"} => sent[t] = 0

(* What reached the pump of t is its own. *)
Own(s, t) == \A k \in 1 .. Len(s) : s[k] = Marker \/ s[k].turn = t
Owned ==
  /\ \A t \in Turns : Own(got[t], t) /\ Own(events[t], t) /\ Own(hand[t], t) /\ Own(inbox[t], t)
  /\ \A t \in Turns : {final[t], result[t]} \subseteq {NoTurn, "died", t}
  /\ reader.at = "found" => reader.turn \in {NoTurn, reader.frame.turn}

(* The caller has not given up on t, and nobody has cancelled it. *)
Uncut(t) == cancel[t] = "none" /\ caller[t] \in {"starting", "draining", "ended"}

(* Once a turn is done nothing of it is still to come. *)
NoEvents(s, t) == \A k \in 1 .. Len(s) : s[k].kind = "event" => s[k].turn # t
Passed ==
  /\ reader.at = "stashed" => child[reader.turn] = "over" /\ NoEvents(pipe, reader.turn)
  /\ \A t \in Turns : Uncut(t) /\ done[t] =>
       (child[t] = "over" \/ ~alive) /\ NoEvents(pipe, t) /\ NoEvents(Holding, t)

(* Until then its frames reach it. *)
Reached ==
  /\ \A t \in Turns : Uncut(t) /\ ~done[t] => route[ThreadOf[t]] = t
  /\ reader.at = "found" =>
       (Uncut(reader.frame.turn) /\ ~done[reader.frame.turn] => reader.turn = reader.frame.turn)

(* What the child has written is on the line, or its loss is known; a loss *)
(* that was told is marked.                                                *)
Marks(s) == \E k \in 1 .. Len(s) : s[k] = Marker
Kept ==
  \A t \in Turns :
    /\ caller[t] = "none" => lost[t] = "no"
    /\ Uncut(t) /\ lost[t] = "no" => \A n \in 1 .. sent[t] : Has(Line(t), Event(t, n))
    /\ Uncut(t) /\ lost[t] = "told" => Marks(got[t]) \/ Marks(events[t]) \/ Marks(hand[t])

(* A pump that ended leaves nothing behind, and nor does a drain. *)
Emptied ==
  \A t \in Turns :
    /\ pump[t] \in {"ending", "closed"} /\ ~canceled[t] => inbox[t] = <<>> /\ lost[t] # "yes"
    /\ caller[t] = "ended" => events[t] = <<>>

(* The line of a turn, stage by stage, now and after a step. *)
LEMMA LineTyped ==
  ASSUME Inv, NEW u \in Turns
  PROVE  /\ Line(u) \in Lines
         /\ Line(u)[1] = got[u] /\ Line(u)[2] = events[u] /\ Line(u)[3] = hand[u]
         /\ Line(u)[4] = inbox[u] /\ Line(u)[5] = Holding /\ Line(u)[6] = pipe
  <1>1. /\ got[u] \in Seq(Frame) /\ events[u] \in Seq(Frame) /\ hand[u] \in Seq(Frame)
        /\ inbox[u] \in Seq(Frame) /\ pipe \in Seq(Frame)
    BY DEF Inv, Types, Framed, Queued
  <1>2. Holding \in Seq(Frame)
    BY DEF Inv, Types, Framed, ReaderSound, Readers, Holding
  <1> QED
    BY <1>1, <1>2 DEF Line, Lines, Stages

LEMMA LineTypedNext ==
  ASSUME Inv', NEW u \in Turns
  PROVE  /\ Line(u)' \in Lines
         /\ Line(u)'[1] = got'[u] /\ Line(u)'[2] = events'[u] /\ Line(u)'[3] = hand'[u]
         /\ Line(u)'[4] = inbox'[u] /\ Line(u)'[5] = Holding' /\ Line(u)'[6] = pipe'
  <1>1. /\ got'[u] \in Seq(Frame) /\ events'[u] \in Seq(Frame) /\ hand'[u] \in Seq(Frame)
        /\ inbox'[u] \in Seq(Frame) /\ pipe' \in Seq(Frame)
    BY DEF Inv, Types, Framed, Queued
  <1>2. Holding' \in Seq(Frame)
    BY DEF Inv, Types, Framed, ReaderSound, Readers, Holding
  <1> QED
    BY <1>1, <1>2 DEF Line, Lines, Stages

(* Nothing on the line moves. *)
LEMMA Unmoved ==
  ASSUME Inv, Inv', NEW u \in Turns,
         got'[u] = got[u], events'[u] = events[u], hand'[u] = hand[u], inbox'[u] = inbox[u],
         Holding' = Holding, pipe' = pipe
  PROVE  Line(u)' = Line(u)
  BY DEF Line

(* The entries at a stage are entries of the line. *)
LEMMA EntryIsHad ==
  ASSUME NEW Q \in Lines, NEW j \in Stages, NEW k \in 1 .. Len(Q[j])
  PROVE  Has(Q, Q[j][k])
  BY DEF Has, HasTo, Size

(* The steps that move frames: what they do to the line of a turn u. *)
LEMMA ReceiveMoves ==
  ASSUME Inv, Inv', NEW t \in Turns, Receive(t), NEW u \in Turns
  PROVE  /\ Ordered(Line(u)) => Ordered(Line(u)')
         /\ \A e : Has(Line(u)', e) <=> Has(Line(u), e)
  <1>1. Holding' = Holding /\ pipe' = pipe
    BY DEF Receive, Holding, childVars
  <1>2. CASE u = t
    <2> DEFINE Q == Line(u)
               R == Line(u)'
    <2>a. /\ Q \in Lines /\ Q[1] = got[u] /\ Q[2] = events[u] /\ Q[3] = hand[u]
           /\ Q[4] = inbox[u] /\ Q[5] = Holding /\ Q[6] = pipe
      BY LineTyped
    <2>b. /\ R \in Lines /\ R[1] = got'[u] /\ R[2] = events'[u] /\ R[3] = hand'[u]
           /\ R[4] = inbox'[u] /\ R[5] = Holding' /\ R[6] = pipe'
      BY LineTypedNext
    <2>1. Q \in Lines /\ R \in Lines
      BY <2>a, <2>b
    <2>2. Q[2] # <<>> /\ R[1] = Append(Q[1], Head(Q[2])) /\ R[2] = Tail(Q[2])
      BY <1>2, <2>a, <2>b DEF Receive, Inv, Types, Framed, Queued
    <2>3. R[3] = Q[3] /\ R[4] = Q[4] /\ R[5] = Q[5] /\ R[6] = Q[6]
      BY <1>1, <2>a, <2>b DEF Receive, turnVars
    <2> HIDE DEF Q, R
    <2>4. \A k \in Stages \ {1, 1 + 1} : R[k] = Q[k]
      BY <2>3 DEF Stages
    <2>5. 1 \in 1 .. 5 /\ Q[1 + 1] # <<>> /\ R[1] = Append(Q[1], Head(Q[1 + 1])) /\ R[1 + 1] = Tail(Q[1 + 1])
      BY <2>2
    <2>6. (Ordered(Q) => Ordered(R)) /\ \A e : Has(R, e) <=> Has(Q, e)
      BY <2>1, <2>4, <2>5, Passes
    <2> QED
      BY <2>6 DEF Q, R
  <1>3. CASE u # t
    <2>1. Line(u)' = Line(u)
      BY <1>1, <1>3, Unmoved DEF Receive, turnVars, Inv, Types, Framed, Queued
    <2> QED
      BY <2>1
  <1> QED
    BY <1>2, <1>3

LEMMA ForwardMoves ==
  ASSUME Inv, Inv', NEW t \in Turns, PumpForwards(t), NEW u \in Turns
  PROVE  /\ Ordered(Line(u)) => Ordered(Line(u)')
         /\ \A e : Has(Line(u)', e) => Has(Line(u), e)
         /\ \A e : Has(Line(u), e) => Has(Line(u)', e) \/ (u = t /\ canceled[t])
  <1>1. /\ Holding' = Holding /\ pipe' = pipe /\ got' = got /\ inbox' = inbox
        /\ hand[t] # <<>> /\ hand' = [hand EXCEPT ![t] = Tail(hand[t])]
        /\ \/ events' = [events EXCEPT ![t] = Append(events[t], Head(hand[t]))]
           \/ events' = events /\ canceled[t]
    BY DEF PumpForwards, Holding, childVars, turnVars
  <1>2. CASE u = t
    <2> DEFINE Q == Line(u)
               R == Line(u)'
    <2>a. /\ Q \in Lines /\ Q[1] = got[u] /\ Q[2] = events[u] /\ Q[3] = hand[u]
           /\ Q[4] = inbox[u] /\ Q[5] = Holding /\ Q[6] = pipe
      BY LineTyped
    <2>b. /\ R \in Lines /\ R[1] = got'[u] /\ R[2] = events'[u] /\ R[3] = hand'[u]
           /\ R[4] = inbox'[u] /\ R[5] = Holding' /\ R[6] = pipe'
      BY LineTypedNext
    <2>1. Q \in Lines /\ R \in Lines
      BY <2>a, <2>b
    <2>2. Q[3] # <<>> /\ R[3] = Tail(Q[3])
      BY <1>1, <1>2, <2>a, <2>b DEF Inv, Types, Framed, Queued
    <2>3. R[1] = Q[1] /\ R[4] = Q[4] /\ R[5] = Q[5] /\ R[6] = Q[6]
      BY <1>1, <2>a, <2>b
    <2>4. R[2] = Append(Q[2], Head(Q[3])) \/ (R[2] = Q[2] /\ canceled[t])
      BY <1>1, <1>2, <2>a, <2>b DEF Inv, Types, Framed, Queued
    <2> HIDE DEF Q, R
    <2>5. CASE R[2] = Append(Q[2], Head(Q[3]))
      <3>1. \A k \in Stages \ {2, 2 + 1} : R[k] = Q[k]
        BY <2>3 DEF Stages
      <3>2. 2 \in 1 .. 5 /\ Q[2 + 1] # <<>> /\ R[2] = Append(Q[2], Head(Q[2 + 1])) /\ R[2 + 1] = Tail(Q[2 + 1])
        BY <2>2, <2>5
      <3>3. (Ordered(Q) => Ordered(R)) /\ \A e : Has(R, e) <=> Has(Q, e)
        BY <2>1, <3>1, <3>2, Passes
      <3> QED
        BY <3>3 DEF Q, R
    <2>6. CASE R[2] = Q[2] /\ canceled[t]
      <3>1. \A k \in Stages \ {3} : R[k] = Q[k]
        BY <2>3, <2>6 DEF Stages
      <3>2. 3 \in Stages
        BY DEF Stages
      <3>3. (Ordered(Q) => Ordered(R)) /\ \A e : Has(R, e) => Has(Q, e)
        BY <2>1, <2>2, <3>1, <3>2, Drops
      <3> QED
        BY <1>2, <2>6, <3>3 DEF Q, R
    <2> QED
      BY <2>4, <2>5, <2>6
  <1>3. CASE u # t
    <2>1. Line(u)' = Line(u)
      BY <1>1, <1>3, Unmoved DEF Inv, Types, Framed, Queued
    <2> QED
      BY <2>1
  <1> QED
    BY <1>2, <1>3

(* A loss marker at the end of the hand. *)
LEMMA MarkerIsHad ==
  ASSUME NEW Q \in Lines, NEW R \in Lines, R[3] = Append(Q[3], Marker),
         \A k \in Stages \ {3} : R[k] = Q[k]
  PROVE  \A e : Has(R, e) <=> Has(Q, e) \/ e = Marker
  <1> DEFINE i == 3
  <1>1. R[i] = Append(Q[i], Marker) /\ (\A k \in Stages \ {i} : R[k] = Q[k]) /\ i \in Stages
    BY DEF Stages
  <1> HIDE DEF i
  <1> QED
    BY <1>1, FrameFacts, Enters

(* The loss marker is taken into an empty hand. *)
LEMMA MarkerEnters ==
  ASSUME NEW Q \in Lines, NEW R \in Lines, Q[3] = <<>>, R[3] \in {<<>>, <<Marker>>},
         \A k \in Stages \ {3} : R[k] = Q[k]
  PROVE  /\ Ordered(Q) /\ (\A e : Has(Q, e) => Accounted(e)) => Ordered(R)
         /\ \A e : Has(R, e) => Has(Q, e) \/ e = Marker
         /\ \A e : Has(Q, e) => Has(R, e)
  <1>1. CASE R[3] = <<>>
    <2>1. \A k \in Stages : R[k] = Q[k]
      BY <1>1
    <2>2. R = Q
      BY <2>1 DEF Lines
    <2> QED
      BY <2>2
  <1>2. CASE R[3] = <<Marker>>
    <2>1. R[3] = Append(Q[3], Marker) /\ 3 \in Stages /\ Marker \in Frame
      BY <1>2, FrameFacts DEF Stages
    <2>2. \A e \in Frame : Precedes(e, Marker)
      BY DEF Precedes, Marker
    <2>3. ASSUME NEW e, Accounted(e) PROVE Precedes(Marker, e)
      BY <2>3, Threading DEF Accounted, Precedes, Marker
    <2>4. ASSUME \A e : Has(Q, e) => Accounted(e)
          PROVE  \A j \in Stages : \A k \in 1 .. Len(Q[j]) : Precedes(Marker, Q[j][k])
      <3> SUFFICES ASSUME NEW j \in Stages, NEW k \in 1 .. Len(Q[j])
                   PROVE  Precedes(Marker, Q[j][k])
        OBVIOUS
      <3>1. Has(Q, Q[j][k])
        BY EntryIsHad
      <3> QED
        BY <2>3, <2>4, <3>1
    <2>5. \A j \in Stages : \A k \in 1 .. Len(Q[j]) : Precedes(Q[j][k], Marker)
      <3>1. \A j \in Stages : \A k \in 1 .. Len(Q[j]) : Q[j][k] \in Frame
        BY DEF Lines
      <3> QED
        BY <2>2, <3>1
    <2>6. 1 .. 3 \subseteq Stages /\ 3 + 1 .. 6 \subseteq Stages
      BY DEF Stages
    <2>7. ASSUME Ordered(Q), \A e : Has(Q, e) => Accounted(e) PROVE Ordered(R)
      <3>1. \A j \in 1 .. 3 : \A k \in 1 .. Len(Q[j]) : Precedes(Q[j][k], Marker)
        BY <2>5, <2>6
      <3>2. \A j \in 3 + 1 .. 6 : \A k \in 1 .. Len(Q[j]) : Precedes(Marker, Q[j][k])
        BY <2>4, <2>6, <2>7
      <3> QED
        BY <2>1, <2>7, <3>1, <3>2, EntersInOrder
    <2>8. \A e : Has(R, e) <=> Has(Q, e) \/ e = Marker
      BY <2>1, MarkerIsHad
    <2> QED
      BY <2>7, <2>8
  <1> QED
    BY <1>1, <1>2

(* The pump takes a frame, with the marker of a loss before it. *)
LEMMA TakeMoves ==
  ASSUME Inv, Inv', NEW t \in Turns, PumpTakes(t), NEW u \in Turns,
         \A e : Has(Line(u), e) => Accounted(e)
  PROVE  /\ Ordered(Line(u)) => Ordered(Line(u)')
         /\ \A e : Has(Line(u)', e) => Has(Line(u), e) \/ e = Marker
         /\ \A e : Has(Line(u), e) => Has(Line(u)', e)
  <1>1. /\ Holding' = Holding /\ pipe' = pipe /\ got' = got /\ events' = events
        /\ hand[t] = <<>> /\ hand' = [hand EXCEPT ![t] = Append(Loss(t), Head(inbox[t]))]
        /\ inbox[t] # <<>> /\ inbox' = [inbox EXCEPT ![t] = Tail(inbox[t])]
    BY DEF PumpTakes, Holding, childVars, turnVars
  <1>2. CASE u = t
    <2> DEFINE Q == Line(u)
               S == [Q EXCEPT ![3] = Loss(u)]
               R == Line(u)'
    <2>a. /\ Q \in Lines /\ Q[1] = got[u] /\ Q[2] = events[u] /\ Q[3] = hand[u]
           /\ Q[4] = inbox[u] /\ Q[5] = Holding /\ Q[6] = pipe
      BY LineTyped
    <2>b. /\ R \in Lines /\ R[1] = got'[u] /\ R[2] = events'[u] /\ R[3] = hand'[u]
           /\ R[4] = inbox'[u] /\ R[5] = Holding' /\ R[6] = pipe'
      BY LineTypedNext
    <2>1. Q \in Lines /\ R \in Lines
      BY <2>a, <2>b
    <2>2. Loss(u) \in {<<>>, <<Marker>>}
      BY DEF Loss
    <2>3. Q[3] = <<>> /\ Q[4] # <<>> /\ R[3] = Append(Loss(u), Head(Q[4])) /\ R[4] = Tail(Q[4])
      BY <1>1, <1>2, <2>a, <2>b DEF Inv, Types, Framed, Queued
    <2>4. R[1] = Q[1] /\ R[2] = Q[2] /\ R[5] = Q[5] /\ R[6] = Q[6]
      BY <1>1, <2>a, <2>b
    <2> HIDE DEF Q, R
    <2>5. 3 \in Stages
      BY DEF Stages
    <2>6. Loss(u) \in Seq(Frame)
      BY FrameFacts DEF Loss
    <2>7. S \in Lines /\ S[3] = Loss(u) /\ \A k \in Stages \ {3} : S[k] = Q[k]
      BY <2>1, <2>5, <2>6 DEF Lines
    <2> HIDE DEF S
    <2>8. /\ Ordered(Q) => Ordered(S)
          /\ \A e : Has(S, e) => Has(Q, e) \/ e = Marker
          /\ \A e : Has(Q, e) => Has(S, e)
      <3>1. \A e : Has(Q, e) => Accounted(e)
        BY DEF Q
      <3> QED
        BY <2>1, <2>2, <2>3, <2>7, <3>1, MarkerEnters
    <2>9. /\ 3 \in 1 .. 5 /\ S[3 + 1] # <<>>
          /\ R[3] = Append(S[3], Head(S[3 + 1])) /\ R[3 + 1] = Tail(S[3 + 1])
      BY <2>3, <2>7 DEF Stages
    <2>10. \A k \in Stages \ {3, 3 + 1} : R[k] = S[k]
      BY <2>4, <2>7 DEF Stages
    <2>11. (Ordered(S) => Ordered(R)) /\ \A e : Has(R, e) <=> Has(S, e)
      BY <2>1, <2>7, <2>9, <2>10, Passes
    <2> QED
      BY <2>8, <2>11 DEF Q, R
  <1>3. CASE u # t
    <2>1. Line(u)' = Line(u)
      BY <1>1, <1>3, Unmoved DEF Inv, Types, Framed, Queued
    <2> QED
      BY <2>1
  <1> QED
    BY <1>2, <1>3

(* The pump ends, with the marker of a loss. *)
LEMMA EndMoves ==
  ASSUME Inv, Inv', NEW t \in Turns, PumpEnds(t), NEW u \in Turns,
         \A e : Has(Line(u), e) => Accounted(e)
  PROVE  /\ Ordered(Line(u)) => Ordered(Line(u)')
         /\ \A e : Has(Line(u)', e) => Has(Line(u), e) \/ e = Marker
         /\ \A e : Has(Line(u), e) => Has(Line(u)', e)
  <1>1. /\ Holding' = Holding /\ pipe' = pipe /\ got' = got /\ events' = events /\ inbox' = inbox
        /\ hand[t] = <<>> /\ hand' = [hand EXCEPT ![t] = Loss(t)]
    BY DEF PumpEnds, Holding, childVars, turnVars
  <1>2. CASE u = t
    <2> DEFINE Q == Line(u)
               R == Line(u)'
    <2>a. /\ Q \in Lines /\ Q[1] = got[u] /\ Q[2] = events[u] /\ Q[3] = hand[u]
           /\ Q[4] = inbox[u] /\ Q[5] = Holding /\ Q[6] = pipe
      BY LineTyped
    <2>b. /\ R \in Lines /\ R[1] = got'[u] /\ R[2] = events'[u] /\ R[3] = hand'[u]
           /\ R[4] = inbox'[u] /\ R[5] = Holding' /\ R[6] = pipe'
      BY LineTypedNext
    <2>1. Q \in Lines /\ R \in Lines
      BY <2>a, <2>b
    <2>2. Q[3] = <<>> /\ R[3] = Loss(u)
      BY <1>1, <1>2, <2>a, <2>b DEF Inv, Types, Framed, Queued
    <2>3. R[3] \in {<<>>, <<Marker>>}
      BY <2>2 DEF Loss
    <2>4. R[1] = Q[1] /\ R[2] = Q[2] /\ R[4] = Q[4] /\ R[5] = Q[5] /\ R[6] = Q[6]
      BY <1>1, <2>a, <2>b
    <2>5. \A e : Has(Q, e) => Accounted(e)
      OBVIOUS
    <2> HIDE DEF Q, R
    <2>6. \A k \in Stages \ {3} : R[k] = Q[k]
      BY <2>4 DEF Stages
    <2>7. /\ Ordered(Q) => Ordered(R)
          /\ \A e : Has(R, e) => Has(Q, e) \/ e = Marker
          /\ \A e : Has(Q, e) => Has(R, e)
      BY <2>1, <2>2, <2>3, <2>5, <2>6, MarkerEnters
    <2> QED
      BY <2>7 DEF Q, R
  <1>3. CASE u # t
    <2>1. Line(u)' = Line(u)
      BY <1>1, <1>3, Unmoved DEF Inv, Types, Framed, Queued
    <2> QED
      BY <2>1
  <1> QED
    BY <1>2, <1>3

(* The reader takes a frame; a reply goes no further. *)
LEMMA ReadMoves ==
  ASSUME Inv, Inv', ReadFrame, NEW u \in Turns
  PROVE  /\ Ordered(Line(u)) => Ordered(Line(u)')
         /\ \A e : Has(Line(u)', e) => Has(Line(u), e)
         /\ \A e : Has(Line(u), e) => Has(Line(u)', e) \/ e.kind = "reply"
  <1> DEFINE Q == Line(u)
             R == Line(u)'
  <1>1. /\ pipe # <<>> /\ pipe' = Tail(pipe) /\ reader.at = "idle"
        /\ got' = got /\ events' = events /\ hand' = hand /\ inbox' = inbox
        /\ \/ Head(pipe).kind = "reply" /\ reader' = reader
           \/ /\ Head(pipe).kind # "reply"
              /\ reader' = [at |-> "found", frame |-> Head(pipe), turn |-> LookUp(Head(pipe))]
    BY DEF ReadFrame, turnVars, pumpVars
  <1>a. /\ Q \in Lines /\ Q[1] = got[u] /\ Q[2] = events[u] /\ Q[3] = hand[u]
         /\ Q[4] = inbox[u] /\ Q[5] = Holding /\ Q[6] = pipe
    BY LineTyped
  <1>b. /\ R \in Lines /\ R[1] = got'[u] /\ R[2] = events'[u] /\ R[3] = hand'[u]
         /\ R[4] = inbox'[u] /\ R[5] = Holding' /\ R[6] = pipe'
    BY LineTypedNext
  <1>2. Q \in Lines /\ R \in Lines
    BY <1>a, <1>b
  <1>3. /\ Q[5] = <<>> /\ Q[6] # <<>> /\ R[6] = Tail(Q[6])
        /\ R[1] = Q[1] /\ R[2] = Q[2] /\ R[3] = Q[3] /\ R[4] = Q[4]
    BY <1>1, <1>a, <1>b DEF Holding
  <1>4. \/ R[5] = Append(Q[5], Head(Q[6]))
        \/ R[5] = Q[5] /\ Head(Q[6]).kind = "reply"
    <2>1. Q[6] = pipe /\ Q[5] = <<>> /\ R[5] = Holding'
      BY <1>3, <1>a, <1>b
    <2>2. Holding' = <<Head(pipe)>> \/ (Holding' = <<>> /\ Head(pipe).kind = "reply")
      BY <1>1 DEF Holding
    <2> QED
      BY <2>1, <2>2
  <1> HIDE DEF Q, R
  <1>5. CASE R[5] = Append(Q[5], Head(Q[6]))
    <2>1. \A k \in Stages \ {5, 5 + 1} : R[k] = Q[k]
      BY <1>3 DEF Stages
    <2>2. 5 \in 1 .. 5 /\ Q[5 + 1] # <<>> /\ R[5] = Append(Q[5], Head(Q[5 + 1])) /\ R[5 + 1] = Tail(Q[5 + 1])
      BY <1>3, <1>5
    <2>3. (Ordered(Q) => Ordered(R)) /\ \A e : Has(R, e) <=> Has(Q, e)
      BY <1>2, <2>1, <2>2, Passes
    <2> QED
      BY <2>3 DEF Q, R
  <1>6. CASE R[5] = Q[5] /\ Head(Q[6]).kind = "reply"
    <2>1. \A k \in Stages \ {6} : R[k] = Q[k]
      BY <1>3, <1>6 DEF Stages
    <2>2. 6 \in Stages
      BY DEF Stages
    <2>3. /\ Ordered(Q) => Ordered(R)
          /\ \A e : Has(R, e) => Has(Q, e)
          /\ \A e : Has(Q, e) => Has(R, e) \/ e = Head(Q[6])
      BY <1>2, <1>3, <2>1, <2>2, Drops
    <2> QED
      BY <1>6, <2>3 DEF Q, R
  <1> QED
    BY <1>4, <1>5, <1>6

(* A frame leaves the reader: for the inbox of its turn, if that has room. *)
LEMMA RouteMoves ==
  ASSUME Inv, Inv', NEW u \in Turns, reader.at = "found", reader'.at # "found",
         got' = got, events' = events, hand' = hand, pipe' = pipe,
         \/ inbox' = inbox
         \/ reader.turn \in Turns /\ Offer(reader.turn, reader.frame)
  PROVE  /\ Ordered(Line(u)) => Ordered(Line(u)')
         /\ \A e : Has(Line(u)', e) => Has(Line(u), e)
         /\ \A e : Has(Line(u), e) => Has(Line(u)', e) \/ e = reader.frame
         /\ u = reader.turn /\ inbox' # inbox => \A e : Has(Line(u), e) => Has(Line(u)', e)
  <1> DEFINE Q == Line(u)
             R == Line(u)'
  <1>a. /\ Q \in Lines /\ Q[1] = got[u] /\ Q[2] = events[u] /\ Q[3] = hand[u]
         /\ Q[4] = inbox[u] /\ Q[5] = Holding /\ Q[6] = pipe
    BY LineTyped
  <1>b. /\ R \in Lines /\ R[1] = got'[u] /\ R[2] = events'[u] /\ R[3] = hand'[u]
         /\ R[4] = inbox'[u] /\ R[5] = Holding' /\ R[6] = pipe'
    BY LineTypedNext
  <1>1. Q \in Lines /\ R \in Lines
    BY <1>a, <1>b
  <1>2. /\ Q[5] = <<reader.frame>> /\ R[5] = <<>>
        /\ R[1] = Q[1] /\ R[2] = Q[2] /\ R[3] = Q[3] /\ R[6] = Q[6]
    BY <1>a, <1>b DEF Holding
  <1>3. Q[4] = inbox[u] /\ R[4] = inbox'[u]
    BY <1>a, <1>b
  <1>4. reader.frame \in Frame
    BY DEF Inv, Types, Framed, ReaderSound, Readers
  <1>5. inbox \in [Turns -> Seq(Frame)]
    BY DEF Inv, Types, Framed, Queued
  <1>6. \/ inbox' = inbox
        \/ /\ reader.turn \in Turns
           /\ inbox' = [inbox EXCEPT ![reader.turn] = Append(inbox[reader.turn], reader.frame)]
    BY DEF Offer
  <1>7. Q[5] # <<>> /\ Head(Q[5]) = reader.frame /\ Tail(Q[5]) = <<>>
    BY <1>2, <1>4
  <1>8. R[4] = Append(Q[4], reader.frame) \/ (R[4] = Q[4] /\ (u = reader.turn => inbox' = inbox))
    BY <1>3, <1>5, <1>6
  <1> HIDE DEF Q, R
  <1>9. CASE R[4] = Append(Q[4], reader.frame)
    <2>1. \A k \in Stages \ {4, 4 + 1} : R[k] = Q[k]
      BY <1>2 DEF Stages
    <2>2. 4 \in 1 .. 5 /\ Q[4 + 1] # <<>> /\ R[4] = Append(Q[4], Head(Q[4 + 1])) /\ R[4 + 1] = Tail(Q[4 + 1])
      <3>1. 4 + 1 = 5 /\ 4 \in 1 .. 5
        OBVIOUS
      <3> QED
        BY <1>2, <1>7, <1>9, <3>1
    <2>3. (Ordered(Q) => Ordered(R)) /\ \A e : Has(R, e) <=> Has(Q, e)
      BY <1>1, <2>1, <2>2, Passes
    <2> QED
      BY <2>3 DEF Q, R
  <1>10. CASE R[4] = Q[4] /\ (u = reader.turn => inbox' = inbox)
    <2>1. \A k \in Stages \ {5} : R[k] = Q[k]
      BY <1>2, <1>10 DEF Stages
    <2>2. 5 \in Stages /\ R[5] = Tail(Q[5])
      BY <1>2, <1>7 DEF Stages
    <2>3. /\ Ordered(Q) => Ordered(R)
          /\ \A e : Has(R, e) => Has(Q, e)
          /\ \A e : Has(Q, e) => Has(R, e) \/ e = reader.frame
      BY <1>1, <1>7, <2>1, <2>2, Drops
    <2> QED
      BY <1>10, <2>3 DEF Q, R
  <1> QED
    BY <1>8, <1>9, <1>10

(* The child writes f, which nothing on the way must follow. *)
LEMMA WriteMoves ==
  ASSUME Inv, Inv', NEW u \in Turns, NEW f \in Frame, pipe' = Append(pipe, f),
         got' = got, events' = events, hand' = hand, inbox' = inbox, reader' = reader,
         \A e \in Frame : Has(Line(u), e) => Precedes(e, f)
  PROVE  /\ Ordered(Line(u)) => Ordered(Line(u)')
         /\ \A e : Has(Line(u)', e) <=> Has(Line(u), e) \/ e = f
  <1> DEFINE Q == Line(u)
             R == Line(u)'
  <1>a. /\ Q \in Lines /\ Q[1] = got[u] /\ Q[2] = events[u] /\ Q[3] = hand[u]
         /\ Q[4] = inbox[u] /\ Q[5] = Holding /\ Q[6] = pipe
    BY LineTyped
  <1>b. /\ R \in Lines /\ R[1] = got'[u] /\ R[2] = events'[u] /\ R[3] = hand'[u]
         /\ R[4] = inbox'[u] /\ R[5] = Holding' /\ R[6] = pipe'
    BY LineTypedNext
  <1>1. Q \in Lines /\ R \in Lines
    BY <1>a, <1>b
  <1>2. /\ R[6] = Append(Q[6], f)
        /\ R[1] = Q[1] /\ R[2] = Q[2] /\ R[3] = Q[3] /\ R[4] = Q[4] /\ R[5] = Q[5]
    BY <1>a, <1>b DEF Holding
  <1>3. \A e \in Frame : Has(Q, e) => Precedes(e, f)
    OBVIOUS
  <1> HIDE DEF Q, R
  <1>4. \A k \in Stages \ {6} : R[k] = Q[k]
    BY <1>2 DEF Stages
  <1>5. \A j \in 1 .. 6 : \A k \in 1 .. Len(Q[j]) : Precedes(Q[j][k], f)
    <2> SUFFICES ASSUME NEW j \in Stages, NEW k \in 1 .. Len(Q[j]) PROVE Precedes(Q[j][k], f)
      BY DEF Stages
    <2>1. Has(Q, Q[j][k]) /\ Q[j][k] \in Frame
      BY <1>1, EntryIsHad DEF Lines
    <2> QED
      BY <1>3, <2>1
  <1>6. \A j \in 6 + 1 .. 6 : \A k \in 1 .. Len(Q[j]) : Precedes(f, Q[j][k])
    OBVIOUS
  <1>7. 6 \in Stages
    BY DEF Stages
  <1>8. (Ordered(Q) => Ordered(R)) /\ \A e : Has(R, e) <=> Has(Q, e) \/ e = f
    <2>1. Ordered(Q) => Ordered(R)
      BY <1>1, <1>2, <1>4, <1>5, <1>6, <1>7, EntersInOrder
    <2>2. \A e : Has(R, e) <=> Has(Q, e) \/ e = f
      BY <1>1, <1>2, <1>4, <1>7, Enters
    <2> QED
      BY <2>1, <2>2
  <1> QED
    BY <1>8 DEF Q, R

(* What an action must keep for the lines to stay in order. *)
LEMMA Carried ==
  ASSUME Lined,
         \A u \in Turns : Ordered(Line(u)) => Ordered(Line(u)'),
         \A u \in Turns : \A e : Has(Line(u)', e) => Has(Line(u), e) \/ Accounted(e)',
         \A e : Accounted(e) => Accounted(e)'
  PROVE  Lined'
  BY DEF Lined

LEMMA StillAccounted ==
  ASSUME child' = child, sent' = sent, NEW e, Accounted(e)
  PROVE  Accounted(e)'
  BY DEF Accounted

LEMMA MarkerAccounted == Accounted(Marker)'
  BY DEF Accounted, Marker

(* The lines stay in order. *)
LEMMA LinesEvolve ==
  ASSUME Inv, Inv', Lined, Asked, [Next]_vars
  PROVE  Lined' /\ Asked'
  <1> USE DEF turnVars, pumpVars, childVars, Write
  <1>1. ASSUME NEW t \in Turns, StartTurn(t) PROVE Lined' /\ Asked'
    <2>1. Asked'
      BY <1>1 DEF Asked, Inv, Types, TypeOK, Framed, Queued, StartTurn
    <2>2. Holding' = Holding
      BY <1>1 DEF Holding, StartTurn
    <2>3. \A u \in Turns : Line(u)' = Line(u)
      BY <1>1, <2>2 DEF Line, StartTurn
    <2>4. ASSUME NEW e, Accounted(e) PROVE Accounted(e)'
      <3>1. child[t] = "none" /\ sent' = sent /\ \A u \in Turns : u # t => child'[u] = child[u]
        BY <1>1 DEF Asked, Inv, Types, Framed, Queued, StartTurn
      <3> QED
        BY <2>4, <3>1 DEF Accounted
    <2> QED
      BY <2>1, <2>3, <2>4, Carried
  <1>2. ASSUME NEW t \in Turns, StartFails(t) PROVE Lined' /\ Asked'
    <2>1. Asked'
      BY <1>2 DEF Asked, Inv, Types, TypeOK, Framed, Queued, StartFails
    <2>2. Holding' = Holding
      BY <1>2 DEF Holding, StartFails
    <2>3. \A u \in Turns : Line(u)' = Line(u)
      BY <1>2, <2>2 DEF Line, StartFails
    <2>4. \A e : Accounted(e) => Accounted(e)'
      BY <1>2, StillAccounted DEF StartFails
    <2> QED
      BY <2>1, <2>3, <2>4, Carried
  <1>3. ASSUME NEW t \in Turns, StartGivesUp(t) PROVE Lined' /\ Asked'
    <2>1. Asked'
      BY <1>3 DEF Asked, Inv, Types, TypeOK, Framed, Queued, StartGivesUp
    <2>2. Holding' = Holding
      BY <1>3 DEF Holding, StartGivesUp
    <2>3. \A u \in Turns : Line(u)' = Line(u)
      BY <1>3, <2>2 DEF Line, StartGivesUp
    <2>4. \A e : Accounted(e) => Accounted(e)'
      BY <1>3, StillAccounted DEF StartGivesUp
    <2> QED
      BY <2>1, <2>3, <2>4, Carried
  <1>4. ASSUME NEW t \in Turns, ChildAnswers(t) PROVE Lined' /\ Asked'
    <2>1. Asked'
      BY <1>4 DEF Asked, Inv, Types, TypeOK, Framed, Queued, ChildAnswers
    <2>2. Reply(t) \in Frame /\ sent[t] \in Nat
      BY FrameFacts DEF Inv, Types, Framed, Queued
    <2>3. \A e : Accounted(e) => Accounted(e)'
      BY <1>4 DEF Accounted, Inv, Types, Framed, Queued, ChildAnswers
    <2>4. Accounted(Reply(t))'
      BY <1>4, <2>2 DEF Accounted, Reply, Event, Completed, Inv, Types, Framed, Queued,
         ChildAnswers
    <2>5. ASSUME NEW u \in Turns
          PROVE  /\ Ordered(Line(u)) => Ordered(Line(u)')
                 /\ \A e : Has(Line(u)', e) <=> Has(Line(u), e) \/ e = Reply(t)
      <3>1. ASSUME NEW e \in Frame, Has(Line(u), e) PROVE Precedes(e, Reply(t))
        <4>1. Accounted(e)
          BY <3>1 DEF Lined
        <4> QED
          BY <1>4, <2>2, <4>1 DEF Accounted, Precedes, Frame, Reply, Event, Completed,
             ChildAnswers
      <3>2. /\ pipe' = Append(pipe, Reply(t)) /\ got' = got /\ events' = events
            /\ hand' = hand /\ inbox' = inbox /\ reader' = reader
        BY <1>4 DEF ChildAnswers
      <3> QED
        BY <2>2, <3>1, <3>2, WriteMoves
    <2> QED
      BY <2>1, <2>3, <2>4, <2>5, Carried
  <1>5. ASSUME NEW t \in Turns, ChildNotifies(t) PROVE Lined' /\ Asked'
    <2>1. Asked'
      BY <1>5 DEF Asked, Inv, Types, TypeOK, Framed, Queued, ChildNotifies
    <2>2. Event(t, sent[t] + 1) \in Frame /\ sent[t] \in Nat
      BY FrameFacts DEF Inv, Types, Framed, Queued
    <2>a. PICK f \in Frame : f = Event(t, sent[t] + 1)
      BY <2>2
    <2>3. \A e : Accounted(e) => Accounted(e)'
      BY <1>5 DEF Accounted, Inv, Types, Framed, Queued, ChildNotifies
    <2>4. Accounted(f)'
      BY <1>5, <2>2, <2>a DEF Accounted, Reply, Event, Completed, Inv, Types, Framed,
         Queued, ChildNotifies
    <2>5. ASSUME NEW u \in Turns
          PROVE  /\ Ordered(Line(u)) => Ordered(Line(u)')
                 /\ \A e : Has(Line(u)', e) <=> Has(Line(u), e) \/ e = f
      <3>1. ASSUME NEW e \in Frame, Has(Line(u), e) PROVE Precedes(e, f)
        <4>1. Accounted(e)
          BY <3>1 DEF Lined
        <4> QED
          BY <1>5, <2>2, <2>a, <4>1 DEF Accounted, Precedes, Frame, Reply, Event,
             Completed, ChildNotifies
      <3>2. /\ pipe' = Append(pipe, f) /\ got' = got /\ events' = events
            /\ hand' = hand /\ inbox' = inbox /\ reader' = reader
        BY <1>5, <2>a DEF ChildNotifies
      <3> QED
        BY <2>2, <3>1, <3>2, WriteMoves
    <2> QED
      BY <2>1, <2>3, <2>4, <2>5, Carried
  <1>6. ASSUME NEW t \in Turns, ChildCompletes(t) PROVE Lined' /\ Asked'
    <2>1. Asked'
      BY <1>6 DEF Asked, Inv, Types, TypeOK, Framed, Queued, ChildCompletes
    <2>2. Completed(t) \in Frame /\ sent[t] \in Nat
      BY FrameFacts DEF Inv, Types, Framed, Queued
    <2>3. \A e : Accounted(e) => Accounted(e)'
      BY <1>6 DEF Accounted, Inv, Types, Framed, Queued, ChildCompletes
    <2>4. Accounted(Completed(t))'
      BY <1>6, <2>2 DEF Accounted, Reply, Event, Completed, Inv, Types, Framed, Queued,
         ChildCompletes
    <2>5. ASSUME NEW u \in Turns
          PROVE  /\ Ordered(Line(u)) => Ordered(Line(u)')
                 /\ \A e : Has(Line(u)', e) <=> Has(Line(u), e) \/ e = Completed(t)
      <3>1. ASSUME NEW e \in Frame, Has(Line(u), e) PROVE Precedes(e, Completed(t))
        <4>1. Accounted(e)
          BY <3>1 DEF Lined
        <4> QED
          BY <1>6, <2>2, <4>1 DEF Accounted, Precedes, Frame, Reply, Event, Completed,
             ChildCompletes
      <3>2. /\ pipe' = Append(pipe, Completed(t)) /\ got' = got /\ events' = events
            /\ hand' = hand /\ inbox' = inbox /\ reader' = reader
        BY <1>6 DEF ChildCompletes
      <3> QED
        BY <2>2, <3>1, <3>2, WriteMoves
    <2> QED
      BY <2>1, <2>3, <2>4, <2>5, Carried
  <1>7. ASSUME ChildDies PROVE Lined' /\ Asked'
    <2>1. Asked'
      BY <1>7 DEF Asked, Inv, Types, TypeOK, Framed, Queued, ChildDies
    <2>2. Holding' = Holding
      BY <1>7 DEF Holding, ChildDies
    <2>3. \A u \in Turns : Line(u)' = Line(u)
      BY <1>7, <2>2 DEF Line, ChildDies
    <2>4. \A e : Accounted(e) => Accounted(e)'
      BY <1>7, StillAccounted DEF ChildDies
    <2> QED
      BY <2>1, <2>3, <2>4, Carried
  <1>8. ASSUME ReadFrame PROVE Lined' /\ Asked'
    <2>1. Asked'
      <3>1. child' = child /\ sent' = sent /\ \A u \in Turns : caller'[u] = "none" => caller[u] = "none"
        <4>1. Head(pipe).turn \in Turns
          BY <1>8, TailEntries DEF Inv, Types, Framed, Queued, PipeSound, FromChild,
             ReadFrame
        <4>2. \A u \in Turns : caller'[u] \in {caller[u], "draining"}
          BY <1>8, <4>1 DEF Inv, Types, TypeOK, ReadFrame
        <4> QED
          BY <1>8, <4>2 DEF ReadFrame
      <3> QED
        BY <3>1 DEF Asked
    <2>2. \A e : Accounted(e) => Accounted(e)'
      BY <1>8, StillAccounted DEF ReadFrame
    <2>3. ASSUME NEW u \in Turns
          PROVE  /\ Ordered(Line(u)) => Ordered(Line(u)')
                 /\ \A e : Has(Line(u)', e) => Has(Line(u), e)
      <3>1. \A e : Has(Line(u), e) => Accounted(e)
        BY DEF Lined
      <3> QED
        BY <1>8, <3>1, ReadMoves
    <2> QED
      BY <2>1, <2>2, <2>3, Carried
  <1>9. ASSUME RouteNothing PROVE Lined' /\ Asked'
    <2>1. Asked'
      BY <1>9 DEF Asked, Inv, Types, TypeOK, Framed, Queued, RouteNothing
    <2>2. \A e : Accounted(e) => Accounted(e)'
      BY <1>9, StillAccounted DEF RouteNothing
    <2>3. /\ reader.at = "found" /\ reader'.at # "found"
          /\ got' = got /\ events' = events /\ hand' = hand /\ pipe' = pipe
          /\ inbox' = inbox \/ (reader.turn \in Turns /\ Offer(reader.turn, reader.frame))
      BY <1>9, IdleFacts DEF Inv, Types, Framed, ReaderSound, Readers, RouteNothing
    <2>4. ASSUME NEW u \in Turns
          PROVE  /\ Ordered(Line(u)) => Ordered(Line(u)')
                 /\ \A e : Has(Line(u)', e) => Has(Line(u), e)
      BY <2>3, RouteMoves
    <2> QED
      BY <2>1, <2>2, <2>4, Carried
  <1>10. ASSUME RouteEvent PROVE Lined' /\ Asked'
    <2>1. Asked'
      BY <1>10 DEF Asked, Inv, Types, TypeOK, Framed, Queued, RouteEvent
    <2>2. \A e : Accounted(e) => Accounted(e)'
      BY <1>10, StillAccounted DEF RouteEvent
    <2>3. /\ reader.at = "found" /\ reader'.at # "found"
          /\ got' = got /\ events' = events /\ hand' = hand /\ pipe' = pipe
          /\ inbox' = inbox \/ (reader.turn \in Turns /\ Offer(reader.turn, reader.frame))
      BY <1>10, IdleFacts DEF Inv, Types, Framed, ReaderSound, Readers, RouteEvent
    <2>4. ASSUME NEW u \in Turns
          PROVE  /\ Ordered(Line(u)) => Ordered(Line(u)')
                 /\ \A e : Has(Line(u)', e) => Has(Line(u), e)
      BY <2>3, RouteMoves
    <2> QED
      BY <2>1, <2>2, <2>4, Carried
  <1>11. ASSUME RouteCompleted PROVE Lined' /\ Asked'
    <2>1. Asked'
      BY <1>11 DEF Asked, Inv, Types, TypeOK, Framed, Queued, RouteCompleted
    <2>2. \A e : Accounted(e) => Accounted(e)'
      BY <1>11, StillAccounted DEF RouteCompleted
    <2>3. /\ reader.at = "found" /\ reader'.at # "found"
          /\ got' = got /\ events' = events /\ hand' = hand /\ pipe' = pipe
          /\ inbox' = inbox \/ (reader.turn \in Turns /\ Offer(reader.turn, reader.frame))
      BY <1>11 DEF Inv, Types, Framed, ReaderSound, Readers, RouteCompleted
    <2>4. ASSUME NEW u \in Turns
          PROVE  /\ Ordered(Line(u)) => Ordered(Line(u)')
                 /\ \A e : Has(Line(u)', e) => Has(Line(u), e)
      BY <2>3, RouteMoves
    <2> QED
      BY <2>1, <2>2, <2>4, Carried
  <1>12. ASSUME MarkTurnDone PROVE Lined' /\ Asked'
    <2>1. Asked'
      BY <1>12 DEF Asked, Inv, Types, TypeOK, Framed, Queued, MarkTurnDone
    <2>2. Holding' = Holding
      BY <1>12 DEF Holding, MarkTurnDone
    <2>3. \A u \in Turns : Line(u)' = Line(u)
      BY <1>12, <2>2 DEF Line, MarkTurnDone
    <2>4. \A e : Accounted(e) => Accounted(e)'
      BY <1>12, StillAccounted DEF MarkTurnDone
    <2> QED
      BY <2>1, <2>3, <2>4, Carried
  <1>13. ASSUME Unregister PROVE Lined' /\ Asked'
    <2>1. Asked'
      BY <1>13 DEF Asked, Inv, Types, TypeOK, Framed, Queued, Unregister
    <2>2. Holding' = Holding
      BY <1>13 DEF Holding, Unregister
    <2>3. \A u \in Turns : Line(u)' = Line(u)
      BY <1>13, <2>2 DEF Line, Unregister
    <2>4. \A e : Accounted(e) => Accounted(e)'
      BY <1>13, StillAccounted DEF Unregister
    <2> QED
      BY <2>1, <2>3, <2>4, Carried
  <1>14. ASSUME CloseInbox PROVE Lined' /\ Asked'
    <2>1. Asked'
      BY <1>14 DEF Asked, Inv, Types, TypeOK, Framed, Queued, CloseInbox
    <2>2. Holding' = Holding
      BY <1>14, IdleFacts DEF Holding, CloseInbox
    <2>3. \A u \in Turns : Line(u)' = Line(u)
      BY <1>14, <2>2 DEF Line, CloseInbox
    <2>4. \A e : Accounted(e) => Accounted(e)'
      BY <1>14, StillAccounted DEF CloseInbox
    <2> QED
      BY <2>1, <2>3, <2>4, Carried
  <1>15. ASSUME ReaderEnds PROVE Lined' /\ Asked'
    <2>1. Asked'
      BY <1>15 DEF Asked, Inv, Types, TypeOK, Framed, Queued, ReaderEnds
    <2>2. Holding' = Holding
      BY <1>15, IdleFacts DEF Holding, ReaderEnds
    <2>3. \A u \in Turns : Line(u)' = Line(u)
      BY <1>15, <2>2 DEF Line, ReaderEnds
    <2>4. \A e : Accounted(e) => Accounted(e)'
      BY <1>15, StillAccounted DEF ReaderEnds
    <2> QED
      BY <2>1, <2>3, <2>4, Carried
  <1>16. ASSUME NEW t \in Turns, PumpTakes(t) PROVE Lined' /\ Asked'
    <2>1. Asked'
      BY <1>16 DEF Asked, Inv, Types, TypeOK, Framed, Queued, PumpTakes
    <2>2. \A e : Accounted(e) => Accounted(e)'
      BY <1>16, StillAccounted DEF PumpTakes
    <2>3. ASSUME NEW u \in Turns
          PROVE  /\ Ordered(Line(u)) => Ordered(Line(u)')
                 /\ \A e : Has(Line(u)', e) => Has(Line(u), e) \/ e = Marker
      <3>1. \A e : Has(Line(u), e) => Accounted(e)
        BY DEF Lined
      <3> QED
        BY <1>16, <3>1, TakeMoves
    <2> QED
      BY <2>1, <2>2, <2>3, MarkerAccounted, Carried
  <1>17. ASSUME NEW t \in Turns, PumpForwards(t) PROVE Lined' /\ Asked'
    <2>1. Asked'
      BY <1>17 DEF Asked, Inv, Types, TypeOK, Framed, Queued, PumpForwards
    <2>2. \A e : Accounted(e) => Accounted(e)'
      BY <1>17, StillAccounted DEF PumpForwards
    <2>3. ASSUME NEW u \in Turns
          PROVE  /\ Ordered(Line(u)) => Ordered(Line(u)')
                 /\ \A e : Has(Line(u)', e) => Has(Line(u), e)
      <3>1. \A e : Has(Line(u), e) => Accounted(e)
        BY DEF Lined
      <3> QED
        BY <1>17, <3>1, ForwardMoves
    <2> QED
      BY <2>1, <2>2, <2>3, Carried
  <1>18. ASSUME NEW t \in Turns, PumpEnds(t) PROVE Lined' /\ Asked'
    <2>1. Asked'
      BY <1>18 DEF Asked, Inv, Types, TypeOK, Framed, Queued, PumpEnds
    <2>2. \A e : Accounted(e) => Accounted(e)'
      BY <1>18, StillAccounted DEF PumpEnds
    <2>3. ASSUME NEW u \in Turns
          PROVE  /\ Ordered(Line(u)) => Ordered(Line(u)')
                 /\ \A e : Has(Line(u)', e) => Has(Line(u), e) \/ e = Marker
      <3>1. \A e : Has(Line(u), e) => Accounted(e)
        BY DEF Lined
      <3> QED
        BY <1>18, <3>1, EndMoves
    <2> QED
      BY <2>1, <2>2, <2>3, MarkerAccounted, Carried
  <1>19. ASSUME NEW t \in Turns, PumpCloses(t) PROVE Lined' /\ Asked'
    <2>1. Asked'
      BY <1>19 DEF Asked, Inv, Types, TypeOK, Framed, Queued, PumpCloses
    <2>2. Holding' = Holding
      BY <1>19 DEF Holding, PumpCloses
    <2>3. \A u \in Turns : Line(u)' = Line(u)
      BY <1>19, <2>2 DEF Line, PumpCloses
    <2>4. \A e : Accounted(e) => Accounted(e)'
      BY <1>19, StillAccounted DEF PumpCloses
    <2> QED
      BY <2>1, <2>3, <2>4, Carried
  <1>20. ASSUME NEW t \in Turns, PumpCanceled(t) PROVE Lined' /\ Asked'
    <2>1. Asked'
      BY <1>20 DEF Asked, Inv, Types, TypeOK, Framed, Queued, PumpCanceled
    <2>2. Holding' = Holding
      BY <1>20 DEF Holding, PumpCanceled
    <2>3. \A u \in Turns : Line(u)' = Line(u)
      BY <1>20, <2>2 DEF Line, PumpCanceled
    <2>4. \A e : Accounted(e) => Accounted(e)'
      BY <1>20, StillAccounted DEF PumpCanceled
    <2> QED
      BY <2>1, <2>3, <2>4, Carried
  <1>21. ASSUME NEW t \in Turns, Receive(t) PROVE Lined' /\ Asked'
    <2>1. Asked'
      BY <1>21 DEF Asked, Inv, Types, TypeOK, Framed, Queued, Receive
    <2>2. \A e : Accounted(e) => Accounted(e)'
      BY <1>21, StillAccounted DEF Receive
    <2>3. ASSUME NEW u \in Turns
          PROVE  /\ Ordered(Line(u)) => Ordered(Line(u)')
                 /\ \A e : Has(Line(u)', e) => Has(Line(u), e)
      <3>1. \A e : Has(Line(u), e) => Accounted(e)
        BY DEF Lined
      <3> QED
        BY <1>21, <3>1, ReceiveMoves
    <2> QED
      BY <2>1, <2>2, <2>3, Carried
  <1>22. ASSUME NEW t \in Turns, DrainEnds(t) PROVE Lined' /\ Asked'
    <2>1. Asked'
      BY <1>22 DEF Asked, Inv, Types, TypeOK, Framed, Queued, DrainEnds
    <2>2. Holding' = Holding
      BY <1>22 DEF Holding, DrainEnds
    <2>3. \A u \in Turns : Line(u)' = Line(u)
      BY <1>22, <2>2 DEF Line, DrainEnds
    <2>4. \A e : Accounted(e) => Accounted(e)'
      BY <1>22, StillAccounted DEF DrainEnds
    <2> QED
      BY <2>1, <2>3, <2>4, Carried
  <1>23. ASSUME NEW t \in Turns, Leave(t) PROVE Lined' /\ Asked'
    <2>1. Asked'
      BY <1>23 DEF Asked, Inv, Types, TypeOK, Framed, Queued, Leave
    <2>2. Holding' = Holding
      BY <1>23 DEF Holding, Leave
    <2>3. \A u \in Turns : Line(u)' = Line(u)
      BY <1>23, <2>2 DEF Line, Leave
    <2>4. \A e : Accounted(e) => Accounted(e)'
      BY <1>23, StillAccounted DEF Leave
    <2> QED
      BY <2>1, <2>3, <2>4, Carried
  <1>24. ASSUME NEW t \in Turns, CancelFromOutside(t) PROVE Lined' /\ Asked'
    <2>1. Asked'
      BY <1>24 DEF Asked, Inv, Types, TypeOK, Framed, Queued, CancelFromOutside
    <2>2. Holding' = Holding
      BY <1>24 DEF Holding, CancelFromOutside
    <2>3. \A u \in Turns : Line(u)' = Line(u)
      BY <1>24, <2>2 DEF Line, CancelFromOutside
    <2>4. \A e : Accounted(e) => Accounted(e)'
      BY <1>24, StillAccounted DEF CancelFromOutside
    <2> QED
      BY <2>1, <2>3, <2>4, Carried
  <1>25. ASSUME NEW t \in Turns, CancelClaims(t) PROVE Lined' /\ Asked'
    <2>1. Asked'
      BY <1>25 DEF Asked, Inv, Types, TypeOK, Framed, Queued, CancelClaims
    <2>2. Holding' = Holding
      BY <1>25 DEF Holding, CancelClaims
    <2>3. \A u \in Turns : Line(u)' = Line(u)
      BY <1>25, <2>2 DEF Line, CancelClaims
    <2>4. \A e : Accounted(e) => Accounted(e)'
      BY <1>25, StillAccounted DEF CancelClaims
    <2> QED
      BY <2>1, <2>3, <2>4, Carried
  <1>26. ASSUME NEW t \in Turns, CancelUnroutes(t) PROVE Lined' /\ Asked'
    <2>1. Asked'
      BY <1>26 DEF Asked, Inv, Types, TypeOK, Framed, Queued, CancelUnroutes
    <2>2. Holding' = Holding
      BY <1>26 DEF Holding, CancelUnroutes
    <2>3. \A u \in Turns : Line(u)' = Line(u)
      BY <1>26, <2>2 DEF Line, CancelUnroutes
    <2>4. \A e : Accounted(e) => Accounted(e)'
      BY <1>26, StillAccounted DEF CancelUnroutes
    <2> QED
      BY <2>1, <2>3, <2>4, Carried
  <1>27. ASSUME NEW t \in Turns, CancelSignals(t) PROVE Lined' /\ Asked'
    <2>1. Asked'
      BY <1>27 DEF Asked, Inv, Types, TypeOK, Framed, Queued, CancelSignals
    <2>2. Holding' = Holding
      BY <1>27 DEF Holding, CancelSignals
    <2>3. \A u \in Turns : Line(u)' = Line(u)
      BY <1>27, <2>2 DEF Line, CancelSignals
    <2>4. \A e : Accounted(e) => Accounted(e)'
      BY <1>27, StillAccounted DEF CancelSignals
    <2> QED
      BY <2>1, <2>3, <2>4, Carried
  <1>28. ASSUME UNCHANGED vars PROVE Lined' /\ Asked'
    <2>1. Asked'
      BY <1>28 DEF Asked, Inv, Types, TypeOK, Framed, Queued, vars
    <2>2. Holding' = Holding
      BY <1>28 DEF Holding, vars
    <2>3. \A u \in Turns : Line(u)' = Line(u)
      BY <1>28, <2>2 DEF Line, vars
    <2>4. \A e : Accounted(e) => Accounted(e)'
      BY <1>28, StillAccounted DEF vars
    <2> QED
      BY <2>1, <2>3, <2>4, Carried
  <1> QED
    BY <1>1, <1>2, <1>3, <1>4, <1>5, <1>6, <1>7, <1>8, <1>9, <1>10, <1>11, <1>12, <1>13,
       <1>14, <1>15, <1>16, <1>17, <1>18, <1>19, <1>20, <1>21, <1>22, <1>23, <1>24,
       <1>25, <1>26, <1>27, <1>28
    DEF Next, Reader, Pump, Canceller, Consumer

(* What Own and Marks say of the queue after a step. *)
LEMMA OwnSeq ==
  ASSUME NEW s \in Seq(Frame), NEW t, Own(s, t)
  PROVE  /\ \A e \in Frame : e = Marker \/ e.turn = t => Own(Append(s, e), t)
         /\ s # <<>> => Own(Tail(s), t) /\ (Head(s) = Marker \/ Head(s).turn = t)
  <1>1. ASSUME NEW e \in Frame, e = Marker \/ e.turn = t PROVE Own(Append(s, e), t)
    BY <1>1, AppendEntries DEF Own
  <1>2. ASSUME s # <<>> PROVE Own(Tail(s), t) /\ (Head(s) = Marker \/ Head(s).turn = t)
    <2>1. /\ Len(Tail(s)) = Len(s) - 1 /\ Len(s) >= 1 /\ Head(s) = s[1] /\ Len(s) \in Nat
          /\ \A k \in 1 .. Len(Tail(s)) : Tail(s)[k] = s[k + 1]
      BY <1>2, TailEntries
    <2>2. \A k \in 1 .. Len(Tail(s)) : k + 1 \in 1 .. Len(s)
      BY <2>1
    <2> QED
      BY <2>1, <2>2 DEF Own
  <1> QED
    BY <1>1, <1>2

LEMMA MarkSeq ==
  ASSUME NEW s \in Seq(Frame)
  PROVE  /\ \A e \in Frame : Marks(s) \/ e = Marker => Marks(Append(s, e))
         /\ s # <<>> /\ Marks(s) => Marks(Tail(s)) \/ Head(s) = Marker
         /\ ~Marks(<<>>)
  <1>1. ASSUME NEW e \in Frame, Marks(s) \/ e = Marker PROVE Marks(Append(s, e))
    <2>1. /\ Len(Append(s, e)) = Len(s) + 1 /\ Len(s) \in Nat
          /\ \A k \in 1 .. Len(s) : Append(s, e)[k] = s[k]
          /\ Append(s, e)[Len(s) + 1] = e
      BY AppendEntries
    <2>2. CASE e = Marker
      <3>1. Len(s) + 1 \in 1 .. Len(Append(s, e))
        BY <2>1
      <3> QED
        BY <2>1, <2>2, <3>1 DEF Marks
    <2>3. CASE Marks(s)
      <3>1. PICK k \in 1 .. Len(s) : s[k] = Marker
        BY <2>3 DEF Marks
      <3>2. k \in 1 .. Len(Append(s, e)) /\ Append(s, e)[k] = Marker
        BY <2>1, <3>1
      <3> QED
        BY <3>2 DEF Marks
    <2> QED
      BY <1>1, <2>2, <2>3
  <1>2. ASSUME s # <<>>, Marks(s) PROVE Marks(Tail(s)) \/ Head(s) = Marker
    <2>1. /\ Len(Tail(s)) = Len(s) - 1 /\ Len(s) >= 1 /\ Head(s) = s[1] /\ Len(s) \in Nat
          /\ \A k \in 1 .. Len(Tail(s)) : Tail(s)[k] = s[k + 1]
      BY <1>2, TailEntries
    <2>2. PICK k \in 1 .. Len(s) : s[k] = Marker
      BY <1>2 DEF Marks
    <2>3. CASE k = 1
      BY <2>1, <2>2, <2>3
    <2>4. CASE k # 1
      <3>1. k - 1 \in 1 .. Len(Tail(s)) /\ k - 1 + 1 = k
        BY <2>1, <2>4
      <3>2. Tail(s)[k - 1] = Marker
        BY <2>1, <2>2, <3>1
      <3> QED
        BY <3>1, <3>2 DEF Marks
    <2> QED
      BY <2>3, <2>4
  <1>3. ~Marks(<<>>)
    BY DEF Marks
  <1> QED
    BY <1>1, <1>2, <1>3

(* On threads of their own, each turn is given its own. *)
LEMMA OwnedStep ==
  ASSUME Alone, Inv, Inv', Owned, [Next]_vars
  PROVE  Owned'
  <1> USE DEF turnVars, pumpVars, childVars
  <1>1. ASSUME NEW t \in Turns, StartTurn(t) PROVE Owned'
    BY <1>1 DEF Owned, Inv, Types, TypeOK, Framed, Queued, ReaderSound, Readers, StartTurn
  <1>2. ASSUME NEW t \in Turns, StartFails(t) PROVE Owned'
    BY <1>2 DEF Owned, Inv, Types, TypeOK, Framed, Queued, ReaderSound, Readers, StartFails
  <1>3. ASSUME NEW t \in Turns, StartGivesUp(t) PROVE Owned'
    BY <1>3 DEF Owned, Inv, Types, TypeOK, Framed, Queued, ReaderSound, Readers,
       StartGivesUp
  <1>4. ASSUME NEW t \in Turns, ChildAnswers(t) PROVE Owned'
    BY <1>4 DEF Owned, Inv, Types, TypeOK, Framed, Queued, ReaderSound, Readers,
       ChildAnswers
  <1>5. ASSUME NEW t \in Turns, ChildNotifies(t) PROVE Owned'
    BY <1>5 DEF Owned, Inv, Types, TypeOK, Framed, Queued, ReaderSound, Readers,
       ChildNotifies
  <1>6. ASSUME NEW t \in Turns, ChildCompletes(t) PROVE Owned'
    BY <1>6 DEF Owned, Inv, Types, TypeOK, Framed, Queued, ReaderSound, Readers,
       ChildCompletes
  <1>7. ASSUME ChildDies PROVE Owned'
    BY <1>7 DEF Owned, Inv, Types, TypeOK, Framed, Queued, ReaderSound, Readers, ChildDies
  <1>8. ASSUME ReadFrame PROVE Owned'
    <2>1. Head(pipe).turn \in Turns /\ route[ThreadOf[Head(pipe).turn]] \in Turns \cup {NoTurn}
      BY <1>8, TailEntries, Threading DEF Inv, Types, TypeOK, Framed, Queued, PipeSound,
         FromChild, ReadFrame
    <2>2. LookUp(Head(pipe)) \in {NoTurn, Head(pipe).turn}
      BY <2>1, Threading DEF Inv, Routed, Alone, LookUp
    <2>3. reader'.at = "found" => reader'.turn \in {NoTurn, reader'.frame.turn}
      BY <1>8, <2>2 DEF ReadFrame
    <2> QED
      BY <1>8, <2>3 DEF Owned, ReadFrame
  <1>9. ASSUME RouteNothing PROVE Owned'
    BY <1>9, IdleFacts DEF Owned, RouteNothing
  <1>10. ASSUME RouteEvent PROVE Owned'
    <2>1. reader'.at # "found"
      BY <1>10, IdleFacts DEF RouteEvent
    <2>2. /\ reader.turn \in Turns /\ reader.frame \in Frame /\ reader.frame.turn = reader.turn
      BY <1>10 DEF Inv, Types, Framed, ReaderSound, Readers, Owned, RouteEvent
    <2>3. \A u \in Turns : Own(inbox'[u], u)
      BY <1>10, <2>2, OwnSeq DEF Inv, Types, Framed, Queued, Offer, Owned, RouteEvent
    <2> QED
      BY <1>10, <2>1, <2>3 DEF Owned, RouteEvent
  <1>11. ASSUME RouteCompleted PROVE Owned'
    <2>1. reader'.at # "found"
      BY <1>11 DEF Inv, Types, Framed, ReaderSound, Readers, RouteCompleted
    <2>2. /\ reader.turn \in Turns /\ reader.frame \in Frame /\ reader.frame.turn = reader.turn
      BY <1>11 DEF Inv, Types, Framed, ReaderSound, Readers, Owned, RouteCompleted
    <2>3. \A u \in Turns : Own(inbox'[u], u)
      BY <1>11, <2>2, OwnSeq DEF Inv, Types, Framed, Queued, Offer, Owned, RouteCompleted
    <2>4. \A u \in Turns : {final'[u], result'[u]} \subseteq {NoTurn, "died", u}
      BY <1>11, <2>2 DEF Inv, Types, TypeOK, Owned, RouteCompleted
    <2> QED
      BY <1>11, <2>1, <2>3, <2>4 DEF Owned, RouteCompleted
  <1>12. ASSUME MarkTurnDone PROVE Owned'
    BY <1>12 DEF Owned, Inv, Types, TypeOK, Framed, Queued, ReaderSound, Readers,
       MarkTurnDone
  <1>13. ASSUME Unregister PROVE Owned'
    BY <1>13 DEF Owned, Inv, Types, TypeOK, Framed, Queued, ReaderSound, Readers, Unregister
  <1>14. ASSUME CloseInbox PROVE Owned'
    BY <1>14, IdleFacts DEF Owned, CloseInbox
  <1>15. ASSUME ReaderEnds PROVE Owned'
    <2>1. reader'.at # "found"
      BY <1>15, IdleFacts DEF ReaderEnds
    <2> QED
      BY <1>15, <2>1 DEF Owned, Inv, Types, TypeOK, ReaderEnds
  <1>16. ASSUME NEW t \in Turns, PumpTakes(t) PROVE Owned'
    <2>1. /\ inbox[t] \in Seq(Frame) /\ inbox[t] # <<>> /\ Head(inbox[t]) \in Frame
      BY <1>16, TailEntries DEF Inv, Types, Framed, Queued, PumpTakes
    <2>2. Own(Tail(inbox[t]), t) /\ (Head(inbox[t]) = Marker \/ Head(inbox[t]).turn = t)
      BY <2>1, OwnSeq DEF Owned
    <2>3. Loss(t) \in Seq(Frame) /\ Own(Loss(t), t)
      BY FrameFacts DEF Loss, Own
    <2>4. Own(Append(Loss(t), Head(inbox[t])), t)
      BY <2>1, <2>2, <2>3, OwnSeq
    <2>5. \A u \in Turns : Own(inbox'[u], u) /\ Own(hand'[u], u)
      BY <1>16, <2>2, <2>4 DEF Inv, Types, Framed, Queued, Owned, PumpTakes
    <2> QED
      BY <1>16, <2>5 DEF Owned, PumpTakes
  <1>17. ASSUME NEW t \in Turns, PumpForwards(t) PROVE Owned'
    <2>1. /\ hand[t] \in Seq(Frame) /\ hand[t] # <<>> /\ Head(hand[t]) \in Frame /\ events[t] \in Seq(Frame)
      BY <1>17, TailEntries DEF Inv, Types, Framed, Queued, PumpForwards
    <2>2. Own(Tail(hand[t]), t) /\ (Head(hand[t]) = Marker \/ Head(hand[t]).turn = t)
      BY <2>1, OwnSeq DEF Owned
    <2>3. Own(Append(events[t], Head(hand[t])), t)
      BY <2>1, <2>2, OwnSeq DEF Owned
    <2>4. \A u \in Turns : Own(hand'[u], u) /\ Own(events'[u], u)
      BY <1>17, <2>2, <2>3 DEF Inv, Types, Framed, Queued, Owned, PumpForwards
    <2> QED
      BY <1>17, <2>4 DEF Owned, PumpForwards
  <1>18. ASSUME NEW t \in Turns, PumpEnds(t) PROVE Owned'
    <2>1. Own(Loss(t), t)
      BY DEF Loss, Own
    <2>2. \A u \in Turns : Own(hand'[u], u)
      BY <1>18, <2>1 DEF Inv, Types, Framed, Queued, Owned, PumpEnds
    <2> QED
      BY <1>18, <2>2 DEF Owned, PumpEnds
  <1>19. ASSUME NEW t \in Turns, PumpCloses(t) PROVE Owned'
    BY <1>19 DEF Owned, Inv, Types, TypeOK, Framed, Queued, ReaderSound, Readers, PumpCloses
  <1>20. ASSUME NEW t \in Turns, PumpCanceled(t) PROVE Owned'
    BY <1>20 DEF Owned, Inv, Types, TypeOK, Framed, Queued, ReaderSound, Readers,
       PumpCanceled
  <1>21. ASSUME NEW t \in Turns, Receive(t) PROVE Owned'
    <2>1. /\ events[t] \in Seq(Frame) /\ events[t] # <<>> /\ Head(events[t]) \in Frame /\ got[t] \in Seq(Frame)
      BY <1>21, TailEntries DEF Inv, Types, Framed, Queued, Receive
    <2>2. Own(Tail(events[t]), t) /\ (Head(events[t]) = Marker \/ Head(events[t]).turn = t)
      BY <2>1, OwnSeq DEF Owned
    <2>3. Own(Append(got[t], Head(events[t])), t)
      BY <2>1, <2>2, OwnSeq DEF Owned
    <2>4. \A u \in Turns : Own(events'[u], u) /\ Own(got'[u], u)
      BY <1>21, <2>2, <2>3 DEF Inv, Types, Framed, Queued, Owned, Receive
    <2> QED
      BY <1>21, <2>4 DEF Owned, Receive
  <1>22. ASSUME NEW t \in Turns, DrainEnds(t) PROVE Owned'
    BY <1>22 DEF Owned, Inv, Types, TypeOK, Framed, Queued, ReaderSound, Readers, DrainEnds
  <1>23. ASSUME NEW t \in Turns, Leave(t) PROVE Owned'
    BY <1>23 DEF Owned, Inv, Types, TypeOK, Framed, Queued, ReaderSound, Readers, Leave
  <1>24. ASSUME NEW t \in Turns, CancelFromOutside(t) PROVE Owned'
    BY <1>24 DEF Owned, Inv, Types, TypeOK, Framed, Queued, ReaderSound, Readers,
       CancelFromOutside
  <1>25. ASSUME NEW t \in Turns, CancelClaims(t) PROVE Owned'
    BY <1>25 DEF Owned, Inv, Types, TypeOK, Framed, Queued, ReaderSound, Readers,
       CancelClaims
  <1>26. ASSUME NEW t \in Turns, CancelUnroutes(t) PROVE Owned'
    BY <1>26 DEF Owned, Inv, Types, TypeOK, Framed, Queued, ReaderSound, Readers,
       CancelUnroutes
  <1>27. ASSUME NEW t \in Turns, CancelSignals(t) PROVE Owned'
    BY <1>27 DEF Owned, Inv, Types, TypeOK, Framed, Queued, ReaderSound, Readers,
       CancelSignals
  <1>28. ASSUME UNCHANGED vars PROVE Owned'
    BY <1>28 DEF Owned, Inv, Types, TypeOK, Framed, Queued, ReaderSound, Readers, vars
  <1> QED
    BY <1>1, <1>2, <1>3, <1>4, <1>5, <1>6, <1>7, <1>8, <1>9, <1>10, <1>11, <1>12, <1>13,
       <1>14, <1>15, <1>16, <1>17, <1>18, <1>19, <1>20, <1>21, <1>22, <1>23, <1>24,
       <1>25, <1>26, <1>27, <1>28
    DEF Next, Reader, Pump, Canceller, Consumer

(* Empty lines are in order. *)
LEMMA StartsInOrder == Init => Lined /\ Asked /\ Owned
  <1> SUFFICES ASSUME Init PROVE Lined /\ Asked /\ Owned
    OBVIOUS
  <1>1. \A u \in Turns : Line(u) = <<(<<>>), (<<>>), (<<>>), (<<>>), (<<>>), (<<>>)>>
    BY IdleFacts DEF Init, Line, Holding
  <1>2. \A u \in Turns : \A i \in Stages : Len(Line(u)[i]) = 0
    BY <1>1 DEF Stages
  <1>3. Lined
    BY <1>2 DEF Lined, Ordered, OrderedTo, Has, HasTo, Size
  <1>4. Asked /\ Owned
    BY IdleFacts DEF Init, Asked, Owned, Own
  <1> QED
    BY <1>3, <1>4

(* Each consumer is given its own turn's frames, in order, and its own     *)
(* end, whatever is lost, cancelled or abandoned, as long as no two turns  *)
(* share a thread (appserver.go:356-407, 590-660).                         *)
THEOREM DeliveryIsOwn == ASSUME Alone PROVE Spec => []OwnDelivery
  <1>1. Init => Inv /\ Lined /\ Asked /\ Owned
    BY Initially, StartsInOrder
  <1>2. Inv /\ Lined /\ Asked /\ Owned /\ [Next]_vars => (Inv /\ Lined /\ Asked /\ Owned)'
    BY Inductive, LinesEvolve, OwnedStep
  <1>3. Inv /\ Lined /\ Asked /\ Owned => OwnDelivery
    <2> SUFFICES ASSUME Inv, Lined, Owned PROVE OwnDelivery
      OBVIOUS
    <2>1. TypeOK /\ OwnResult
      BY DEF Inv, Types, Owned, OwnResult
    <2>2. ASSUME NEW t \in Turns PROVE InOrder(t)
      <3>1. \A i \in 1 .. Len(got[t]) : got[t][i] = Marker \/ got[t][i].turn = t
        BY DEF Owned, Own
      <3>2. Marker.turn = NoTurn /\ Marker.kind = "lost"
        BY DEF Marker
      <3>3. \A i, j \in 1 .. Len(got[t]) : i < j => Precedes(got[t][i], got[t][j])
        <4>1. Line(t)[1] = got[t] /\ 1 \in Stages
          BY LineTyped DEF Stages
        <4>2. Size(Line(t))[1] = Len(got[t])
          BY <4>1 DEF Size
        <4>3. OrderedTo(Line(t), Size(Line(t)))
          BY DEF Lined, Ordered
        <4> QED
          BY <4>1, <4>2, <4>3 DEF OrderedTo
      <3> QED
        BY <3>1, <3>2, <3>3 DEF InOrder, Precedes
    <2> QED
      BY <2>1, <2>2 DEF OwnDelivery, OwnFramesInOrder
  <1> QED
    BY <1>1, <1>2, <1>3, PTL DEF Spec

(* What NoEvents says of the queue after a step. *)
LEMMA NoEventsSeq ==
  ASSUME NEW s \in Seq(Frame), NEW t, NoEvents(s, t)
  PROVE  /\ \A e \in Frame : ~(e.kind = "event" /\ e.turn = t) => NoEvents(Append(s, e), t)
         /\ s # <<>> => NoEvents(Tail(s), t) /\ NoEvents(<<Head(s)>>, t)
  <1>1. ASSUME NEW e \in Frame, ~(e.kind = "event" /\ e.turn = t) PROVE NoEvents(Append(s, e), t)
    BY <1>1, AppendEntries DEF NoEvents
  <1>2. ASSUME s # <<>> PROVE NoEvents(Tail(s), t) /\ NoEvents(<<Head(s)>>, t)
    <2>1. /\ Len(Tail(s)) = Len(s) - 1 /\ Len(s) >= 1 /\ Head(s) = s[1] /\ Len(s) \in Nat
          /\ \A k \in 1 .. Len(Tail(s)) : Tail(s)[k] = s[k + 1]
      BY <1>2, TailEntries
    <2>2. 1 \in 1 .. Len(s) /\ \A k \in 1 .. Len(Tail(s)) : k + 1 \in 1 .. Len(s)
      BY <2>1
    <2> QED
      BY <2>1, <2>2 DEF NoEvents
  <1> QED
    BY <1>1, <1>2

(* A pump that ended has nothing to do again. *)
LEMMA EmptiedStep ==
  ASSUME Inv, Inv', Emptied, [Next]_vars
  PROVE  Emptied'
  <1> USE DEF turnVars, pumpVars, childVars, Write
  <1>1. ASSUME NEW t \in Turns, StartTurn(t) PROVE Emptied'
    BY <1>1 DEF Emptied, Inv, Types, TypeOK, Framed, Queued, ReaderSound, Readers, StartTurn
  <1>2. ASSUME NEW t \in Turns, StartFails(t) PROVE Emptied'
    BY <1>2 DEF Emptied, Inv, Types, TypeOK, Framed, Queued, ReaderSound, Readers,
       StartFails
  <1>3. ASSUME NEW t \in Turns, StartGivesUp(t) PROVE Emptied'
    BY <1>3 DEF Emptied, Inv, Types, TypeOK, Framed, Queued, ReaderSound, Readers,
       StartGivesUp
  <1>4. ASSUME NEW t \in Turns, ChildAnswers(t) PROVE Emptied'
    BY <1>4 DEF Emptied, Inv, Types, TypeOK, Framed, Queued, ReaderSound, Readers,
       ChildAnswers
  <1>5. ASSUME NEW t \in Turns, ChildNotifies(t) PROVE Emptied'
    BY <1>5 DEF Emptied, Inv, Types, TypeOK, Framed, Queued, ReaderSound, Readers,
       ChildNotifies
  <1>6. ASSUME NEW t \in Turns, ChildCompletes(t) PROVE Emptied'
    BY <1>6 DEF Emptied, Inv, Types, TypeOK, Framed, Queued, ReaderSound, Readers,
       ChildCompletes
  <1>7. ASSUME ChildDies PROVE Emptied'
    BY <1>7 DEF Emptied, Inv, Types, TypeOK, Framed, Queued, ReaderSound, Readers, ChildDies
  <1>8. ASSUME ReadFrame PROVE Emptied'
    <2>1. Head(pipe).turn \in Turns
      BY <1>8, TailEntries DEF Inv, Types, Framed, Queued, PipeSound, FromChild, ReadFrame
    <2>2. \A u \in Turns : caller'[u] = "ended" => caller[u] = "ended"
      BY <1>8, <2>1 DEF Inv, Types, TypeOK, ReadFrame
    <2> QED
      BY <1>8, <2>2 DEF Emptied, ReadFrame
  <1>9. ASSUME RouteNothing PROVE Emptied'
    BY <1>9 DEF Emptied, Inv, Types, TypeOK, Framed, Queued, ReaderSound, Readers,
       RouteNothing
  <1>10. ASSUME RouteEvent PROVE Emptied'
    <2>1. reader.turn \in Turns /\ ~done[reader.turn]
      BY <1>10 DEF Inv, Types, Framed, ReaderSound, Readers, RouteEvent
    <2>2. pump[reader.turn] \notin {"ending", "closed"} \/ canceled[reader.turn]
      BY <2>1 DEF Inv, Endings, Ending, PumpSound
    <2>3. \A u \in Turns \ {reader.turn} : inbox'[u] = inbox[u] /\ lost'[u] = lost[u]
      BY <1>10 DEF Inv, Types, TypeOK, Framed, Queued, Offer, RouteEvent
    <2> QED
      BY <1>10, <2>2, <2>3 DEF Emptied, RouteEvent
  <1>11. ASSUME RouteCompleted PROVE Emptied'
    <2>1. reader.turn \in Turns /\ ~done[reader.turn]
      BY <1>11 DEF Inv, Types, Framed, ReaderSound, Readers, RouteCompleted
    <2>2. pump[reader.turn] \notin {"ending", "closed"} \/ canceled[reader.turn]
      BY <2>1 DEF Inv, Endings, Ending, PumpSound
    <2>3. \A u \in Turns \ {reader.turn} : inbox'[u] = inbox[u] /\ lost'[u] = lost[u]
      BY <1>11 DEF Inv, Types, TypeOK, Framed, Queued, Offer, RouteCompleted
    <2> QED
      BY <1>11, <2>2, <2>3 DEF Emptied, RouteCompleted
  <1>12. ASSUME MarkTurnDone PROVE Emptied'
    BY <1>12 DEF Emptied, Inv, Types, TypeOK, Framed, Queued, ReaderSound, Readers,
       MarkTurnDone
  <1>13. ASSUME Unregister PROVE Emptied'
    BY <1>13 DEF Emptied, Inv, Types, TypeOK, Framed, Queued, ReaderSound, Readers,
       Unregister
  <1>14. ASSUME CloseInbox PROVE Emptied'
    BY <1>14 DEF Emptied, Inv, Types, TypeOK, Framed, Queued, ReaderSound, Readers,
       CloseInbox
  <1>15. ASSUME ReaderEnds PROVE Emptied'
    BY <1>15 DEF Emptied, Inv, Types, TypeOK, Framed, Queued, ReaderSound, Readers,
       ReaderEnds
  <1>16. ASSUME NEW t \in Turns, PumpTakes(t) PROVE Emptied'
    <2>1. \A u \in Turns \ {t} : inbox'[u] = inbox[u] /\ lost'[u] = lost[u]
      BY <1>16 DEF Inv, Types, TypeOK, Framed, Queued, Told, PumpTakes
    <2> QED
      BY <1>16, <2>1 DEF Emptied, PumpTakes
  <1>17. ASSUME NEW t \in Turns, PumpForwards(t) PROVE Emptied'
    <2>1. caller[t] # "ended"
      BY <1>17 DEF Inv, Endings, PumpSound, PumpForwards
    <2> QED
      BY <1>17, <2>1 DEF Emptied, Inv, Types, TypeOK, Framed, Queued, PumpForwards
  <1>18. ASSUME NEW t \in Turns, PumpEnds(t) PROVE Emptied'
    <2>1. \A u \in Turns \ {t} : pump'[u] = pump[u] /\ lost'[u] = lost[u]
      BY <1>18 DEF Inv, Types, TypeOK, Framed, Queued, Told, PumpEnds
    <2>2. inbox'[t] = <<>> /\ lost'[t] # "yes"
      BY <1>18 DEF Inv, Types, TypeOK, Framed, Queued, Told, PumpEnds
    <2> QED
      BY <1>18, <2>1, <2>2 DEF Emptied, PumpEnds
  <1>19. ASSUME NEW t \in Turns, PumpCloses(t) PROVE Emptied'
    BY <1>19 DEF Emptied, Inv, Types, TypeOK, Framed, Queued, ReaderSound, Readers,
       PumpCloses
  <1>20. ASSUME NEW t \in Turns, PumpCanceled(t) PROVE Emptied'
    BY <1>20 DEF Emptied, Inv, Types, TypeOK, Framed, Queued, ReaderSound, Readers,
       PumpCanceled
  <1>21. ASSUME NEW t \in Turns, Receive(t) PROVE Emptied'
    <2>1. caller[t] # "ended"
      BY <1>21 DEF Receive
    <2> QED
      BY <1>21, <2>1 DEF Emptied, Inv, Types, TypeOK, Framed, Queued, Receive
  <1>22. ASSUME NEW t \in Turns, DrainEnds(t) PROVE Emptied'
    BY <1>22 DEF Emptied, Inv, Types, TypeOK, Framed, Queued, ReaderSound, Readers,
       DrainEnds
  <1>23. ASSUME NEW t \in Turns, Leave(t) PROVE Emptied'
    BY <1>23 DEF Emptied, Inv, Types, TypeOK, Framed, Queued, ReaderSound, Readers, Leave
  <1>24. ASSUME NEW t \in Turns, CancelFromOutside(t) PROVE Emptied'
    BY <1>24 DEF Emptied, Inv, Types, TypeOK, Framed, Queued, ReaderSound, Readers,
       CancelFromOutside
  <1>25. ASSUME NEW t \in Turns, CancelClaims(t) PROVE Emptied'
    BY <1>25 DEF Emptied, Inv, Types, TypeOK, Framed, Queued, ReaderSound, Readers,
       CancelClaims
  <1>26. ASSUME NEW t \in Turns, CancelUnroutes(t) PROVE Emptied'
    BY <1>26 DEF Emptied, Inv, Types, TypeOK, Framed, Queued, ReaderSound, Readers,
       CancelUnroutes
  <1>27. ASSUME NEW t \in Turns, CancelSignals(t) PROVE Emptied'
    BY <1>27 DEF Emptied, Inv, Types, TypeOK, Framed, Queued, ReaderSound, Readers,
       CancelSignals
  <1>28. ASSUME UNCHANGED vars PROVE Emptied'
    BY <1>28 DEF Emptied, Inv, Types, TypeOK, Framed, Queued, ReaderSound, Readers, vars
  <1> QED
    BY <1>1, <1>2, <1>3, <1>4, <1>5, <1>6, <1>7, <1>8, <1>9, <1>10, <1>11, <1>12, <1>13,
       <1>14, <1>15, <1>16, <1>17, <1>18, <1>19, <1>20, <1>21, <1>22, <1>23, <1>24,
       <1>25, <1>26, <1>27, <1>28
    DEF Next, Reader, Pump, Canceller, Consumer

(* The frames of a turn that is neither done nor given up reach it. *)
LEMMA ReachedStep ==
  ASSUME Alone, Inv, Inv', Lined, Asked, Reached, [Next]_vars
  PROVE  Reached'
  <1> USE DEF turnVars, pumpVars, childVars, Write
  <1>1. ASSUME NEW t \in Turns, StartTurn(t) PROVE Reached'
    <2>1. ASSUME NEW u \in Turns, Uncut(u)', ~done'[u] PROVE route'[ThreadOf[u]] = u
      BY <1>1, <2>1, Threading DEF Alone, Reached, Uncut, Inv, Types, TypeOK, StartTurn
    <2>2. ASSUME reader.at = "found" PROVE reader.frame.turn # t
      <3>1. /\ reader.frame \in Frame /\ FromChild(reader.frame) /\ reader.frame.kind # "reply"
            /\ Holding = <<reader.frame>>
        BY <2>2 DEF Inv, Types, Framed, ReaderSound, Readers, Holding
      <3>2. /\ Line(t) \in Lines /\ Line(t)[5] = <<reader.frame>>
        BY <3>1, LineTyped
      <3>3. Has(Line(t), reader.frame)
        <4>1. 5 \in Stages /\ 1 \in 1 .. Len(Line(t)[5]) /\ Line(t)[5][1] = reader.frame
          BY <3>1, <3>2 DEF Stages
        <4> QED
          BY <3>2, <4>1, EntryIsHad
      <3>4. Accounted(reader.frame)
        BY <3>3 DEF Lined
      <3>5. child[t] = "none" /\ sent[t] = 0
        BY <1>1 DEF Asked, StartTurn
      <3> QED
        BY <3>1, <3>4, <3>5 DEF Accounted, FromChild
    <2>3. reader' = reader /\ done' = done /\ \A u \in Turns \ {t} : Uncut(u)' => Uncut(u)
      BY <1>1 DEF Uncut, Inv, Types, TypeOK, StartTurn
    <2>4. reader.at = "found" => reader.frame.turn \in Turns
      BY DEF Inv, Types, Framed, ReaderSound, FromChild
    <2> QED
      BY <2>1, <2>2, <2>3, <2>4 DEF Reached
  <1>2. ASSUME NEW t \in Turns, StartFails(t) PROVE Reached'
    <2>1. \A u \in Turns \ {t} : route'[ThreadOf[u]] = route[ThreadOf[u]]
      BY <1>2, Threading DEF Alone, Inv, Types, TypeOK, Unroute, StartFails
    <2>2. reader' = reader /\ done' = done /\ ~Uncut(t)' /\ \A u \in Turns : Uncut(u)' => Uncut(u)
      BY <1>2 DEF Uncut, Inv, Types, TypeOK, StartFails
    <2>3. reader.at = "found" => reader.frame.turn \in Turns
      BY DEF Inv, Types, Framed, ReaderSound, FromChild
    <2> QED
      BY <2>1, <2>2, <2>3 DEF Reached
  <1>3. ASSUME NEW t \in Turns, StartGivesUp(t) PROVE Reached'
    <2>1. route' = route /\ reader' = reader
      BY <1>3 DEF StartGivesUp
    <2>2. \A u \in Turns : (Uncut(u)' => Uncut(u)) /\ (done[u] => done'[u])
      BY <1>3 DEF Uncut, Inv, Types, TypeOK, StartGivesUp
    <2>3. reader.at = "found" => reader.frame.turn \in Turns
      BY DEF Inv, Types, Framed, ReaderSound, FromChild
    <2> QED
      BY <2>1, <2>2, <2>3 DEF Reached
  <1>4. ASSUME NEW t \in Turns, ChildAnswers(t) PROVE Reached'
    BY <1>4 DEF Reached, Uncut, ChildAnswers
  <1>5. ASSUME NEW t \in Turns, ChildNotifies(t) PROVE Reached'
    BY <1>5 DEF Reached, Uncut, ChildNotifies
  <1>6. ASSUME NEW t \in Turns, ChildCompletes(t) PROVE Reached'
    BY <1>6 DEF Reached, Uncut, ChildCompletes
  <1>7. ASSUME ChildDies PROVE Reached'
    BY <1>7 DEF Reached, Uncut, ChildDies
  <1>8. ASSUME ReadFrame PROVE Reached'
    <2>1. Head(pipe).turn \in Turns /\ Head(pipe) \in Frame
      BY <1>8, TailEntries DEF Inv, Types, Framed, Queued, PipeSound, FromChild, ReadFrame
    <2>2. \A u \in Turns : Uncut(u)' => Uncut(u)
      BY <1>8, <2>1 DEF Uncut, Inv, Types, TypeOK, ReadFrame
    <2>3. route' = route /\ done' = done
      BY <1>8 DEF ReadFrame
    <2>4. ASSUME reader'.at = "found"
          PROVE  reader'.frame = Head(pipe) /\ reader'.turn = route[ThreadOf[Head(pipe).turn]]
      BY <1>8, <2>4 DEF ReadFrame, LookUp
    <2> QED
      BY <2>1, <2>2, <2>3, <2>4 DEF Reached
  <1>9. ASSUME RouteNothing PROVE Reached'
    <2>1. reader'.at # "found"
      BY <1>9, IdleFacts DEF Inv, Types, Framed, ReaderSound, Readers, RouteNothing
    <2>2. \A u \in Turns : done[u] => done'[u]
      BY <1>9 DEF Inv, Types, TypeOK, RouteNothing
    <2> QED
      BY <1>9, <2>1, <2>2 DEF Reached, Uncut, RouteNothing
  <1>10. ASSUME RouteEvent PROVE Reached'
    <2>1. reader'.at # "found"
      BY <1>10, IdleFacts DEF Inv, Types, Framed, ReaderSound, Readers, RouteEvent
    <2>2. \A u \in Turns : done[u] => done'[u]
      BY <1>10 DEF Inv, Types, TypeOK, RouteEvent
    <2> QED
      BY <1>10, <2>1, <2>2 DEF Reached, Uncut, RouteEvent
  <1>11. ASSUME RouteCompleted PROVE Reached'
    <2>1. reader'.at # "found"
      BY <1>11, IdleFacts DEF Inv, Types, Framed, ReaderSound, Readers, RouteCompleted
    <2>2. \A u \in Turns : done[u] => done'[u]
      BY <1>11 DEF Inv, Types, TypeOK, RouteCompleted
    <2> QED
      BY <1>11, <2>1, <2>2 DEF Reached, Uncut, RouteCompleted
  <1>12. ASSUME MarkTurnDone PROVE Reached'
    <2>1. reader'.at # "found"
      BY <1>12, IdleFacts DEF Inv, Types, Framed, ReaderSound, Readers, MarkTurnDone
    <2>2. \A u \in Turns : done[u] => done'[u]
      BY <1>12 DEF Inv, Types, TypeOK, MarkTurnDone
    <2> QED
      BY <1>12, <2>1, <2>2 DEF Reached, Uncut, MarkTurnDone
  <1>13. ASSUME Unregister PROVE Reached'
    <2>1. reader'.at # "found" /\ reader.turn \in Turns /\ done[reader.turn]
      BY <1>13 DEF Inv, Types, Framed, ReaderSound, Readers, Completing, Unregister
    <2>2. \A u \in Turns \ {reader.turn} : route'[ThreadOf[u]] = route[ThreadOf[u]]
      BY <1>13, <2>1, Threading DEF Alone, Inv, Types, TypeOK, Unroute, Unregister
    <2> QED
      BY <1>13, <2>1, <2>2 DEF Reached, Uncut, Unregister
  <1>14. ASSUME CloseInbox PROVE Reached'
    <2>1. reader'.at # "found"
      BY <1>14, IdleFacts DEF Inv, Types, Framed, ReaderSound, Readers, CloseInbox
    <2>2. \A u \in Turns : done[u] => done'[u]
      BY <1>14 DEF Inv, Types, TypeOK, CloseInbox
    <2> QED
      BY <1>14, <2>1, <2>2 DEF Reached, Uncut, CloseInbox
  <1>15. ASSUME ReaderEnds PROVE Reached'
    <2>1. reader'.at # "found"
      BY <1>15, IdleFacts DEF ReaderEnds
    <2>2. \A u \in Turns : ~done'[u] => ~done[u] /\ route[ThreadOf[u]] # u
      BY <1>15 DEF ReaderEnds
    <2> QED
      BY <1>15, <2>1, <2>2 DEF Reached, Uncut, ReaderEnds
  <1>16. ASSUME NEW t \in Turns, PumpTakes(t) PROVE Reached'
    BY <1>16 DEF Reached, Uncut, PumpTakes
  <1>17. ASSUME NEW t \in Turns, PumpForwards(t) PROVE Reached'
    BY <1>17 DEF Reached, Uncut, PumpForwards
  <1>18. ASSUME NEW t \in Turns, PumpEnds(t) PROVE Reached'
    BY <1>18 DEF Reached, Uncut, PumpEnds
  <1>19. ASSUME NEW t \in Turns, PumpCloses(t) PROVE Reached'
    BY <1>19 DEF Reached, Uncut, PumpCloses
  <1>20. ASSUME NEW t \in Turns, PumpCanceled(t) PROVE Reached'
    BY <1>20 DEF Reached, Uncut, PumpCanceled
  <1>21. ASSUME NEW t \in Turns, Receive(t) PROVE Reached'
    BY <1>21 DEF Reached, Uncut, Receive
  <1>22. ASSUME NEW t \in Turns, DrainEnds(t) PROVE Reached'
    <2>1. route' = route /\ reader' = reader /\ done' = done
      BY <1>22 DEF DrainEnds
    <2>2. \A u \in Turns : Uncut(u)' => Uncut(u)
      BY <1>22 DEF Uncut, Inv, Types, TypeOK, DrainEnds
    <2>3. reader.at = "found" => reader.frame.turn \in Turns
      BY DEF Inv, Types, Framed, ReaderSound, FromChild
    <2> QED
      BY <2>1, <2>2, <2>3 DEF Reached
  <1>23. ASSUME NEW t \in Turns, Leave(t) PROVE Reached'
    <2>1. route' = route /\ reader' = reader /\ done' = done
      BY <1>23 DEF Leave
    <2>2. \A u \in Turns : Uncut(u)' => Uncut(u)
      BY <1>23 DEF Uncut, Inv, Types, TypeOK, Leave
    <2>3. reader.at = "found" => reader.frame.turn \in Turns
      BY DEF Inv, Types, Framed, ReaderSound, FromChild
    <2> QED
      BY <2>1, <2>2, <2>3 DEF Reached
  <1>24. ASSUME NEW t \in Turns, CancelFromOutside(t) PROVE Reached'
    <2>1. route' = route /\ reader' = reader /\ done' = done
      BY <1>24 DEF CancelFromOutside
    <2>2. \A u \in Turns : Uncut(u)' => Uncut(u)
      BY <1>24 DEF Uncut, Inv, Types, TypeOK, CancelFromOutside
    <2>3. reader.at = "found" => reader.frame.turn \in Turns
      BY DEF Inv, Types, Framed, ReaderSound, FromChild
    <2> QED
      BY <2>1, <2>2, <2>3 DEF Reached
  <1>25. ASSUME NEW t \in Turns, CancelClaims(t) PROVE Reached'
    <2>1. route' = route /\ reader' = reader
      BY <1>25 DEF CancelClaims
    <2>2. \A u \in Turns : (Uncut(u)' => Uncut(u)) /\ (done[u] => done'[u])
      BY <1>25 DEF Uncut, Inv, Types, TypeOK, CancelClaims
    <2>3. reader.at = "found" => reader.frame.turn \in Turns
      BY DEF Inv, Types, Framed, ReaderSound, FromChild
    <2> QED
      BY <2>1, <2>2, <2>3 DEF Reached
  <1>26. ASSUME NEW t \in Turns, CancelUnroutes(t) PROVE Reached'
    <2>1. \A u \in Turns \ {t} : route'[ThreadOf[u]] = route[ThreadOf[u]]
      BY <1>26, Threading DEF Alone, Inv, Types, TypeOK, Unroute, CancelUnroutes
    <2>2. reader' = reader /\ done' = done /\ ~Uncut(t)' /\ \A u \in Turns : Uncut(u)' => Uncut(u)
      BY <1>26 DEF Uncut, Inv, Types, TypeOK, CancelUnroutes
    <2>3. reader.at = "found" => reader.frame.turn \in Turns
      BY DEF Inv, Types, Framed, ReaderSound, FromChild
    <2> QED
      BY <2>1, <2>2, <2>3 DEF Reached
  <1>27. ASSUME NEW t \in Turns, CancelSignals(t) PROVE Reached'
    <2>1. route' = route /\ reader' = reader /\ done' = done
      BY <1>27 DEF CancelSignals
    <2>2. \A u \in Turns : Uncut(u)' => Uncut(u)
      BY <1>27 DEF Uncut, Inv, Types, TypeOK, CancelSignals
    <2>3. reader.at = "found" => reader.frame.turn \in Turns
      BY DEF Inv, Types, Framed, ReaderSound, FromChild
    <2> QED
      BY <2>1, <2>2, <2>3 DEF Reached
  <1>28. ASSUME UNCHANGED vars PROVE Reached'
    BY <1>28 DEF Reached, Uncut, vars
  <1> QED
    BY <1>1, <1>2, <1>3, <1>4, <1>5, <1>6, <1>7, <1>8, <1>9, <1>10, <1>11, <1>12, <1>13,
       <1>14, <1>15, <1>16, <1>17, <1>18, <1>19, <1>20, <1>21, <1>22, <1>23, <1>24,
       <1>25, <1>26, <1>27, <1>28
    DEF Next, Reader, Pump, Canceller, Consumer

(* What is done is over: nothing of it is still to come. *)
LEMMA PassedStep ==
  ASSUME Inv, Inv', Lined, Owned, Passed, [Next]_vars
  PROVE  Passed'
  <1> USE DEF turnVars, pumpVars, childVars, Write
  <1>1. ASSUME NEW t \in Turns, StartTurn(t) PROVE Passed'
    <2>1. pipe' = pipe /\ Holding' = Holding /\ done' = done /\ alive' = alive /\ reader' = reader
      BY <1>1 DEF Holding, StartTurn
    <2>2. \A u \in Turns \ {t} : child'[u] = child[u] /\ (Uncut(u)' => Uncut(u))
      BY <1>1 DEF Uncut, Inv, Types, TypeOK, Framed, Queued, StartTurn
    <2>3. ~done[t] /\ caller[t] = "none"
      BY <1>1 DEF Inv, Endings, Ending, StartTurn
    <2>4. reader.at = "stashed" => reader.turn \in Turns \ {t}
      BY <2>3, Threading DEF Inv, Routed, Completing
    <2> QED
      BY <2>1, <2>2, <2>3, <2>4 DEF Passed
  <1>2. ASSUME NEW t \in Turns, StartFails(t) PROVE Passed'
    <2>1. /\ Holding' = Holding /\ pipe' = pipe /\ child' = child /\ (~alive => ~alive') /\ reader' = reader
          /\ \A u \in Turns : Uncut(u)' => Uncut(u) /\ done'[u] = done[u]
      BY <1>2 DEF Holding, Uncut, Inv, Types, TypeOK, StartFails
    <2> QED
      BY <2>1 DEF Passed
  <1>3. ASSUME NEW t \in Turns, StartGivesUp(t) PROVE Passed'
    <2>1. Holding' = Holding /\ pipe' = pipe /\ child' = child /\ alive' = alive /\ reader' = reader
      BY <1>3 DEF Holding, StartGivesUp
    <2>2. \A u \in Turns \ {t} : (Uncut(u)' => Uncut(u)) /\ done'[u] = done[u]
      BY <1>3 DEF Uncut, Inv, Types, TypeOK, StartGivesUp
    <2>3. ~Uncut(t)'
      BY <1>3 DEF Uncut, Inv, Types, TypeOK, StartGivesUp
    <2> QED
      BY <2>1, <2>2, <2>3 DEF Passed
  <1>4. ASSUME NEW t \in Turns, ChildAnswers(t) PROVE Passed'
    <2>1. Reply(t) \in Frame /\ sent[t] \in Nat /\ pipe \in Seq(Frame)
      BY FrameFacts DEF Inv, Types, Framed, Queued
    <2>2. PICK f \in Frame : f = Reply(t)
      BY <2>1
    <2>3. /\ pipe' = Append(pipe, f) /\ Holding' = Holding /\ done' = done /\ alive /\ alive' = alive
          /\ reader' = reader /\ child[t] # "over" /\ \A u \in Turns : Uncut(u)' <=> Uncut(u)
      BY <1>4, <2>2 DEF Holding, Uncut, ChildAnswers
    <2>4. \A u \in Turns \ {t} : child'[u] = child[u]
      BY <1>4 DEF Inv, Types, Framed, Queued, ChildAnswers
    <2>5. f.turn = t
      BY <2>2 DEF Reply, Event, Completed
    <2>6. \A u \in Turns \ {t} : NoEvents(pipe, u) => NoEvents(pipe', u)
      BY <2>1, <2>3, <2>5, NoEventsSeq
    <2>7. reader.at = "stashed" => reader.turn \in Turns \ {t}
      BY <2>3 DEF Inv, Completing, Passed
    <2> QED
      BY <2>3, <2>4, <2>6, <2>7 DEF Passed
  <1>5. ASSUME NEW t \in Turns, ChildNotifies(t) PROVE Passed'
    <2>1. Event(t, sent[t] + 1) \in Frame /\ sent[t] \in Nat /\ pipe \in Seq(Frame)
      BY FrameFacts DEF Inv, Types, Framed, Queued
    <2>2. PICK f \in Frame : f = Event(t, sent[t] + 1)
      BY <2>1
    <2>3. /\ pipe' = Append(pipe, f) /\ Holding' = Holding /\ done' = done /\ alive /\ alive' = alive
          /\ reader' = reader /\ child[t] # "over" /\ \A u \in Turns : Uncut(u)' <=> Uncut(u)
      BY <1>5, <2>2 DEF Holding, Uncut, ChildNotifies
    <2>4. \A u \in Turns \ {t} : child'[u] = child[u]
      BY <1>5 DEF Inv, Types, Framed, Queued, ChildNotifies
    <2>5. f.turn = t
      BY <2>2 DEF Reply, Event, Completed
    <2>6. \A u \in Turns \ {t} : NoEvents(pipe, u) => NoEvents(pipe', u)
      BY <2>1, <2>3, <2>5, NoEventsSeq
    <2>7. reader.at = "stashed" => reader.turn \in Turns \ {t}
      BY <2>3 DEF Inv, Completing, Passed
    <2> QED
      BY <2>3, <2>4, <2>6, <2>7 DEF Passed
  <1>6. ASSUME NEW t \in Turns, ChildCompletes(t) PROVE Passed'
    <2>1. Completed(t) \in Frame /\ sent[t] \in Nat /\ pipe \in Seq(Frame)
      BY FrameFacts DEF Inv, Types, Framed, Queued
    <2>2. PICK f \in Frame : f = Completed(t)
      BY <2>1
    <2>3. /\ pipe' = Append(pipe, f) /\ Holding' = Holding /\ done' = done /\ alive /\ alive' = alive
          /\ reader' = reader /\ child[t] # "over" /\ \A u \in Turns : Uncut(u)' <=> Uncut(u)
      BY <1>6, <2>2 DEF Holding, Uncut, ChildCompletes
    <2>4. \A u \in Turns \ {t} : child'[u] = child[u]
      BY <1>6 DEF Inv, Types, Framed, Queued, ChildCompletes
    <2>5. f.turn = t
      BY <2>2 DEF Reply, Event, Completed
    <2>6. \A u \in Turns \ {t} : NoEvents(pipe, u) => NoEvents(pipe', u)
      BY <2>1, <2>3, <2>5, NoEventsSeq
    <2>7. reader.at = "stashed" => reader.turn \in Turns \ {t}
      BY <2>3 DEF Inv, Completing, Passed
    <2> QED
      BY <2>3, <2>4, <2>6, <2>7 DEF Passed
  <1>7. ASSUME ChildDies PROVE Passed'
    <2>1. /\ Holding' = Holding /\ pipe' = pipe /\ child' = child /\ (~alive => ~alive') /\ reader' = reader
          /\ \A u \in Turns : Uncut(u)' => Uncut(u) /\ done'[u] = done[u]
      BY <1>7 DEF Holding, Uncut, Inv, Types, TypeOK, ChildDies
    <2> QED
      BY <2>1 DEF Passed
  <1>8. ASSUME ReadFrame PROVE Passed'
    <2>a. /\ pipe \in Seq(Frame) /\ pipe # <<>> /\ pipe' = Tail(pipe)
      BY <1>8 DEF Inv, Types, Framed, Queued, ReadFrame
    <2>b. Head(pipe) \in Frame /\ Head(pipe) = pipe[1] /\ 1 \in 1 .. Len(pipe)
      BY <2>a, TailEntries
    <2>c. Head(pipe).turn \in Turns
      BY <2>b DEF Inv, Types, Framed, PipeSound, FromChild
    <2>1. /\ pipe \in Seq(Frame) /\ pipe # <<>> /\ pipe' = Tail(pipe) /\ Head(pipe) \in Frame
          /\ Head(pipe).turn \in Turns
      BY <2>a, <2>b, <2>c
    <2>2. \A u \in Turns : Uncut(u)' => Uncut(u)
      BY <1>8, <2>1 DEF Uncut, Inv, Types, TypeOK, ReadFrame
    <2>3. reader'.at # "stashed" /\ Holding' \in {<<>>, <<Head(pipe)>>}
      BY <1>8 DEF Holding, ReadFrame
    <2>4. \A u : NoEvents(<<>>, u)
      BY DEF NoEvents
    <2>5. \A u \in Turns : NoEvents(pipe, u) => NoEvents(pipe', u) /\ NoEvents(Holding', u)
      BY <2>1, <2>3, <2>4, NoEventsSeq
    <2>6. done' = done /\ child' = child /\ alive' = alive
      BY <1>8 DEF ReadFrame
    <2> QED
      BY <2>2, <2>3, <2>5, <2>6 DEF Passed
  <1>9. ASSUME RouteNothing PROVE Passed'
    <2>1. reader'.at = "idle" /\ Holding' = <<>>
      BY <1>9, IdleFacts DEF Holding, RouteNothing
    <2>2. \A u : NoEvents(<<>>, u)
      BY DEF NoEvents
    <2> QED
      BY <1>9, <2>1, <2>2 DEF Passed, Uncut, RouteNothing
  <1>10. ASSUME RouteEvent PROVE Passed'
    <2>1. reader'.at = "idle" /\ Holding' = <<>>
      BY <1>10, IdleFacts DEF Holding, RouteEvent
    <2>2. \A u : NoEvents(<<>>, u)
      BY DEF NoEvents
    <2> QED
      BY <1>10, <2>1, <2>2 DEF Passed, Uncut, RouteEvent
  <1>11. ASSUME RouteCompleted PROVE Passed'
    <2>1. /\ reader'.at = "stashed" /\ reader'.turn = reader.turn /\ Holding' = <<>>
          /\ Holding = <<reader.frame>> /\ reader.frame \in Frame /\ reader.turn \in Turns
          /\ reader.frame.turn = reader.turn /\ reader.frame.kind = "completed"
      BY <1>11 DEF Inv, Types, Framed, ReaderSound, Readers, Owned, Holding, RouteCompleted
    <2> DEFINE Q == Line(reader.turn)
    <2>2. Q \in Lines /\ Q[5] = <<reader.frame>> /\ Q[6] = pipe
      BY <2>1, LineTyped
    <2>3. 5 \in Stages /\ 6 \in Stages /\ 1 \in 1 .. Len(Q[5]) /\ Q[5][1] = reader.frame
      BY <2>1, <2>2 DEF Stages
    <2>4. Has(Q, reader.frame) /\ OrderedTo(Q, Size(Q))
      <3>1. Has(Q, reader.frame)
        BY <2>2, <2>3, EntryIsHad
      <3> QED
        BY <2>1, <3>1 DEF Lined, Ordered
    <2>5. child[reader.turn] = "over"
      BY <2>1, <2>4 DEF Lined, Accounted
    <2>6. ASSUME NEW k \in 1 .. Len(pipe) PROVE Precedes(reader.frame, pipe[k])
      <3> HIDE DEF Q
      <3>1. Size(Q)[5] = Len(Q[5]) /\ Size(Q)[6] = Len(pipe)
        BY <2>2, <2>3 DEF Size
      <3> QED
        BY <2>2, <2>3, <2>4, <3>1 DEF OrderedTo
    <2>7. NoEvents(pipe, reader.turn)
      BY <2>1, <2>6 DEF NoEvents, Precedes
    <2>8. \A u : NoEvents(<<>>, u)
      BY DEF NoEvents
    <2> QED
      BY <1>11, <2>1, <2>5, <2>7, <2>8 DEF Passed, Uncut, RouteCompleted
  <1>12. ASSUME MarkTurnDone PROVE Passed'
    <2>1. /\ reader'.at = "marked" /\ Holding' = <<>> /\ Holding = <<>>
          /\ reader.turn \in Turns
      BY <1>12 DEF Inv, Types, Framed, ReaderSound, Readers, Completing, Holding,
         MarkTurnDone
    <2>2. child[reader.turn] = "over" /\ NoEvents(pipe, reader.turn)
      BY <1>12 DEF Passed, MarkTurnDone
    <2>3. \A u : NoEvents(<<>>, u)
      BY DEF NoEvents
    <2>4. \A u \in Turns \ {reader.turn} : done'[u] = done[u]
      <3>1. done \in [Turns -> BOOLEAN] /\ done' = [done EXCEPT ![reader.turn] = TRUE]
        BY <1>12 DEF Inv, Types, TypeOK, MarkTurnDone
      <3> QED
        BY <3>1, Zenon
    <2> QED
      BY <1>12, <2>1, <2>2, <2>3, <2>4 DEF Passed, Uncut, MarkTurnDone
  <1>13. ASSUME Unregister PROVE Passed'
    <2>1. reader'.at # "stashed" /\ Holding' = <<>>
      BY <1>13, IdleFacts DEF Inv, Types, Framed, ReaderSound, Readers, Holding, Unregister
    <2>2. \A u : NoEvents(<<>>, u)
      BY DEF NoEvents
    <2> QED
      BY <1>13, <2>1, <2>2 DEF Passed, Uncut, Unregister
  <1>14. ASSUME CloseInbox PROVE Passed'
    <2>1. reader'.at # "stashed" /\ Holding' = <<>>
      BY <1>14, IdleFacts DEF Inv, Types, Framed, ReaderSound, Readers, Holding, CloseInbox
    <2>2. \A u : NoEvents(<<>>, u)
      BY DEF NoEvents
    <2> QED
      BY <1>14, <2>1, <2>2 DEF Passed, Uncut, CloseInbox
  <1>15. ASSUME ReaderEnds PROVE Passed'
    <2>1. reader'.at = "ended" /\ Holding' = <<>> /\ pipe' = <<>> /\ ~alive'
      BY <1>15, IdleFacts DEF Holding, ReaderEnds
    <2>2. \A u : NoEvents(<<>>, u)
      BY DEF NoEvents
    <2> QED
      BY <2>1, <2>2 DEF Passed
  <1>16. ASSUME NEW t \in Turns, PumpTakes(t) PROVE Passed'
    <2>1. /\ Holding' = Holding /\ pipe' = pipe /\ child' = child /\ (~alive => ~alive') /\ reader' = reader
          /\ \A u \in Turns : Uncut(u)' => Uncut(u) /\ done'[u] = done[u]
      BY <1>16 DEF Holding, Uncut, Inv, Types, TypeOK, PumpTakes
    <2> QED
      BY <2>1 DEF Passed
  <1>17. ASSUME NEW t \in Turns, PumpForwards(t) PROVE Passed'
    <2>1. /\ Holding' = Holding /\ pipe' = pipe /\ child' = child /\ (~alive => ~alive') /\ reader' = reader
          /\ \A u \in Turns : Uncut(u)' => Uncut(u) /\ done'[u] = done[u]
      BY <1>17 DEF Holding, Uncut, Inv, Types, TypeOK, PumpForwards
    <2> QED
      BY <2>1 DEF Passed
  <1>18. ASSUME NEW t \in Turns, PumpEnds(t) PROVE Passed'
    <2>1. /\ Holding' = Holding /\ pipe' = pipe /\ child' = child /\ (~alive => ~alive') /\ reader' = reader
          /\ \A u \in Turns : Uncut(u)' => Uncut(u) /\ done'[u] = done[u]
      BY <1>18 DEF Holding, Uncut, Inv, Types, TypeOK, PumpEnds
    <2> QED
      BY <2>1 DEF Passed
  <1>19. ASSUME NEW t \in Turns, PumpCloses(t) PROVE Passed'
    <2>1. /\ Holding' = Holding /\ pipe' = pipe /\ child' = child /\ (~alive => ~alive') /\ reader' = reader
          /\ \A u \in Turns : Uncut(u)' => Uncut(u) /\ done'[u] = done[u]
      BY <1>19 DEF Holding, Uncut, Inv, Types, TypeOK, PumpCloses
    <2> QED
      BY <2>1 DEF Passed
  <1>20. ASSUME NEW t \in Turns, PumpCanceled(t) PROVE Passed'
    <2>1. /\ Holding' = Holding /\ pipe' = pipe /\ child' = child /\ (~alive => ~alive') /\ reader' = reader
          /\ \A u \in Turns : Uncut(u)' => Uncut(u) /\ done'[u] = done[u]
      BY <1>20 DEF Holding, Uncut, Inv, Types, TypeOK, PumpCanceled
    <2> QED
      BY <2>1 DEF Passed
  <1>21. ASSUME NEW t \in Turns, Receive(t) PROVE Passed'
    <2>1. /\ Holding' = Holding /\ pipe' = pipe /\ child' = child /\ (~alive => ~alive') /\ reader' = reader
          /\ \A u \in Turns : Uncut(u)' => Uncut(u) /\ done'[u] = done[u]
      BY <1>21 DEF Holding, Uncut, Inv, Types, TypeOK, Receive
    <2> QED
      BY <2>1 DEF Passed
  <1>22. ASSUME NEW t \in Turns, DrainEnds(t) PROVE Passed'
    <2>1. /\ Holding' = Holding /\ pipe' = pipe /\ child' = child /\ (~alive => ~alive') /\ reader' = reader
          /\ \A u \in Turns : Uncut(u)' => Uncut(u) /\ done'[u] = done[u]
      BY <1>22 DEF Holding, Uncut, Inv, Types, TypeOK, DrainEnds
    <2> QED
      BY <2>1 DEF Passed
  <1>23. ASSUME NEW t \in Turns, Leave(t) PROVE Passed'
    <2>1. /\ Holding' = Holding /\ pipe' = pipe /\ child' = child /\ (~alive => ~alive') /\ reader' = reader
          /\ \A u \in Turns : Uncut(u)' => Uncut(u) /\ done'[u] = done[u]
      BY <1>23 DEF Holding, Uncut, Inv, Types, TypeOK, Leave
    <2> QED
      BY <2>1 DEF Passed
  <1>24. ASSUME NEW t \in Turns, CancelFromOutside(t) PROVE Passed'
    <2>1. /\ Holding' = Holding /\ pipe' = pipe /\ child' = child /\ (~alive => ~alive') /\ reader' = reader
          /\ \A u \in Turns : Uncut(u)' => Uncut(u) /\ done'[u] = done[u]
      BY <1>24 DEF Holding, Uncut, Inv, Types, TypeOK, CancelFromOutside
    <2> QED
      BY <2>1 DEF Passed
  <1>25. ASSUME NEW t \in Turns, CancelClaims(t) PROVE Passed'
    <2>1. Holding' = Holding /\ pipe' = pipe /\ child' = child /\ alive' = alive /\ reader' = reader
      BY <1>25 DEF Holding, CancelClaims
    <2>2. \A u \in Turns \ {t} : (Uncut(u)' => Uncut(u)) /\ done'[u] = done[u]
      BY <1>25 DEF Uncut, Inv, Types, TypeOK, CancelClaims
    <2>3. ~Uncut(t)'
      BY <1>25 DEF Uncut, Inv, Types, TypeOK, CancelClaims
    <2> QED
      BY <2>1, <2>2, <2>3 DEF Passed
  <1>26. ASSUME NEW t \in Turns, CancelUnroutes(t) PROVE Passed'
    <2>1. /\ Holding' = Holding /\ pipe' = pipe /\ child' = child /\ (~alive => ~alive') /\ reader' = reader
          /\ \A u \in Turns : Uncut(u)' => Uncut(u) /\ done'[u] = done[u]
      BY <1>26 DEF Holding, Uncut, Inv, Types, TypeOK, CancelUnroutes
    <2> QED
      BY <2>1 DEF Passed
  <1>27. ASSUME NEW t \in Turns, CancelSignals(t) PROVE Passed'
    <2>1. /\ Holding' = Holding /\ pipe' = pipe /\ child' = child /\ (~alive => ~alive') /\ reader' = reader
          /\ \A u \in Turns : Uncut(u)' => Uncut(u) /\ done'[u] = done[u]
      BY <1>27 DEF Holding, Uncut, Inv, Types, TypeOK, CancelSignals
    <2> QED
      BY <2>1 DEF Passed
  <1>28. ASSUME UNCHANGED vars PROVE Passed'
    <2>1. /\ Holding' = Holding /\ pipe' = pipe /\ child' = child /\ (~alive => ~alive') /\ reader' = reader
          /\ \A u \in Turns : Uncut(u)' => Uncut(u) /\ done'[u] = done[u]
      BY <1>28 DEF Holding, Uncut, Inv, Types, TypeOK, vars
    <2> QED
      BY <2>1 DEF Passed
  <1> QED
    BY <1>1, <1>2, <1>3, <1>4, <1>5, <1>6, <1>7, <1>8, <1>9, <1>10, <1>11, <1>12, <1>13,
       <1>14, <1>15, <1>16, <1>17, <1>18, <1>19, <1>20, <1>21, <1>22, <1>23, <1>24,
       <1>25, <1>26, <1>27, <1>28
    DEF Next, Reader, Pump, Canceller, Consumer

(* What was written is on the line, and a loss that was told is marked. *)
LEMMA KeptStep ==
  ASSUME Inv, Inv', Lined, Asked, Passed, Reached, Kept, [Next]_vars
  PROVE  Kept'
  <1> USE DEF turnVars, pumpVars, childVars, Write
  <1>1. ASSUME NEW t \in Turns, StartTurn(t) PROVE Kept'
    <2>1. Holding' = Holding
      BY <1>1 DEF Holding, StartTurn
    <2>2. /\ \A u \in Turns : Line(u)' = Line(u)
          /\ got' = got /\ events' = events /\ hand' = hand /\ sent' = sent /\ lost' = lost
      BY <1>1, <2>1 DEF Line, StartTurn
    <2>3. /\ \A u \in Turns \ {t} : Uncut(u)' => Uncut(u)
          /\ \A u \in Turns : caller'[u] = "none" => caller[u] = "none"
      BY <1>1 DEF Uncut, Inv, Types, TypeOK, StartTurn
    <2>4. sent[t] = 0 /\ lost[t] = "no" /\ 1 .. 0 = {}
      BY <1>1 DEF Asked, Kept, StartTurn
    <2> QED
      BY <2>2, <2>3, <2>4 DEF Kept
  <1>2. ASSUME NEW t \in Turns, StartFails(t) PROVE Kept'
    <2>1. Holding' = Holding
      BY <1>2 DEF Holding, Inv, Types, Framed, ReaderSound, Readers, StartFails
    <2>2. /\ \A u \in Turns : Line(u)' = Line(u)
          /\ got' = got /\ events' = events /\ hand' = hand /\ sent' = sent /\ lost' = lost
      BY <1>2, <2>1 DEF Line, StartFails
    <2>3. \A u \in Turns : (Uncut(u)' => Uncut(u)) /\ (caller'[u] = "none" => caller[u] = "none")
      BY <1>2 DEF Uncut, Inv, Types, TypeOK, StartFails
    <2> QED
      BY <2>2, <2>3 DEF Kept
  <1>3. ASSUME NEW t \in Turns, StartGivesUp(t) PROVE Kept'
    <2>1. Holding' = Holding
      BY <1>3 DEF Holding, Inv, Types, Framed, ReaderSound, Readers, StartGivesUp
    <2>2. /\ \A u \in Turns : Line(u)' = Line(u)
          /\ got' = got /\ events' = events /\ hand' = hand /\ sent' = sent /\ lost' = lost
      BY <1>3, <2>1 DEF Line, StartGivesUp
    <2>3. \A u \in Turns : (Uncut(u)' => Uncut(u)) /\ (caller'[u] = "none" => caller[u] = "none")
      BY <1>3 DEF Uncut, Inv, Types, TypeOK, StartGivesUp
    <2> QED
      BY <2>2, <2>3 DEF Kept
  <1>4. ASSUME NEW t \in Turns, ChildAnswers(t) PROVE Kept'
    <2>1. Reply(t) \in Frame /\ sent[t] \in Nat /\ pipe \in Seq(Frame)
      BY FrameFacts DEF Inv, Types, Framed, Queued
    <2>2. PICK f \in Frame : f = Reply(t)
      BY <2>1
    <2>3. /\ pipe' = Append(pipe, f) /\ got' = got /\ events' = events
          /\ hand' = hand /\ inbox' = inbox /\ reader' = reader /\ lost' = lost
          /\ caller' = caller /\ cancel' = cancel
      BY <1>4, <2>2 DEF ChildAnswers
    <2>4. ASSUME NEW u \in Turns PROVE \A e : Has(Line(u), e) \/ e = f => Has(Line(u)', e)
      <3>1. ASSUME NEW e \in Frame, Has(Line(u), e) PROVE Precedes(e, f)
        <4>1. Accounted(e)
          BY <3>1 DEF Lined
        <4> QED
          BY <1>4, <2>1, <2>2, <4>1 DEF Accounted, Precedes, Frame, Reply, Event,
             Completed, ChildAnswers
      <3> QED
        BY <2>2, <2>3, <3>1, WriteMoves
    <2>5. sent' = sent
      BY <1>4 DEF ChildAnswers
    <2> QED
      BY <2>3, <2>4, <2>5 DEF Kept, Uncut
  <1>5. ASSUME NEW t \in Turns, ChildNotifies(t) PROVE Kept'
    <2>1. Event(t, sent[t] + 1) \in Frame /\ sent[t] \in Nat /\ pipe \in Seq(Frame)
      BY FrameFacts DEF Inv, Types, Framed, Queued
    <2>2. PICK f \in Frame : f = Event(t, sent[t] + 1)
      BY <2>1
    <2>3. /\ pipe' = Append(pipe, f) /\ got' = got /\ events' = events
          /\ hand' = hand /\ inbox' = inbox /\ reader' = reader /\ lost' = lost
          /\ caller' = caller /\ cancel' = cancel
      BY <1>5, <2>2 DEF ChildNotifies
    <2>4. ASSUME NEW u \in Turns PROVE \A e : Has(Line(u), e) \/ e = f => Has(Line(u)', e)
      <3>1. ASSUME NEW e \in Frame, Has(Line(u), e) PROVE Precedes(e, f)
        <4>1. Accounted(e)
          BY <3>1 DEF Lined
        <4> QED
          BY <1>5, <2>1, <2>2, <4>1 DEF Accounted, Precedes, Frame, Reply, Event,
             Completed, ChildNotifies
      <3> QED
        BY <2>2, <2>3, <3>1, WriteMoves
    <2>5. /\ \A u \in Turns \ {t} : sent'[u] = sent[u]
          /\ sent'[t] = sent[t] + 1 /\ 1 .. sent[t] + 1 = 1 .. sent[t] \cup {sent[t] + 1}
      BY <1>5, <2>1 DEF Inv, Types, Framed, Queued, ChildNotifies
    <2>6. ASSUME NEW u \in Turns, Uncut(u), lost[u] = "no", NEW n \in 1 .. sent'[u]
          PROVE  Has(Line(u)', Event(u, n))
      BY <2>2, <2>4, <2>5, <2>6 DEF Kept
    <2> QED
      BY <2>3, <2>6 DEF Kept, Uncut
  <1>6. ASSUME NEW t \in Turns, ChildCompletes(t) PROVE Kept'
    <2>1. Completed(t) \in Frame /\ sent[t] \in Nat /\ pipe \in Seq(Frame)
      BY FrameFacts DEF Inv, Types, Framed, Queued
    <2>2. PICK f \in Frame : f = Completed(t)
      BY <2>1
    <2>3. /\ pipe' = Append(pipe, f) /\ got' = got /\ events' = events
          /\ hand' = hand /\ inbox' = inbox /\ reader' = reader /\ lost' = lost
          /\ caller' = caller /\ cancel' = cancel
      BY <1>6, <2>2 DEF ChildCompletes
    <2>4. ASSUME NEW u \in Turns PROVE \A e : Has(Line(u), e) \/ e = f => Has(Line(u)', e)
      <3>1. ASSUME NEW e \in Frame, Has(Line(u), e) PROVE Precedes(e, f)
        <4>1. Accounted(e)
          BY <3>1 DEF Lined
        <4> QED
          BY <1>6, <2>1, <2>2, <4>1 DEF Accounted, Precedes, Frame, Reply, Event,
             Completed, ChildCompletes
      <3> QED
        BY <2>2, <2>3, <3>1, WriteMoves
    <2>5. sent' = sent
      BY <1>6 DEF ChildCompletes
    <2> QED
      BY <2>3, <2>4, <2>5 DEF Kept, Uncut
  <1>7. ASSUME ChildDies PROVE Kept'
    <2>1. Holding' = Holding
      BY <1>7 DEF Holding, Inv, Types, Framed, ReaderSound, Readers, ChildDies
    <2>2. /\ \A u \in Turns : Line(u)' = Line(u)
          /\ got' = got /\ events' = events /\ hand' = hand /\ sent' = sent /\ lost' = lost
      BY <1>7, <2>1 DEF Line, ChildDies
    <2>3. \A u \in Turns : (Uncut(u)' => Uncut(u)) /\ (caller'[u] = "none" => caller[u] = "none")
      BY <1>7 DEF Uncut, Inv, Types, TypeOK, ChildDies
    <2> QED
      BY <2>2, <2>3 DEF Kept
  <1>8. ASSUME ReadFrame PROVE Kept'
    <2>1. Head(pipe).turn \in Turns
      BY <1>8, TailEntries DEF Inv, Types, Framed, Queued, PipeSound, FromChild, ReadFrame
    <2>2. \A u \in Turns : (Uncut(u)' => Uncut(u)) /\ (caller'[u] = "none" => caller[u] = "none")
      BY <1>8, <2>1 DEF Uncut, Inv, Types, TypeOK, ReadFrame
    <2>3. got' = got /\ events' = events /\ hand' = hand /\ sent' = sent /\ lost' = lost
      BY <1>8 DEF ReadFrame
    <2>4. \A u \in Turns : \A n : Has(Line(u), Event(u, n)) => Has(Line(u)', Event(u, n))
      <3>1. \A u \in Turns : \A e : Has(Line(u), e) => Accounted(e)
        BY DEF Lined
      <3>2. \A u \in Turns : \A e : Has(Line(u), e) => Has(Line(u)', e) \/ e.kind = "reply"
        BY <1>8, <3>1, ReadMoves
      <3> QED
        BY <3>2 DEF Event
    <2> QED
      BY <2>2, <2>3, <2>4 DEF Kept
  <1>9. ASSUME RouteNothing PROVE Kept'
    <2>1. /\ reader.at = "found" /\ reader'.at # "found"
          /\ got' = got /\ events' = events /\ hand' = hand /\ pipe' = pipe /\ inbox' = inbox
          /\ sent' = sent /\ lost' = lost /\ caller' = caller /\ cancel' = cancel
          /\ (reader.turn # NoTurn => done[reader.turn])
      BY <1>9, IdleFacts DEF RouteNothing
    <2>b. ASSUME NEW u \in Turns, Uncut(u), NEW n, reader.frame = Event(u, n)
          PROVE  ~done[u] /\ reader.turn = u
      <3>1. reader.frame.turn = u /\ reader.frame.kind = "event" /\ Holding = <<reader.frame>>
        BY <1>9, <2>b DEF Event, Holding, RouteNothing
      <3>2. ~NoEvents(Holding, u)
        BY <3>1 DEF NoEvents
      <3> QED
        BY <1>9, <2>b, <3>1, <3>2 DEF Passed, Reached, RouteNothing
    <2>2. ASSUME NEW u \in Turns, Uncut(u), NEW n, Has(Line(u), Event(u, n))
          PROVE  Has(Line(u)', Event(u, n))
      <3>1. reader.frame # Event(u, n)
        BY <2>1, <2>2, <2>b, Threading
      <3> QED
        BY <2>1, <2>2, <3>1, RouteMoves
    <2> QED
      BY <2>1, <2>2 DEF Kept, Uncut
  <1>10. ASSUME RouteEvent PROVE Kept'
    <2>1. /\ reader.at = "found" /\ reader'.at # "found"
          /\ got' = got /\ events' = events /\ hand' = hand /\ pipe' = pipe
          /\ sent' = sent /\ caller' = caller /\ cancel' = cancel
          /\ reader.turn \in Turns /\ Offer(reader.turn, reader.frame)
      BY <1>10, IdleFacts DEF Inv, Types, Framed, ReaderSound, Readers, RouteEvent
    <2>2. /\ \A u \in Turns \ {reader.turn} : lost'[u] = lost[u]
          /\ lost'[reader.turn] \in {lost[reader.turn], "yes"}
          /\ Len(inbox[reader.turn]) = InboxCap => lost'[reader.turn] # "no"
      BY <1>10, <2>1 DEF Inv, Types, TypeOK, RouteEvent
    <2>3. caller[reader.turn] # "none"
      BY <2>1, Threading DEF Inv, Routed
    <2>b. ASSUME NEW u \in Turns, Uncut(u), NEW n, reader.frame = Event(u, n)
          PROVE  ~done[u] /\ reader.turn = u
      <3>1. reader.frame.turn = u /\ reader.frame.kind = "event" /\ Holding = <<reader.frame>>
        BY <1>10, <2>b DEF Event, Holding, RouteEvent
      <3>2. ~NoEvents(Holding, u)
        BY <3>1 DEF NoEvents
      <3> QED
        BY <1>10, <2>b, <3>1, <3>2 DEF Passed, Reached, RouteEvent
    <2>4. ASSUME NEW u \in Turns, Uncut(u), lost'[u] = "no", NEW n, Has(Line(u), Event(u, n))
          PROVE  Has(Line(u)', Event(u, n))
      <3>1. CASE reader.frame # Event(u, n)
        BY <2>1, <2>4, <3>1, RouteMoves
      <3>2. CASE reader.frame = Event(u, n)
        <4>1. reader.turn = u
          BY <2>4, <2>b, <3>2
        <4>2. inbox[u] \in Seq(Frame) /\ Len(inbox[u]) <= InboxCap /\ Len(inbox[u]) # InboxCap
          BY <2>2, <2>4, <4>1 DEF Inv, Types, TypeOK, Framed, Queued
        <4>3. Len(inbox[u]) < InboxCap
          BY <4>2, Capacities
        <4>4. inbox'[u] = Append(inbox[u], reader.frame) /\ reader.frame \in Frame
          BY <2>1, <4>1, <4>3 DEF Offer, Inv, Types, Framed, Queued, ReaderSound, Readers
        <4>5. inbox'[u] # inbox[u]
          BY <4>2, <4>4, AppendEntries
        <4> QED
          BY <2>1, <2>4, <4>1, <4>5, RouteMoves
      <3> QED
        BY <3>1, <3>2
    <2>5. \A u \in Turns : (lost'[u] = "no" => lost[u] = "no") /\ (lost'[u] = "told" => lost[u] = "told")
      BY <2>1, <2>2, <1>10 DEF Inv, Types, TypeOK, RouteEvent
    <2>6. \A u \in Turns : caller[u] = "none" => lost'[u] = "no"
      BY <2>2, <2>3 DEF Kept
    <2> QED
      BY <2>1, <2>4, <2>5, <2>6 DEF Kept, Uncut
  <1>11. ASSUME RouteCompleted PROVE Kept'
    <2>1. /\ reader.at = "found" /\ reader'.at # "found" /\ reader.frame.kind = "completed"
          /\ got' = got /\ events' = events /\ hand' = hand /\ pipe' = pipe
          /\ sent' = sent /\ lost' = lost /\ caller' = caller /\ cancel' = cancel
          /\ reader.turn \in Turns /\ Offer(reader.turn, reader.frame)
      BY <1>11 DEF Inv, Types, Framed, ReaderSound, Readers, RouteCompleted
    <2>2. ASSUME NEW u \in Turns, NEW n, Has(Line(u), Event(u, n))
          PROVE  Has(Line(u)', Event(u, n))
      <3>1. reader.frame # Event(u, n)
        BY <2>1 DEF Event
      <3> QED
        BY <2>1, <2>2, <3>1, RouteMoves
    <2> QED
      BY <2>1, <2>2 DEF Kept, Uncut
  <1>12. ASSUME MarkTurnDone PROVE Kept'
    <2>1. Holding' = Holding
      BY <1>12 DEF Holding, Inv, Types, Framed, ReaderSound, Readers, MarkTurnDone
    <2>2. /\ \A u \in Turns : Line(u)' = Line(u)
          /\ got' = got /\ events' = events /\ hand' = hand /\ sent' = sent /\ lost' = lost
      BY <1>12, <2>1 DEF Line, MarkTurnDone
    <2>3. \A u \in Turns : (Uncut(u)' => Uncut(u)) /\ (caller'[u] = "none" => caller[u] = "none")
      BY <1>12 DEF Uncut, Inv, Types, TypeOK, MarkTurnDone
    <2> QED
      BY <2>2, <2>3 DEF Kept
  <1>13. ASSUME Unregister PROVE Kept'
    <2>1. Holding' = Holding
      BY <1>13 DEF Holding, Inv, Types, Framed, ReaderSound, Readers, Unregister
    <2>2. /\ \A u \in Turns : Line(u)' = Line(u)
          /\ got' = got /\ events' = events /\ hand' = hand /\ sent' = sent /\ lost' = lost
      BY <1>13, <2>1 DEF Line, Unregister
    <2>3. \A u \in Turns : (Uncut(u)' => Uncut(u)) /\ (caller'[u] = "none" => caller[u] = "none")
      BY <1>13 DEF Uncut, Inv, Types, TypeOK, Unregister
    <2> QED
      BY <2>2, <2>3 DEF Kept
  <1>14. ASSUME CloseInbox PROVE Kept'
    <2>1. Holding' = Holding
      BY <1>14, IdleFacts DEF Holding, Inv, Types, Framed, ReaderSound, Readers, CloseInbox
    <2>2. /\ \A u \in Turns : Line(u)' = Line(u)
          /\ got' = got /\ events' = events /\ hand' = hand /\ sent' = sent /\ lost' = lost
      BY <1>14, <2>1 DEF Line, CloseInbox
    <2>3. \A u \in Turns : (Uncut(u)' => Uncut(u)) /\ (caller'[u] = "none" => caller[u] = "none")
      BY <1>14 DEF Uncut, Inv, Types, TypeOK, CloseInbox
    <2> QED
      BY <2>2, <2>3 DEF Kept
  <1>15. ASSUME ReaderEnds PROVE Kept'
    <2>1. Holding' = Holding
      BY <1>15, IdleFacts DEF Holding, Inv, Types, Framed, ReaderSound, Readers, ReaderEnds
    <2>2. /\ \A u \in Turns : Line(u)' = Line(u)
          /\ got' = got /\ events' = events /\ hand' = hand /\ sent' = sent /\ lost' = lost
      BY <1>15, <2>1 DEF Line, ReaderEnds
    <2>3. \A u \in Turns : (Uncut(u)' => Uncut(u)) /\ (caller'[u] = "none" => caller[u] = "none")
      BY <1>15 DEF Uncut, Inv, Types, TypeOK, ReaderEnds
    <2> QED
      BY <2>2, <2>3 DEF Kept
  <1>16. ASSUME NEW t \in Turns, PumpTakes(t) PROVE Kept'
    <2>1. /\ got' = got /\ events' = events /\ sent' = sent /\ caller' = caller /\ cancel' = cancel
          /\ hand[t] = <<>> /\ inbox[t] # <<>>
      BY <1>16 DEF PumpTakes
    <2>2. /\ \A u \in Turns \ {t} : hand'[u] = hand[u] /\ lost'[u] = lost[u]
          /\ lost'[t] = IF lost[t] = "yes" THEN "told" ELSE lost[t]
          /\ hand'[t] = Append(Loss(t), Head(inbox[t]))
      BY <1>16 DEF Inv, Types, TypeOK, Framed, Queued, Told, PumpTakes
    <2>3. \A u \in Turns : \A e : Has(Line(u), e) => Has(Line(u)', e)
      <3>1. \A u \in Turns : \A e : Has(Line(u), e) => Accounted(e)
        BY DEF Lined
      <3> QED
        BY <1>16, <3>1, TakeMoves
    <2>4. lost[t] = "yes" => Marks(hand'[t])
      <3>1. Head(inbox[t]) \in Frame /\ Marker \in Frame /\ <<Marker>> \in Seq(Frame)
        BY <2>1, TailEntries, FrameFacts DEF Inv, Types, Framed, Queued
      <3>2. Marks(<<Marker>>)
        BY DEF Marks
      <3> QED
        BY <2>2, <3>1, <3>2, MarkSeq DEF Loss
    <2>5. ASSUME Uncut(t), lost[t] = "told"
          PROVE  Marks(got[t]) \/ Marks(events[t])
      <3>1. ~Marks(hand[t])
        BY <2>1 DEF Marks
      <3> QED
        BY <2>5, <3>1 DEF Kept
    <2>6. ASSUME NEW u \in Turns, Uncut(u), lost'[u] = "told"
          PROVE  Marks(got[u]) \/ Marks(events[u]) \/ Marks(hand'[u])
      BY <2>2, <2>4, <2>5, <2>6 DEF Kept
    <2>7. \A u \in Turns : (lost'[u] = "no" <=> lost[u] = "no")
      BY <2>2
    <2> QED
      BY <2>1, <2>3, <2>6, <2>7 DEF Kept, Uncut
  <1>17. ASSUME NEW t \in Turns, PumpForwards(t) PROVE Kept'
    <2>1. /\ hand[t] \in Seq(Frame) /\ hand[t] # <<>> /\ Head(hand[t]) \in Frame /\ events[t] \in Seq(Frame)
      BY <1>17, TailEntries DEF Inv, Types, Framed, Queued, PumpForwards
    <2>2. /\ got' = got /\ sent' = sent /\ caller' = caller /\ cancel' = cancel /\ lost' = lost
          /\ \A u \in Turns \ {t} : hand'[u] = hand[u] /\ events'[u] = events[u]
          /\ hand'[t] = Tail(hand[t])
          /\ ~canceled[t] => events'[t] = Append(events[t], Head(hand[t]))
      BY <1>17 DEF Inv, Types, TypeOK, Framed, Queued, PumpForwards
    <2>3. Uncut(t) => ~canceled[t]
      BY DEF Uncut, Inv, Endings, Ending
    <2>4. ASSUME NEW u \in Turns, Uncut(u), NEW e, Has(Line(u), e) PROVE Has(Line(u)', e)
      BY <1>17, <2>3, <2>4, ForwardMoves
    <2>5. ASSUME Uncut(t), Marks(events[t]) \/ Marks(hand[t])
          PROVE  Marks(events'[t]) \/ Marks(hand'[t])
      BY <2>1, <2>2, <2>3, <2>5, MarkSeq
    <2> QED
      BY <2>2, <2>4, <2>5 DEF Kept, Uncut
  <1>18. ASSUME NEW t \in Turns, PumpEnds(t) PROVE Kept'
    <2>1. /\ got' = got /\ events' = events /\ sent' = sent /\ caller' = caller /\ cancel' = cancel
          /\ hand[t] = <<>>
      BY <1>18 DEF PumpEnds
    <2>2. /\ \A u \in Turns \ {t} : hand'[u] = hand[u] /\ lost'[u] = lost[u]
          /\ lost'[t] = IF lost[t] = "yes" THEN "told" ELSE lost[t]
          /\ hand'[t] = Loss(t)
      BY <1>18 DEF Inv, Types, TypeOK, Framed, Queued, Told, PumpEnds
    <2>3. \A u \in Turns : \A e : Has(Line(u), e) => Has(Line(u)', e)
      <3>1. \A u \in Turns : \A e : Has(Line(u), e) => Accounted(e)
        BY DEF Lined
      <3> QED
        BY <1>18, <3>1, EndMoves
    <2>4. lost[t] = "yes" => Marks(hand'[t])
      BY <2>2 DEF Loss, Marks
    <2>5. ASSUME Uncut(t), lost[t] = "told"
          PROVE  Marks(got[t]) \/ Marks(events[t])
      <3>1. ~Marks(hand[t])
        BY <2>1 DEF Marks
      <3> QED
        BY <2>5, <3>1 DEF Kept
    <2>6. ASSUME NEW u \in Turns, Uncut(u), lost'[u] = "told"
          PROVE  Marks(got[u]) \/ Marks(events[u]) \/ Marks(hand'[u])
      BY <2>2, <2>4, <2>5, <2>6 DEF Kept
    <2>7. \A u \in Turns : (lost'[u] = "no" <=> lost[u] = "no")
      BY <2>2
    <2> QED
      BY <2>1, <2>3, <2>6, <2>7 DEF Kept, Uncut
  <1>19. ASSUME NEW t \in Turns, PumpCloses(t) PROVE Kept'
    <2>1. Holding' = Holding
      BY <1>19 DEF Holding, Inv, Types, Framed, ReaderSound, Readers, PumpCloses
    <2>2. /\ \A u \in Turns : Line(u)' = Line(u)
          /\ got' = got /\ events' = events /\ hand' = hand /\ sent' = sent /\ lost' = lost
      BY <1>19, <2>1 DEF Line, PumpCloses
    <2>3. \A u \in Turns : (Uncut(u)' => Uncut(u)) /\ (caller'[u] = "none" => caller[u] = "none")
      BY <1>19 DEF Uncut, Inv, Types, TypeOK, PumpCloses
    <2> QED
      BY <2>2, <2>3 DEF Kept
  <1>20. ASSUME NEW t \in Turns, PumpCanceled(t) PROVE Kept'
    <2>1. Holding' = Holding
      BY <1>20 DEF Holding, Inv, Types, Framed, ReaderSound, Readers, PumpCanceled
    <2>2. /\ \A u \in Turns : Line(u)' = Line(u)
          /\ got' = got /\ events' = events /\ hand' = hand /\ sent' = sent /\ lost' = lost
      BY <1>20, <2>1 DEF Line, PumpCanceled
    <2>3. \A u \in Turns : (Uncut(u)' => Uncut(u)) /\ (caller'[u] = "none" => caller[u] = "none")
      BY <1>20 DEF Uncut, Inv, Types, TypeOK, PumpCanceled
    <2> QED
      BY <2>2, <2>3 DEF Kept
  <1>21. ASSUME NEW t \in Turns, Receive(t) PROVE Kept'
    <2>1. /\ events[t] \in Seq(Frame) /\ events[t] # <<>> /\ Head(events[t]) \in Frame /\ got[t] \in Seq(Frame)
      BY <1>21, TailEntries DEF Inv, Types, Framed, Queued, Receive
    <2>2. /\ hand' = hand /\ sent' = sent /\ caller' = caller /\ cancel' = cancel /\ lost' = lost
          /\ \A u \in Turns \ {t} : got'[u] = got[u] /\ events'[u] = events[u]
          /\ got'[t] = Append(got[t], Head(events[t])) /\ events'[t] = Tail(events[t])
      BY <1>21 DEF Inv, Types, TypeOK, Framed, Queued, Receive
    <2>3. ASSUME NEW u \in Turns, NEW e, Has(Line(u), e) PROVE Has(Line(u)', e)
      BY <1>21, <2>3, ReceiveMoves
    <2>4. ASSUME Marks(got[t]) \/ Marks(events[t])
          PROVE  Marks(got'[t]) \/ Marks(events'[t])
      BY <2>1, <2>2, <2>4, MarkSeq
    <2> QED
      BY <2>2, <2>3, <2>4 DEF Kept, Uncut
  <1>22. ASSUME NEW t \in Turns, DrainEnds(t) PROVE Kept'
    <2>1. Holding' = Holding
      BY <1>22 DEF Holding, Inv, Types, Framed, ReaderSound, Readers, DrainEnds
    <2>2. /\ \A u \in Turns : Line(u)' = Line(u)
          /\ got' = got /\ events' = events /\ hand' = hand /\ sent' = sent /\ lost' = lost
      BY <1>22, <2>1 DEF Line, DrainEnds
    <2>3. \A u \in Turns : (Uncut(u)' => Uncut(u)) /\ (caller'[u] = "none" => caller[u] = "none")
      BY <1>22 DEF Uncut, Inv, Types, TypeOK, DrainEnds
    <2> QED
      BY <2>2, <2>3 DEF Kept
  <1>23. ASSUME NEW t \in Turns, Leave(t) PROVE Kept'
    <2>1. Holding' = Holding
      BY <1>23 DEF Holding, Inv, Types, Framed, ReaderSound, Readers, Leave
    <2>2. /\ \A u \in Turns : Line(u)' = Line(u)
          /\ got' = got /\ events' = events /\ hand' = hand /\ sent' = sent /\ lost' = lost
      BY <1>23, <2>1 DEF Line, Leave
    <2>3. \A u \in Turns : (Uncut(u)' => Uncut(u)) /\ (caller'[u] = "none" => caller[u] = "none")
      BY <1>23 DEF Uncut, Inv, Types, TypeOK, Leave
    <2> QED
      BY <2>2, <2>3 DEF Kept
  <1>24. ASSUME NEW t \in Turns, CancelFromOutside(t) PROVE Kept'
    <2>1. Holding' = Holding
      BY <1>24 DEF Holding, Inv, Types, Framed, ReaderSound, Readers, CancelFromOutside
    <2>2. /\ \A u \in Turns : Line(u)' = Line(u)
          /\ got' = got /\ events' = events /\ hand' = hand /\ sent' = sent /\ lost' = lost
      BY <1>24, <2>1 DEF Line, CancelFromOutside
    <2>3. \A u \in Turns : (Uncut(u)' => Uncut(u)) /\ (caller'[u] = "none" => caller[u] = "none")
      BY <1>24 DEF Uncut, Inv, Types, TypeOK, CancelFromOutside
    <2> QED
      BY <2>2, <2>3 DEF Kept
  <1>25. ASSUME NEW t \in Turns, CancelClaims(t) PROVE Kept'
    <2>1. Holding' = Holding
      BY <1>25 DEF Holding, Inv, Types, Framed, ReaderSound, Readers, CancelClaims
    <2>2. /\ \A u \in Turns : Line(u)' = Line(u)
          /\ got' = got /\ events' = events /\ hand' = hand /\ sent' = sent /\ lost' = lost
      BY <1>25, <2>1 DEF Line, CancelClaims
    <2>3. \A u \in Turns : (Uncut(u)' => Uncut(u)) /\ (caller'[u] = "none" => caller[u] = "none")
      BY <1>25 DEF Uncut, Inv, Types, TypeOK, CancelClaims
    <2> QED
      BY <2>2, <2>3 DEF Kept
  <1>26. ASSUME NEW t \in Turns, CancelUnroutes(t) PROVE Kept'
    <2>1. Holding' = Holding
      BY <1>26 DEF Holding, Inv, Types, Framed, ReaderSound, Readers, CancelUnroutes
    <2>2. /\ \A u \in Turns : Line(u)' = Line(u)
          /\ got' = got /\ events' = events /\ hand' = hand /\ sent' = sent /\ lost' = lost
      BY <1>26, <2>1 DEF Line, CancelUnroutes
    <2>3. \A u \in Turns : (Uncut(u)' => Uncut(u)) /\ (caller'[u] = "none" => caller[u] = "none")
      BY <1>26 DEF Uncut, Inv, Types, TypeOK, CancelUnroutes
    <2> QED
      BY <2>2, <2>3 DEF Kept
  <1>27. ASSUME NEW t \in Turns, CancelSignals(t) PROVE Kept'
    <2>1. Holding' = Holding
      BY <1>27 DEF Holding, Inv, Types, Framed, ReaderSound, Readers, CancelSignals
    <2>2. /\ \A u \in Turns : Line(u)' = Line(u)
          /\ got' = got /\ events' = events /\ hand' = hand /\ sent' = sent /\ lost' = lost
      BY <1>27, <2>1 DEF Line, CancelSignals
    <2>3. \A u \in Turns : (Uncut(u)' => Uncut(u)) /\ (caller'[u] = "none" => caller[u] = "none")
      BY <1>27 DEF Uncut, Inv, Types, TypeOK, CancelSignals
    <2> QED
      BY <2>2, <2>3 DEF Kept
  <1>28. ASSUME UNCHANGED vars PROVE Kept'
    <2>1. Holding' = Holding
      BY <1>28 DEF Holding, Inv, Types, Framed, ReaderSound, Readers, vars
    <2>2. /\ \A u \in Turns : Line(u)' = Line(u)
          /\ got' = got /\ events' = events /\ hand' = hand /\ sent' = sent /\ lost' = lost
      BY <1>28, <2>1 DEF Line, vars
    <2>3. \A u \in Turns : (Uncut(u)' => Uncut(u)) /\ (caller'[u] = "none" => caller[u] = "none")
      BY <1>28 DEF Uncut, Inv, Types, TypeOK, vars
    <2> QED
      BY <2>2, <2>3 DEF Kept
  <1> QED
    BY <1>1, <1>2, <1>3, <1>4, <1>5, <1>6, <1>7, <1>8, <1>9, <1>10, <1>11, <1>12, <1>13,
       <1>14, <1>15, <1>16, <1>17, <1>18, <1>19, <1>20, <1>21, <1>22, <1>23, <1>24,
       <1>25, <1>26, <1>27, <1>28
    DEF Next, Reader, Pump, Canceller, Consumer

(* Nothing has been asked for yet. *)
LEMMA StartsComplete == Init => Passed /\ Reached /\ Kept /\ Emptied
  <1> SUFFICES ASSUME Init PROVE Passed /\ Reached /\ Kept /\ Emptied
    OBVIOUS
  <1>1. reader.at = "idle"
    BY IdleFacts DEF Init
  <1>2. \A t \in Turns : ~Uncut(t)
    BY DEF Init, Uncut
  <1> QED
    BY <1>1, <1>2 DEF Init, Passed, Reached, Kept, Emptied

(* When the drain of a turn nobody cancelled ends, a Turn was delivered,   *)
(* and every notification the child wrote was received or its loss was     *)
(* marked (appserver.go:356-368 and 387-397), as long as no two turns      *)
(* share a thread.                                                         *)
THEOREM NothingLostUnmarked == ASSUME Alone PROVE Spec => []CompleteOrMarked
  <1> DEFINE AllInv == /\ Inv /\ Lined /\ Asked /\ Owned
                       /\ Passed /\ Reached /\ Kept /\ Emptied
  <1>1. Init => AllInv
    BY Initially, StartsInOrder, StartsComplete
  <1>2. AllInv /\ [Next]_vars => AllInv'
    <2> SUFFICES ASSUME AllInv, [Next]_vars PROVE AllInv'
      OBVIOUS
    <2>1. Inv'
      BY Inductive
    <2>2. Lined' /\ Asked' /\ Owned'
      BY <2>1, LinesEvolve, OwnedStep
    <2>3. Passed' /\ Reached'
      BY <2>1, PassedStep, ReachedStep
    <2>4. Kept' /\ Emptied'
      BY <2>1, KeptStep, EmptiedStep
    <2> QED
      BY <2>1, <2>2, <2>3, <2>4
  <1>3. AllInv => CompleteOrMarked
    <2> SUFFICES ASSUME AllInv, NEW t \in Turns, caller[t] = "ended", cancel[t] = "none"
                 PROVE  /\ result[t] # NoTurn
                        /\ Marked(t) \/ \A n \in 1 .. sent[t] :
                                          \E i \in 1 .. Len(got[t]) : got[t][i] = Event(t, n)
      BY DEF CompleteOrMarked
    <2>1. Uncut(t) /\ ~canceled[t] /\ pump[t] = "closed"
      BY DEF Uncut, Inv, Endings, Ending, PumpSound
    <2>2. sealed[t] /\ done[t] /\ result[t] # NoTurn /\ hand[t] = <<>>
      BY <2>1 DEF Inv, Endings, Ending, PumpSound
    <2>3. inbox[t] = <<>> /\ events[t] = <<>> /\ lost[t] # "yes"
      BY <2>1 DEF Emptied
    <2>4. NoEvents(pipe, t) /\ NoEvents(Holding, t)
      BY <2>1, <2>2 DEF Passed
    <2>5. CASE lost[t] = "told"
      <3>1. ~Marks(hand[t]) /\ ~Marks(events[t])
        BY <2>2, <2>3 DEF Marks
      <3>2. Marks(got[t])
        BY <2>1, <2>5, <3>1 DEF Kept
      <3> QED
        BY <2>2, <3>2 DEF Marks, Marked
    <2>6. CASE lost[t] = "no"
      <3>1. ASSUME NEW n \in 1 .. sent[t]
            PROVE  \E i \in 1 .. Len(got[t]) : got[t][i] = Event(t, n)
        <4>1. Has(Line(t), Event(t, n))
          BY <2>1, <2>6 DEF Kept
        <4>2. PICK j \in Stages : \E k \in 1 .. Len(Line(t)[j]) : Line(t)[j][k] = Event(t, n)
          BY <4>1 DEF Has, HasTo, Size
        <4>3. PICK k \in 1 .. Len(Line(t)[j]) : Line(t)[j][k] = Event(t, n)
          BY <4>2
        <4>4. /\ Line(t)[1] = got[t] /\ Line(t)[2] = <<>> /\ Line(t)[3] = <<>>
              /\ Line(t)[4] = <<>> /\ Line(t)[5] = Holding /\ Line(t)[6] = pipe
          BY <2>2, <2>3, LineTyped
        <4>5. Event(t, n).kind = "event" /\ Event(t, n).turn = t
          BY DEF Event
        <4>6. j # 5 /\ j # 6
          BY <2>4, <4>3, <4>4, <4>5 DEF NoEvents
        <4>7. j # 2 /\ j # 3 /\ j # 4
          BY <4>3, <4>4
        <4>8. j = 1
          BY <4>6, <4>7 DEF Stages
        <4> QED
          BY <4>3, <4>4, <4>8
      <3> QED
        BY <2>2, <3>1
    <2> QED
      BY <2>3, <2>5, <2>6 DEF Inv, Types, TypeOK
  <1> QED
    BY <1>1, <1>2, <1>3, PTL DEF Spec

==============================================================================
