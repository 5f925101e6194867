------------------------ MODULE BrokerLifecycleProofs ------------------------
(***************************************************************************)
(* Theorems about BrokerLifecycle, for any brokers, clients and faults.    *)
(* The files name only who has come so far as to be named; what a broker   *)
(* without rivals may count on is followed from its first look at the PID  *)
(* file to its last.                                                       *)
(***************************************************************************)
EXTENDS BrokerLifecycle, TLAPS

(* A client that has connected knows which broker serves it. *)
Connected ==
  \A c \in Clients :
    at[c] \in {"connected", "running", "answering"} => seen[c] \in Brokers

(* Once the idle callback has decided, every live task was admitted since. *)
Decided ==
  \A b \in Brokers : callback[b] = "decided" => live[b] \subseteq late[b]

(* Who can be named by a file: a broker between its publication and its    *)
(* own removal, or one that crashed in between.                            *)
AddrNamed ==
  \A b \in Brokers : addrFile = b =>
    \/ main[b] \in {"serving", "closed", "unlist"}
    \/ (main[b] = "gone" /\ b \in crashed)

PIDNamed ==
  \A b \in Brokers : pidFile.by = b =>
    \/ (main[b] = "write" /\ ~pidFile.written)
    \/ (main[b] \in Holding /\ pidFile.written)
    \/ (main[b] = "gone" /\ b \in crashed)

(* Two brokers that acquire at once are contended. *)
Apart ==
  \A b, d \in Brokers :
    b # d /\ main[b] \in Acquiring /\ main[d] \in Acquiring => b \in contended

(* What an uncontended broker can count on at each step of its acquisition *)
(* and after it: whoever is about to remove the PID file owns it, a file   *)
(* it removes is stale, and the file it created stays.                     *)
Undisturbed(b) ==
  /\ main[b] \in Acquiring \cup Holding =>
       \A d \in Brokers \ {b} : main[d] = "unpid" => OwnPID(d)
  /\ main[b] = "remove" => MayReplace(b)
  /\ main[b] = "write" => pidFile = [by |-> b, written |-> FALSE]
  /\ main[b] \in Holding =>
       /\ OwnPID(b)
       /\ \A d \in Brokers \ {b} : main[d] \notin {"write", "remove"}

Rivalry ==
  /\ Apart
  /\ \A b \in Brokers : b \notin contended => Undisturbed(b)

Inv ==
  /\ TypeOK
  /\ Connected
  /\ Decided
  /\ AddrNamed
  /\ PIDNamed
  /\ Rivalry

-----------------------------------------------------------------------------
LEMMA PhaseFacts ==
  /\ Acquiring \subseteq Phases /\ Holding \subseteq Phases /\ Acquiring \cap Holding = {}
  /\ "unborn" \in Phases /\ "gone" \in Phases
  /\ {"unborn", "gone"} \cap (Acquiring \cup Holding) = {}
  BY DEF Phases, Acquiring, Holding

LEMMA NoPIDType ==
  /\ NoPID \in [by : Brokers \cup {None, Dead}, written : BOOLEAN]
  /\ NoPID.by \notin Brokers /\ ~NoPID.written
  BY LifecycleAssumption DEF NoPID

LEMMA Initially == Init => Inv
  <1> SUFFICES ASSUME Init PROVE Inv
    OBVIOUS
  <1>1. TypeOK
    <2>1. pidFile \in [by : Brokers \cup {None, Dead}, written : BOOLEAN]
      <3>1. [by |-> Dead, written |-> TRUE] \in [by : Brokers \cup {None, Dead}, written : BOOLEAN]
        OBVIOUS
      <3>2. QED
        BY <3>1, NoPIDType DEF Init
    <2>2. main \in [Brokers -> Phases] /\ at \in [Clients -> Steps]
      BY PhaseFacts DEF Init, Steps
    <2>3. faults \in 0 .. MaxFaults
      BY LifecycleAssumption DEF Init
    <2>4. QED
      BY <2>1, <2>2, <2>3 DEF Init, TypeOK
  <1>2. Connected /\ Decided
    BY DEF Init, Connected, Decided
  <1>3. AddrNamed /\ PIDNamed
    BY LifecycleAssumption, NoPIDType DEF Init, AddrNamed, PIDNamed
  <1>4. Rivalry
    BY PhaseFacts DEF Init, Rivalry, Apart, Undisturbed, Acquiring, Holding
  <1>5. QED
    BY <1>1, <1>2, <1>3, <1>4 DEF Inv
-----------------------------------------------------------------------------
(* What the steps do to the PID file, the phases and the brokers that met  *)
(* others there: everything Rivalry depends on.                            *)
Onward(b) ==
  /\ main[b] \in Holding
  /\ \E phase \in Holding \ {"unpid"} : Go(b, phase)
  /\ UNCHANGED <<pidFile, contended>>

Leaves(b) ==
  /\ Go(b, "gone")
  /\ contended' = contended \ {b}
  /\ \/ pidFile' = pidFile
     \/ pidFile' = NoPID /\ main[b] \in {"write", "unpid"}

Inspects(b) ==
  /\ main[b] = "inspect" /\ MayReplace(b) /\ Go(b, "remove")
  /\ UNCHANGED <<pidFile, contended>>

Unpids(b) ==
  /\ main[b] = "release" /\ OwnPID(b) /\ Go(b, "unpid")
  /\ UNCHANGED <<pidFile, contended>>

LEMMA Moves ==
  ASSUME NEW b \in Brokers
  PROVE  /\ Publish(b) \/ FailStart(b) \/ CloseListener(b) \/ ReadOwnAddr(b)
            \/ RemoveOwnAddr(b) \/ TornDown(b) => Onward(b)
         /\ FailWritePID(b) \/ RemoveOwnPID(b) \/ Crash(b) => Leaves(b)
         /\ ReadPID(b) => Inspects(b) \/ Leaves(b)
         /\ ReleasePID(b) => Unpids(b) \/ Leaves(b)
  <1>1. Publish(b) \/ CloseListener(b) \/ ReadOwnAddr(b) \/ RemoveOwnAddr(b) \/ TornDown(b)
           => Onward(b)
    BY DEF Publish, CloseListener, ReadOwnAddr, RemoveOwnAddr, TornDown, Onward, Holding,
           files, histories
  <1>2. FailStart(b) => Onward(b)
    BY DEF FailStart, Onward, Holding, files, histories
  <1>3. FailWritePID(b) \/ RemoveOwnPID(b) \/ Crash(b) => Leaves(b)
    BY DEF FailWritePID, RemoveOwnPID, Crash, Vanish, Leaves, files
  <1>4. ReadPID(b) => Inspects(b) \/ Leaves(b)
    BY DEF ReadPID, Vanish, Inspects, Leaves, files
  <1>5. ReleasePID(b) => Unpids(b) \/ Leaves(b)
    BY DEF ReleasePID, Vanish, Unpids, Leaves, files
  <1>6. QED
    BY <1>1, <1>2, <1>3, <1>4, <1>5

LEMMA OnwardKeeps ==
  ASSUME Inv, NEW e \in Brokers, Onward(e)
  PROVE  Rivalry'
  <1>1. /\ pidFile' = pidFile /\ contended' = contended /\ main[e] \in Holding
        /\ main'[e] \in Holding \ {"unpid"} /\ \A d \in Brokers \ {e} : main'[d] = main[d]
    BY PhaseFacts DEF Onward, Go, Inv, TypeOK
  <1>2. Apart'
    BY <1>1, PhaseFacts DEF Inv, Rivalry, Apart
  <1>3. ASSUME NEW b \in Brokers, b \notin contended PROVE Undisturbed(b)'
    <2>1. Undisturbed(b)
      BY <1>3 DEF Inv, Rivalry
    <2>2. MayReplace(b) => MayReplace(b)'
      BY <1>1 DEF MayReplace, ProcessLive, Holding
    <2>3. QED
      BY <1>1, <2>1, <2>2 DEF Undisturbed, OwnPID, Acquiring, Holding
  <1>4. QED
    BY <1>1, <1>2, <1>3 DEF Rivalry

LEMMA LeavesKeeps ==
  ASSUME Inv, NEW e \in Brokers, main[e] \in Acquiring \cup Holding, Leaves(e)
  PROVE  Rivalry'
  <1>1. /\ contended' = contended \ {e}
        /\ main'[e] = "gone" /\ \A d \in Brokers \ {e} : main'[d] = main[d]
    BY PhaseFacts DEF Leaves, Go, Inv, TypeOK
  <1>2. Apart'
    BY <1>1 DEF Inv, Rivalry, Apart, Acquiring
  <1>3. ASSUME NEW b \in Brokers, b \notin contended' PROVE Undisturbed(b)'
    <2>1. CASE b = e
      BY <2>1, <1>1 DEF Undisturbed, Acquiring, Holding
    <2>2. CASE b # e
      <3>1. Undisturbed(b) /\ b \notin contended /\ main'[b] = main[b]
        BY <1>1, <1>3, <2>2 DEF Inv, Rivalry
      <3>2. CASE pidFile' = pidFile
        <4>1. MayReplace(b) => MayReplace(b)'
          BY <1>1, <3>2 DEF MayReplace, ProcessLive
        <4>2. QED
          BY <1>1, <3>1, <3>2, <4>1 DEF Undisturbed, OwnPID
      <3>3. CASE pidFile' = NoPID /\ main[e] = "unpid"
        <4>1. MayReplace(b)'
          BY <3>3, NoPIDType DEF MayReplace
        <4>2. main[b] \in Acquiring \cup Holding => OwnPID(e)
          BY <3>1, <3>3, <2>2 DEF Undisturbed
        <4>3. main[b] \in Holding => OwnPID(b)
          BY <3>1 DEF Undisturbed
        <4>4. main[b] = "write" => pidFile.by = b
          BY <3>1 DEF Undisturbed
        <4>5. main[b] \notin Holding /\ main[b] # "write"
          BY <4>2, <4>3, <4>4, <2>2 DEF OwnPID, Acquiring
        <4>6. main[b] \in Acquiring => \A d \in Brokers \ {b, e} : main[d] # "unpid"
          BY <4>2, <3>1 DEF Undisturbed, OwnPID
        <4>7. QED
          BY <1>1, <3>1, <4>1, <4>5, <4>6 DEF Undisturbed
      <3>4. CASE pidFile' = NoPID /\ main[e] = "write"
        <4>1. main[b] \notin Acquiring /\ main[b] \notin Holding
          BY <3>1, <3>4, <2>2 DEF Inv, Rivalry, Apart, Undisturbed, Acquiring
        <4>2. QED
          BY <3>1, <4>1 DEF Undisturbed, Acquiring
      <3>5. QED
        BY <3>2, <3>3, <3>4 DEF Leaves
    <2>3. QED
      BY <2>1, <2>2
  <1>4. QED
    BY <1>2, <1>3 DEF Rivalry

LEMMA InspectsKeeps ==
  ASSUME Inv, NEW e \in Brokers, Inspects(e)
  PROVE  Rivalry'
  <1>1. /\ pidFile' = pidFile /\ contended' = contended /\ main[e] = "inspect"
        /\ main'[e] = "remove" /\ \A d \in Brokers \ {e} : main'[d] = main[d]
        /\ MayReplace(e)
    BY PhaseFacts DEF Inspects, Go, Inv, TypeOK
  <1>2. Apart'
    BY <1>1 DEF Inv, Rivalry, Apart, Acquiring
  <1>3. ASSUME NEW b \in Brokers, b \notin contended PROVE Undisturbed(b)'
    <2>1. Undisturbed(b)
      BY <1>3 DEF Inv, Rivalry
    <2>2. MayReplace(b) => MayReplace(b)'
      BY <1>1 DEF MayReplace, ProcessLive
    <2>3. CASE b = e
      BY <1>1, <2>1, <2>2, <2>3 DEF Undisturbed, OwnPID, Acquiring, Holding, MayReplace
    <2>4. CASE b # e
      <3>1. main[b] \notin Holding
        BY <1>1, <2>1 DEF Undisturbed, OwnPID, MayReplace, ProcessLive, Holding
      <3>2. QED
        BY <1>1, <2>1, <2>2, <2>4, <3>1 DEF Undisturbed, OwnPID
    <2>5. QED
      BY <2>3, <2>4
  <1>4. QED
    BY <1>1, <1>2, <1>3 DEF Rivalry

LEMMA UnpidsKeeps ==
  ASSUME Inv, NEW e \in Brokers, Unpids(e)
  PROVE  Rivalry'
  <1>1. /\ pidFile' = pidFile /\ contended' = contended /\ main[e] = "release"
        /\ main'[e] = "unpid" /\ \A d \in Brokers \ {e} : main'[d] = main[d]
        /\ OwnPID(e)
    BY PhaseFacts DEF Unpids, Go, Inv, TypeOK
  <1>2. Apart'
    BY <1>1 DEF Inv, Rivalry, Apart, Acquiring
  <1>3. ASSUME NEW b \in Brokers, b \notin contended PROVE Undisturbed(b)'
    <2>1. Undisturbed(b)
      BY <1>3 DEF Inv, Rivalry
    <2>2. MayReplace(b) => MayReplace(b)'
      BY <1>1 DEF MayReplace, ProcessLive
    <2>3. QED
      BY <1>1, <2>1, <2>2 DEF Undisturbed, OwnPID, Acquiring, Holding
  <1>4. QED
    BY <1>1, <1>2, <1>3 DEF Rivalry

(* Of the brokers that acquire, an uncontended one is alone. *)
LEMMA Alone ==
  ASSUME Inv, NEW e \in Brokers, main[e] \in Acquiring, NEW b \in Brokers \ {e},
         b \notin contended
  PROVE  main[b] \notin Acquiring
  BY DEF Inv, Rivalry, Apart

LEMMA CreatePIDKeeps ==
  ASSUME Inv, NEW e \in Brokers, CreatePID(e)
  PROVE  Rivalry'
  <1>1. /\ contended' = contended /\ main[e] = "open" /\ \A d \in Brokers \ {e} : main'[d] = main[d]
        /\ \/ pidFile = NoPID /\ pidFile' = [by |-> e, written |-> FALSE] /\ main'[e] = "write"
           \/ pidFile # NoPID /\ pidFile' = pidFile /\ main'[e] = "inspect"
    BY PhaseFacts DEF CreatePID, Go, Inv, TypeOK, histories
  <1>2. Apart'
    BY <1>1 DEF Inv, Rivalry, Apart, Acquiring
  <1>3. ASSUME NEW b \in Brokers, b \notin contended PROVE Undisturbed(b)'
    <2>1. Undisturbed(b)
      BY <1>3 DEF Inv, Rivalry
    <2>2. CASE b = e
      BY <1>1, <2>1, <2>2, NoPIDType DEF Undisturbed, OwnPID, Acquiring, Holding
    <2>3. CASE b # e
      <3>1. main[b] \notin Acquiring /\ main'[b] = main[b]
        BY <1>1, <1>3, <2>3, Alone DEF Acquiring
      <3>2. main[b] \in Holding => pidFile # NoPID
        BY <2>1, NoPIDType DEF Undisturbed, OwnPID
      <3>3. QED
        BY <1>1, <2>1, <2>3, <3>1, <3>2 DEF Undisturbed, OwnPID, Acquiring
    <2>4. QED
      BY <2>2, <2>3
  <1>4. QED
    BY <1>1, <1>2, <1>3 DEF Rivalry

LEMMA WritePIDKeeps ==
  ASSUME Inv, NEW e \in Brokers, WritePID(e)
  PROVE  Rivalry'
  <1>1. /\ contended' = contended /\ main[e] = "write" /\ main'[e] = "held"
        /\ \A d \in Brokers \ {e} : main'[d] = main[d]
        /\ pidFile' = IF pidFile.by = e THEN [pidFile EXCEPT !.written = TRUE] ELSE pidFile
    BY PhaseFacts DEF WritePID, Go, Inv, TypeOK, histories, Phases, Holding
  <1>2. Apart'
    BY <1>1 DEF Inv, Rivalry, Apart, Acquiring
  <1>3. ASSUME NEW b \in Brokers, b \notin contended PROVE Undisturbed(b)'
    <2>1. Undisturbed(b)
      BY <1>3 DEF Inv, Rivalry
    <2>2. CASE b = e
      <3>1. pidFile = [by |-> e, written |-> FALSE]
        BY <1>1, <2>1, <2>2 DEF Undisturbed
      <3>2. pidFile' = [by |-> e, written |-> TRUE]
        BY <1>1, <3>1
      <3>3. \A d \in Brokers \ {e} : main[d] \notin Acquiring /\ main[d] # "unpid"
        BY <1>1, <1>3, <2>1, <2>2, <3>1 DEF Inv, Rivalry, Apart, Undisturbed, OwnPID, Acquiring
      <3>4. QED
        BY <1>1, <2>2, <3>2, <3>3 DEF Undisturbed, OwnPID, Acquiring, Holding
    <2>3. CASE b # e
      <3>1. main[b] \notin Acquiring /\ main'[b] = main[b]
        BY <1>1, <1>3, <2>3, Alone DEF Acquiring
      <3>2. main[b] \notin Holding
        BY <1>1, <2>1, <2>3 DEF Undisturbed
      <3>3. QED
        BY <3>1, <3>2 DEF Undisturbed, Acquiring
    <2>4. QED
      BY <2>2, <2>3
  <1>4. QED
    BY <1>1, <1>2, <1>3 DEF Rivalry

LEMMA RemovePIDKeeps ==
  ASSUME Inv, NEW e \in Brokers, RemovePID(e)
  PROVE  Rivalry'
  <1>1. /\ contended' = contended /\ main[e] = "remove" /\ main'[e] = "open"
        /\ \A d \in Brokers \ {e} : main'[d] = main[d]
        /\ pidFile' = NoPID
    BY PhaseFacts DEF RemovePID, Go, Inv, TypeOK, histories, Phases, Acquiring
  <1>2. Apart'
    BY <1>1 DEF Inv, Rivalry, Apart, Acquiring
  <1>3. ASSUME NEW b \in Brokers, b \notin contended PROVE Undisturbed(b)'
    <2>1. Undisturbed(b)
      BY <1>3 DEF Inv, Rivalry
    <2>2. CASE b = e
      <3>1. MayReplace(e) /\ \A d \in Brokers \ {e} : main[d] = "unpid" => OwnPID(d)
        BY <1>1, <2>1, <2>2 DEF Undisturbed, Acquiring
      <3>2. \A d \in Brokers \ {e} : main[d] # "unpid"
        BY <3>1 DEF MayReplace, ProcessLive, OwnPID
      <3>3. QED
        BY <1>1, <2>2, <3>2 DEF Undisturbed, Acquiring, Holding
    <2>3. CASE b # e
      <3>1. main[b] \notin Acquiring /\ main'[b] = main[b]
        BY <1>1, <1>3, <2>3, Alone DEF Acquiring
      <3>2. main[b] \notin Holding
        BY <1>1, <2>1, <2>3 DEF Undisturbed
      <3>3. QED
        BY <3>1, <3>2 DEF Undisturbed, Acquiring
    <2>4. QED
      BY <2>2, <2>3
  <1>4. QED
    BY <1>1, <1>2, <1>3 DEF Rivalry

LEMMA LaunchKeeps ==
  ASSUME Inv, NEW e \in Brokers, Launch(e)
  PROVE  Rivalry'
  <1>1. /\ main[e] = "unborn" /\ main'[e] = "open"
        /\ \A d \in Brokers \ {e} : main'[d] = main[d]
        /\ pidFile' = pidFile
        /\ \A b \in Brokers : b \notin contended' => b \notin contended
        /\ \A d \in Brokers : AtPIDFile(d) => d \in contended' /\ e \in contended'
    BY PhaseFacts DEF Launch, Go, Inv, TypeOK, files, Phases, Acquiring
  <1>2. Apart'
    <2> SUFFICES ASSUME NEW b \in Brokers, NEW d \in Brokers, b # d,
                        main'[b] \in Acquiring, main'[d] \in Acquiring
                 PROVE  b \in contended'
      BY DEF Apart
    <2>1. CASE b = e
      BY <1>1, <2>1 DEF AtPIDFile
    <2>2. CASE b # e
      BY <1>1, <2>2 DEF AtPIDFile
    <2>3. QED
      BY <2>1, <2>2
  <1>3. ASSUME NEW b \in Brokers, b \notin contended' PROVE Undisturbed(b)'
    <2>1. Undisturbed(b)
      BY <1>1, <1>3 DEF Inv, Rivalry
    <2>2. CASE b = e
      <3>1. \A d \in Brokers : main[d] = "unpid" => OwnPID(d)
        BY <1>1, <1>3, <2>2 DEF AtPIDFile
      <3>2. QED
        BY <1>1, <2>2, <3>1 DEF Undisturbed, OwnPID, Acquiring, Holding
    <2>3. CASE b # e
      <3>1. main[b] \notin Acquiring /\ main'[b] = main[b]
        BY <1>1, <1>3, <2>3 DEF AtPIDFile
      <3>2. QED
        BY <1>1, <2>1, <2>3, <3>1 DEF Undisturbed, OwnPID, Acquiring
    <2>4. QED
      BY <2>2, <2>3
  <1>4. QED
    BY <1>2, <1>3 DEF Rivalry
-----------------------------------------------------------------------------
(* Types. *)
LEMMA StepType == TypeOK /\ Connected /\ [Next]_vars => TypeOK'
  <1> SUFFICES ASSUME TypeOK, Connected, [Next]_vars PROVE TypeOK'
    OBVIOUS
  <1>1. ASSUME NEW b \in Brokers, CreatePID(b) PROVE TypeOK'
    <2>1. pidFile' \in [by : Brokers \cup {None, Dead}, written : BOOLEAN]
      <3>1. [by |-> b, written |-> FALSE] \in [by : Brokers \cup {None, Dead}, written : BOOLEAN]
        OBVIOUS
      <3>2. QED
        BY <1>1, <3>1 DEF CreatePID, TypeOK
    <2>2. main' \in [Brokers -> Phases]
      BY <1>1 DEF CreatePID, TypeOK, Go, Phases, Acquiring
    <2>3. QED
      BY <1>1, <2>1, <2>2 DEF CreatePID, TypeOK, timer, clients, histories
  <1>2. ASSUME NEW b \in Brokers, WritePID(b) PROVE TypeOK'
    BY <1>2, NoPIDType, LifecycleAssumption DEF TypeOK, Phases, Acquiring, Holding, Steps, WritePID, Go, Step, files, process, timer, clients, histories
  <1>3. ASSUME NEW b \in Brokers, FailWritePID(b) PROVE TypeOK'
    BY <1>3, NoPIDType, LifecycleAssumption DEF TypeOK, Phases, Acquiring, Holding, Steps, FailWritePID, Fault, Vanish, Go, Step, files, process, timer, clients, histories
  <1>4. ASSUME NEW b \in Brokers, ReadPID(b) PROVE TypeOK'
    <2>1. CASE Vanish(b)
      BY <1>4, <2>1 DEF TypeOK, Phases, ReadPID, Vanish, Go, files, clients
    <2>2. CASE ~Vanish(b)
      BY <1>4, <2>2, PhaseFacts DEF TypeOK, ReadPID, Phases, Acquiring, Holding, Go, files, clients, timer
    <2>3. QED
      BY <2>1, <2>2
  <1>5. ASSUME NEW b \in Brokers, RemovePID(b) PROVE TypeOK'
    BY <1>5, NoPIDType, LifecycleAssumption DEF TypeOK, Phases, Acquiring, Holding, Steps, RemovePID, Go, Step, files, process, timer, clients, histories
  <1>6. ASSUME NEW b \in Brokers, Publish(b) PROVE TypeOK'
    BY <1>6, NoPIDType, LifecycleAssumption DEF TypeOK, Phases, Acquiring, Holding, Steps, Publish, Go, Step, files, process, timer, clients, histories
  <1>7. ASSUME NEW b \in Brokers, FailStart(b) PROVE TypeOK'
    BY <1>7, NoPIDType, LifecycleAssumption DEF TypeOK, Phases, Acquiring, Holding, Steps, FailStart, Fault, Go, Step, files, process, timer, clients, histories
  <1>8. ASSUME NEW b \in Brokers, Stop(b) PROVE TypeOK'
    BY <1>8, NoPIDType, LifecycleAssumption DEF TypeOK, Phases, Acquiring, Holding, Steps, Stop, Go, Step, files, process, timer, clients, histories
  <1>9. ASSUME NEW b \in Brokers, IdleFires(b) PROVE TypeOK'
    BY <1>9, NoPIDType, LifecycleAssumption DEF TypeOK, Phases, Acquiring, Holding, Steps, IdleFires, Go, Step, files, process, timer, clients, histories
  <1>10. ASSUME NEW b \in Brokers, IdleChecks(b) PROVE TypeOK'
    <2>1. armed' \in [Brokers -> BOOLEAN]
      <3>1. CASE Busy(b)
        <4>1. armed' = [armed EXCEPT ![b] = TRUE]
          BY <1>10, <3>1 DEF IdleChecks, Reset, Restarted
        <4>2. QED
          BY <4>1, Zenon DEF TypeOK
      <3>2. CASE ~Busy(b)
        BY <1>10, <3>2 DEF IdleChecks, TypeOK
      <3>3. QED
        BY <3>1, <3>2
    <2>2. callback' \in [Brokers -> {"none", "fired", "decided"}]
      BY <1>10 DEF IdleChecks, TypeOK
    <2>3. QED
      BY <1>10, <2>1, <2>2 DEF IdleChecks, TypeOK, files, process, clients, histories
  <1>11. ASSUME NEW b \in Brokers, IdleStops(b) PROVE TypeOK'
    BY <1>11, NoPIDType, LifecycleAssumption DEF TypeOK, Phases, Acquiring, Holding, Steps, IdleStops, Go, Step, files, process, timer, clients, histories
  <1>12. ASSUME NEW b \in Brokers, Tear(b) PROVE TypeOK'
    BY <1>12, NoPIDType, LifecycleAssumption DEF TypeOK, Phases, Acquiring, Holding, Steps, Tear, Go, Step, files, process, timer, clients, histories
  <1>13. ASSUME NEW b \in Brokers, CloseListener(b) PROVE TypeOK'
    BY <1>13, NoPIDType, LifecycleAssumption DEF TypeOK, Phases, Acquiring, Holding, Steps, CloseListener, Go, Step, files, process, timer, clients, histories
  <1>14. ASSUME NEW b \in Brokers, ReadOwnAddr(b) PROVE TypeOK'
    BY <1>14, NoPIDType, LifecycleAssumption DEF TypeOK, Phases, Acquiring, Holding, Steps, ReadOwnAddr, Go, Step, files, process, timer, clients, histories
  <1>15. ASSUME NEW b \in Brokers, RemoveOwnAddr(b) PROVE TypeOK'
    BY <1>15, NoPIDType, LifecycleAssumption DEF TypeOK, Phases, Acquiring, Holding, Steps, RemoveOwnAddr, Go, Step, files, process, timer, clients, histories
  <1>16. ASSUME NEW b \in Brokers, TornDown(b) PROVE TypeOK'
    BY <1>16, NoPIDType, LifecycleAssumption DEF TypeOK, Phases, Acquiring, Holding, Steps, TornDown, Go, Step, files, process, timer, clients, histories
  <1>17. ASSUME NEW b \in Brokers, ReleasePID(b) PROVE TypeOK'
    <2>1. CASE Vanish(b)
      BY <1>17, <2>1 DEF TypeOK, Phases, ReleasePID, Vanish, Go, files, clients
    <2>2. CASE ~Vanish(b)
      BY <1>17, <2>2, PhaseFacts DEF TypeOK, ReleasePID, Phases, Acquiring, Holding, Go, files, clients, timer
    <2>3. QED
      BY <2>1, <2>2
  <1>18. ASSUME NEW b \in Brokers, RemoveOwnPID(b) PROVE TypeOK'
    BY <1>18, NoPIDType, LifecycleAssumption DEF TypeOK, Phases, Acquiring, Holding, Steps, RemoveOwnPID, Vanish, Go, Step, files, process, timer, clients, histories
  <1>19. ASSUME NEW b \in Brokers, Crash(b) PROVE TypeOK'
    BY <1>19, NoPIDType, LifecycleAssumption DEF TypeOK, Phases, Acquiring, Holding, Steps, Crash, Fault, Vanish, ProcessLive, Go, Step, files, process, timer, clients, histories
  <1>20. ASSUME NEW b \in Brokers, LaunchByHand(b) PROVE TypeOK'
    BY <1>20, NoPIDType, LifecycleAssumption DEF TypeOK, Phases, Acquiring, Holding, Steps, LaunchByHand, Launch, Go, Step, files, process, timer, clients, histories
  <1>21. ASSUME NEW c \in Clients, ReadAddr(c) PROVE TypeOK'
    BY <1>21, NoPIDType, LifecycleAssumption DEF TypeOK, Phases, Acquiring, Holding, Steps, ReadAddr, Go, Step, files, process, timer, clients, histories
  <1>22. ASSUME NEW c \in Clients, PingAnswered(c) PROVE TypeOK'
    BY <1>22, NoPIDType, LifecycleAssumption DEF TypeOK, Phases, Acquiring, Holding, Steps, PingAnswered, Leave, Reset, Restarted, Serving, Go, Step, files, process, timer, clients, histories
  <1>23. ASSUME NEW c \in Clients, PingUnanswered(c) PROVE TypeOK'
    BY <1>23, NoPIDType, LifecycleAssumption DEF TypeOK, Phases, Acquiring, Holding, Steps, PingUnanswered, Leave, Go, Step, files, process, timer, clients, histories
  <1>24. ASSUME NEW c \in Clients, RemoveAddr(c) PROVE TypeOK'
    BY <1>24, NoPIDType, LifecycleAssumption DEF TypeOK, Phases, Acquiring, Holding, Steps, RemoveAddr, Go, Step, files, process, timer, clients, histories
  <1>25. ASSUME NEW c \in Clients, Spawn(c) PROVE TypeOK'
    BY <1>25, NoPIDType, LifecycleAssumption DEF TypeOK, Phases, Acquiring, Holding, Steps, Spawn, Launch, Go, Step, files, process, timer, clients, histories
  <1>26. ASSUME NEW c \in Clients, PollAddr(c) PROVE TypeOK'
    BY <1>26, NoPIDType, LifecycleAssumption DEF TypeOK, Phases, Acquiring, Holding, Steps, PollAddr, Go, Step, files, process, timer, clients, histories
  <1>27. ASSUME NEW c \in Clients, GiveUp(c) PROVE TypeOK'
    BY <1>27, NoPIDType, LifecycleAssumption DEF TypeOK, Phases, Acquiring, Holding, Steps, GiveUp, Go, Step, files, process, timer, clients, histories
  <1>28. ASSUME NEW c \in Clients, RereadAddr(c) PROVE TypeOK'
    BY <1>28, NoPIDType, LifecycleAssumption DEF TypeOK, Phases, Acquiring, Holding, Steps, RereadAddr, Go, Step, files, process, timer, clients, histories
  <1>29. ASSUME NEW c \in Clients, Connect(c) PROVE TypeOK'
    BY <1>29, NoPIDType, LifecycleAssumption DEF TypeOK, Phases, Acquiring, Holding, Steps, Connect, Leave, Serving, Go, Step, files, process, timer, clients, histories
  <1>30. ASSUME NEW c \in Clients, Admit(c) PROVE TypeOK'
    <2>1. seen[c] \in Brokers
      BY <1>30 DEF Admit, Connected
    <2>2. PICK s : s = seen[c]
      OBVIOUS
    <2>3. /\ live' = [live EXCEPT ![s] = @ \cup {c}]
          /\ late' = late \/ late' = [late EXCEPT ![s] = @ \cup {c}]
          /\ armed' = [armed EXCEPT ![s] = TRUE]
      BY <1>30, <2>2 DEF Admit, Reset, Restarted
    <2>4. live' \in [Brokers -> SUBSET Clients] /\ late' \in [Brokers -> SUBSET Clients]
      BY <2>1, <2>2, <2>3 DEF TypeOK
    <2>5. armed' \in [Brokers -> BOOLEAN]
      BY <2>3, Zenon DEF TypeOK
    <2>6. at' \in [Clients -> Steps] /\ seen' \in [Clients -> Brokers \cup {None, Dead, Legacy}]
      BY <1>30 DEF Admit, TypeOK, Step, Leave, Steps
    <2>7. QED
      BY <1>30, <2>4, <2>5, <2>6 DEF Admit, TypeOK, files, process
  <1>31. ASSUME NEW c \in Clients, Answered(c) PROVE TypeOK'
    BY <1>31, NoPIDType, LifecycleAssumption DEF TypeOK, Phases, Acquiring, Holding, Steps, Answered, Leave, Go, Step, files, process, timer, clients, histories
  <1>32. ASSUME NEW c \in Clients, Severed(c) PROVE TypeOK'
    BY <1>32, NoPIDType, LifecycleAssumption DEF TypeOK, Phases, Acquiring, Holding, Steps, Severed, Leave, Go, Step, files, process, timer, clients, histories
  <1>33. ASSUME NEW b \in Brokers, NEW c \in Clients, EndTask(b, c) PROVE TypeOK'
    BY <1>33, NoPIDType, LifecycleAssumption DEF TypeOK, Phases, Acquiring, Holding, Steps, EndTask, Reset, Restarted, Go, Step, files, process, timer, clients, histories
  <1>34. CASE UNCHANGED vars
    BY <1>34 DEF TypeOK, Phases, Acquiring, Holding, Steps, vars, files, process, timer, clients, histories
  <1>35. QED
    BY <1>1, <1>2, <1>3, <1>4, <1>5, <1>6, <1>7, <1>8, <1>9, <1>10, <1>11, <1>12, <1>13, <1>14, <1>15, <1>16, <1>17, <1>18, <1>19, <1>20, <1>21, <1>22, <1>23, <1>24, <1>25, <1>26, <1>27, <1>28, <1>29, <1>30, <1>31, <1>32, <1>33, <1>34
    DEF Next, BrokerStep, ClientStep, Acquires, Shuts

LEMMA StepConnected == TypeOK /\ Connected /\ [Next]_vars => Connected'
  <1> SUFFICES ASSUME TypeOK, Connected, [Next]_vars PROVE Connected'
    OBVIOUS
  <1>1. ASSUME NEW b \in Brokers, CreatePID(b) PROVE Connected'
    BY <1>1 DEF TypeOK, Connected, CreatePID, Go, Step, files, process, timer, clients, histories
  <1>2. ASSUME NEW b \in Brokers, WritePID(b) PROVE Connected'
    BY <1>2 DEF TypeOK, Connected, WritePID, Go, Step, files, process, timer, clients, histories
  <1>3. ASSUME NEW b \in Brokers, FailWritePID(b) PROVE Connected'
    BY <1>3 DEF TypeOK, Connected, FailWritePID, Fault, Vanish, Go, Step, files, process, timer, clients, histories
  <1>4. ASSUME NEW b \in Brokers, ReadPID(b) PROVE Connected'
    BY <1>4 DEF TypeOK, Connected, ReadPID, Vanish, Go, Step, files, process, timer, clients, histories
  <1>5. ASSUME NEW b \in Brokers, RemovePID(b) PROVE Connected'
    BY <1>5 DEF TypeOK, Connected, RemovePID, Go, Step, files, process, timer, clients, histories
  <1>6. ASSUME NEW b \in Brokers, Publish(b) PROVE Connected'
    BY <1>6 DEF TypeOK, Connected, Publish, Go, Step, files, process, timer, clients, histories
  <1>7. ASSUME NEW b \in Brokers, FailStart(b) PROVE Connected'
    BY <1>7 DEF TypeOK, Connected, FailStart, Fault, Go, Step, files, process, timer, clients, histories
  <1>8. ASSUME NEW b \in Brokers, Stop(b) PROVE Connected'
    BY <1>8 DEF TypeOK, Connected, Stop, Go, Step, files, process, timer, clients, histories
  <1>9. ASSUME NEW b \in Brokers, IdleFires(b) PROVE Connected'
    BY <1>9 DEF TypeOK, Connected, IdleFires, Go, Step, files, process, timer, clients, histories
  <1>10. ASSUME NEW b \in Brokers, IdleChecks(b) PROVE Connected'
    BY <1>10 DEF TypeOK, Connected, IdleChecks, Reset, Restarted, Go, Step, files, process, timer, clients, histories
  <1>11. ASSUME NEW b \in Brokers, IdleStops(b) PROVE Connected'
    BY <1>11 DEF TypeOK, Connected, IdleStops, Go, Step, files, process, timer, clients, histories
  <1>12. ASSUME NEW b \in Brokers, Tear(b) PROVE Connected'
    BY <1>12 DEF TypeOK, Connected, Tear, Go, Step, files, process, timer, clients, histories
  <1>13. ASSUME NEW b \in Brokers, CloseListener(b) PROVE Connected'
    BY <1>13 DEF TypeOK, Connected, CloseListener, Go, Step, files, process, timer, clients, histories
  <1>14. ASSUME NEW b \in Brokers, ReadOwnAddr(b) PROVE Connected'
    BY <1>14 DEF TypeOK, Connected, ReadOwnAddr, Go, Step, files, process, timer, clients, histories
  <1>15. ASSUME NEW b \in Brokers, RemoveOwnAddr(b) PROVE Connected'
    BY <1>15 DEF TypeOK, Connected, RemoveOwnAddr, Go, Step, files, process, timer, clients, histories
  <1>16. ASSUME NEW b \in Brokers, TornDown(b) PROVE Connected'
    BY <1>16 DEF TypeOK, Connected, TornDown, Go, Step, files, process, timer, clients, histories
  <1>17. ASSUME NEW b \in Brokers, ReleasePID(b) PROVE Connected'
    BY <1>17 DEF TypeOK, Connected, ReleasePID, Vanish, Go, Step, files, process, timer, clients, histories
  <1>18. ASSUME NEW b \in Brokers, RemoveOwnPID(b) PROVE Connected'
    BY <1>18 DEF TypeOK, Connected, RemoveOwnPID, Vanish, Go, Step, files, process, timer, clients, histories
  <1>19. ASSUME NEW b \in Brokers, Crash(b) PROVE Connected'
    BY <1>19 DEF TypeOK, Connected, Crash, Fault, Vanish, ProcessLive, Go, Step, files, process, timer, clients, histories
  <1>20. ASSUME NEW b \in Brokers, LaunchByHand(b) PROVE Connected'
    BY <1>20 DEF TypeOK, Connected, LaunchByHand, Launch, Go, Step, files, process, timer, clients, histories
  <1>21. ASSUME NEW c \in Clients, ReadAddr(c) PROVE Connected'
    BY <1>21 DEF TypeOK, Connected, ReadAddr, Go, Step, files, process, timer, clients, histories
  <1>22. ASSUME NEW c \in Clients, PingAnswered(c) PROVE Connected'
    BY <1>22 DEF TypeOK, Connected, PingAnswered, Leave, Reset, Restarted, Serving, Go, Step, files, process, timer, clients, histories
  <1>23. ASSUME NEW c \in Clients, PingUnanswered(c) PROVE Connected'
    BY <1>23 DEF TypeOK, Connected, PingUnanswered, Leave, Go, Step, files, process, timer, clients, histories
  <1>24. ASSUME NEW c \in Clients, RemoveAddr(c) PROVE Connected'
    BY <1>24 DEF TypeOK, Connected, RemoveAddr, Go, Step, files, process, timer, clients, histories
  <1>25. ASSUME NEW c \in Clients, Spawn(c) PROVE Connected'
    BY <1>25 DEF TypeOK, Connected, Spawn, Launch, Go, Step, files, process, timer, clients, histories
  <1>26. ASSUME NEW c \in Clients, PollAddr(c) PROVE Connected'
    BY <1>26 DEF TypeOK, Connected, PollAddr, Go, Step, files, process, timer, clients, histories
  <1>27. ASSUME NEW c \in Clients, GiveUp(c) PROVE Connected'
    BY <1>27 DEF TypeOK, Connected, GiveUp, Go, Step, files, process, timer, clients, histories
  <1>28. ASSUME NEW c \in Clients, RereadAddr(c) PROVE Connected'
    BY <1>28 DEF TypeOK, Connected, RereadAddr, Go, Step, files, process, timer, clients, histories
  <1>29. ASSUME NEW c \in Clients, Connect(c) PROVE Connected'
    BY <1>29 DEF TypeOK, Connected, Connect, Leave, Serving, Go, Step, files, process, timer, clients, histories
  <1>30. ASSUME NEW c \in Clients, Admit(c) PROVE Connected'
    BY <1>30 DEF TypeOK, Connected, Admit, Leave, Reset, Restarted, Go, Step, files, process, timer, clients, histories
  <1>31. ASSUME NEW c \in Clients, Answered(c) PROVE Connected'
    BY <1>31 DEF TypeOK, Connected, Answered, Leave, Go, Step, files, process, timer, clients, histories
  <1>32. ASSUME NEW c \in Clients, Severed(c) PROVE Connected'
    BY <1>32 DEF TypeOK, Connected, Severed, Leave, Go, Step, files, process, timer, clients, histories
  <1>33. ASSUME NEW b \in Brokers, NEW c \in Clients, EndTask(b, c) PROVE Connected'
    BY <1>33 DEF TypeOK, Connected, EndTask, Reset, Restarted, Go, Step, files, process, timer, clients, histories
  <1>34. CASE UNCHANGED vars
    BY <1>34 DEF TypeOK, Connected, vars, files, process, timer, clients, histories
  <1>35. QED
    BY <1>1, <1>2, <1>3, <1>4, <1>5, <1>6, <1>7, <1>8, <1>9, <1>10, <1>11, <1>12, <1>13, <1>14, <1>15, <1>16, <1>17, <1>18, <1>19, <1>20, <1>21, <1>22, <1>23, <1>24, <1>25, <1>26, <1>27, <1>28, <1>29, <1>30, <1>31, <1>32, <1>33, <1>34
    DEF Next, BrokerStep, ClientStep, Acquires, Shuts

LEMMA StepDecided == TypeOK /\ Decided /\ [Next]_vars => Decided'
  <1> SUFFICES ASSUME TypeOK, Decided, [Next]_vars PROVE Decided'
    OBVIOUS
  <1>1. ASSUME NEW b \in Brokers, CreatePID(b) PROVE Decided'
    BY <1>1 DEF TypeOK, Decided, CreatePID, Go, Step, files, process, timer, clients, histories
  <1>2. ASSUME NEW b \in Brokers, WritePID(b) PROVE Decided'
    BY <1>2 DEF TypeOK, Decided, WritePID, Go, Step, files, process, timer, clients, histories
  <1>3. ASSUME NEW b \in Brokers, FailWritePID(b) PROVE Decided'
    BY <1>3 DEF TypeOK, Decided, FailWritePID, Fault, Vanish, Go, Step, files, process, timer, clients, histories
  <1>4. ASSUME NEW b \in Brokers, ReadPID(b) PROVE Decided'
    BY <1>4 DEF TypeOK, Decided, ReadPID, Vanish, Go, Step, files, process, timer, clients, histories
  <1>5. ASSUME NEW b \in Brokers, RemovePID(b) PROVE Decided'
    BY <1>5 DEF TypeOK, Decided, RemovePID, Go, Step, files, process, timer, clients, histories
  <1>6. ASSUME NEW b \in Brokers, Publish(b) PROVE Decided'
    BY <1>6 DEF TypeOK, Decided, Publish, Go, Step, files, process, timer, clients, histories
  <1>7. ASSUME NEW b \in Brokers, FailStart(b) PROVE Decided'
    BY <1>7 DEF TypeOK, Decided, FailStart, Fault, Go, Step, files, process, timer, clients, histories
  <1>8. ASSUME NEW b \in Brokers, Stop(b) PROVE Decided'
    BY <1>8 DEF TypeOK, Decided, Stop, Go, Step, files, process, timer, clients, histories
  <1>9. ASSUME NEW b \in Brokers, IdleFires(b) PROVE Decided'
    BY <1>9 DEF TypeOK, Decided, IdleFires, Go, Step, files, process, timer, clients, histories
  <1>10. ASSUME NEW b \in Brokers, IdleChecks(b) PROVE Decided'
    <2>1. late' = late /\ live' = live
      BY <1>10 DEF IdleChecks, histories
    <2>2. \A d \in Brokers \ {b} : callback'[d] = callback[d]
      BY <1>10 DEF IdleChecks, TypeOK
    <2>3. callback'[b] = "decided" => live[b] = {}
      BY <1>10 DEF IdleChecks, TypeOK, Busy
    <2>4. QED
      BY <2>1, <2>2, <2>3 DEF Decided
  <1>11. ASSUME NEW b \in Brokers, IdleStops(b) PROVE Decided'
    BY <1>11 DEF TypeOK, Decided, IdleStops, Go, Step, files, process, timer, clients, histories
  <1>12. ASSUME NEW b \in Brokers, Tear(b) PROVE Decided'
    BY <1>12 DEF TypeOK, Decided, Tear, Go, Step, files, process, timer, clients, histories
  <1>13. ASSUME NEW b \in Brokers, CloseListener(b) PROVE Decided'
    BY <1>13 DEF TypeOK, Decided, CloseListener, Go, Step, files, process, timer, clients, histories
  <1>14. ASSUME NEW b \in Brokers, ReadOwnAddr(b) PROVE Decided'
    BY <1>14 DEF TypeOK, Decided, ReadOwnAddr, Go, Step, files, process, timer, clients, histories
  <1>15. ASSUME NEW b \in Brokers, RemoveOwnAddr(b) PROVE Decided'
    BY <1>15 DEF TypeOK, Decided, RemoveOwnAddr, Go, Step, files, process, timer, clients, histories
  <1>16. ASSUME NEW b \in Brokers, TornDown(b) PROVE Decided'
    BY <1>16 DEF TypeOK, Decided, TornDown, Go, Step, files, process, timer, clients, histories
  <1>17. ASSUME NEW b \in Brokers, ReleasePID(b) PROVE Decided'
    BY <1>17 DEF TypeOK, Decided, ReleasePID, Vanish, Go, Step, files, process, timer, clients, histories
  <1>18. ASSUME NEW b \in Brokers, RemoveOwnPID(b) PROVE Decided'
    BY <1>18 DEF TypeOK, Decided, RemoveOwnPID, Vanish, Go, Step, files, process, timer, clients, histories
  <1>19. ASSUME NEW b \in Brokers, Crash(b) PROVE Decided'
    BY <1>19 DEF TypeOK, Decided, Crash, Fault, Vanish, ProcessLive, Go, Step, files, process, timer, clients, histories
  <1>20. ASSUME NEW b \in Brokers, LaunchByHand(b) PROVE Decided'
    BY <1>20 DEF TypeOK, Decided, LaunchByHand, Launch, Go, Step, files, process, timer, clients, histories
  <1>21. ASSUME NEW c \in Clients, ReadAddr(c) PROVE Decided'
    BY <1>21 DEF TypeOK, Decided, ReadAddr, Go, Step, files, process, timer, clients, histories
  <1>22. ASSUME NEW c \in Clients, PingAnswered(c) PROVE Decided'
    BY <1>22 DEF TypeOK, Decided, PingAnswered, Leave, Reset, Restarted, Serving, Go, Step, files, process, timer, clients, histories
  <1>23. ASSUME NEW c \in Clients, PingUnanswered(c) PROVE Decided'
    BY <1>23 DEF TypeOK, Decided, PingUnanswered, Leave, Go, Step, files, process, timer, clients, histories
  <1>24. ASSUME NEW c \in Clients, RemoveAddr(c) PROVE Decided'
    BY <1>24 DEF TypeOK, Decided, RemoveAddr, Go, Step, files, process, timer, clients, histories
  <1>25. ASSUME NEW c \in Clients, Spawn(c) PROVE Decided'
    BY <1>25 DEF TypeOK, Decided, Spawn, Launch, Go, Step, files, process, timer, clients, histories
  <1>26. ASSUME NEW c \in Clients, PollAddr(c) PROVE Decided'
    BY <1>26 DEF TypeOK, Decided, PollAddr, Go, Step, files, process, timer, clients, histories
  <1>27. ASSUME NEW c \in Clients, GiveUp(c) PROVE Decided'
    BY <1>27 DEF TypeOK, Decided, GiveUp, Go, Step, files, process, timer, clients, histories
  <1>28. ASSUME NEW c \in Clients, RereadAddr(c) PROVE Decided'
    BY <1>28 DEF TypeOK, Decided, RereadAddr, Go, Step, files, process, timer, clients, histories
  <1>29. ASSUME NEW c \in Clients, Connect(c) PROVE Decided'
    BY <1>29 DEF TypeOK, Decided, Connect, Leave, Serving, Go, Step, files, process, timer, clients, histories
  <1>30. ASSUME NEW c \in Clients, Admit(c) PROVE Decided'
    BY <1>30 DEF TypeOK, Decided, Admit, Leave, Reset, Restarted, Go, Step, files, process, timer, clients, histories
  <1>31. ASSUME NEW c \in Clients, Answered(c) PROVE Decided'
    BY <1>31 DEF TypeOK, Decided, Answered, Leave, Go, Step, files, process, timer, clients, histories
  <1>32. ASSUME NEW c \in Clients, Severed(c) PROVE Decided'
    BY <1>32 DEF TypeOK, Decided, Severed, Leave, Go, Step, files, process, timer, clients, histories
  <1>33. ASSUME NEW b \in Brokers, NEW c \in Clients, EndTask(b, c) PROVE Decided'
    BY <1>33 DEF TypeOK, Decided, EndTask, Reset, Restarted, Go, Step, files, process, timer, clients, histories
  <1>34. CASE UNCHANGED vars
    BY <1>34 DEF TypeOK, Decided, vars, files, process, timer, clients, histories
  <1>35. QED
    BY <1>1, <1>2, <1>3, <1>4, <1>5, <1>6, <1>7, <1>8, <1>9, <1>10, <1>11, <1>12, <1>13, <1>14, <1>15, <1>16, <1>17, <1>18, <1>19, <1>20, <1>21, <1>22, <1>23, <1>24, <1>25, <1>26, <1>27, <1>28, <1>29, <1>30, <1>31, <1>32, <1>33, <1>34
    DEF Next, BrokerStep, ClientStep, Acquires, Shuts

LEMMA StepAddr == TypeOK /\ AddrNamed /\ [Next]_vars => AddrNamed'
  <1> SUFFICES ASSUME TypeOK, AddrNamed, [Next]_vars PROVE AddrNamed'
    OBVIOUS
  <1>1. ASSUME NEW b \in Brokers, CreatePID(b) PROVE AddrNamed'
    BY <1>1, LifecycleAssumption DEF TypeOK, AddrNamed, Holding, Acquiring, CreatePID, Go, Step, files, process, timer, clients, histories
  <1>2. ASSUME NEW b \in Brokers, WritePID(b) PROVE AddrNamed'
    BY <1>2, LifecycleAssumption DEF TypeOK, AddrNamed, Holding, Acquiring, WritePID, Go, Step, files, process, timer, clients, histories
  <1>3. ASSUME NEW b \in Brokers, FailWritePID(b) PROVE AddrNamed'
    BY <1>3, LifecycleAssumption DEF TypeOK, AddrNamed, Holding, Acquiring, FailWritePID, Fault, Vanish, Go, Step, files, process, timer, clients, histories
  <1>4. ASSUME NEW b \in Brokers, ReadPID(b) PROVE AddrNamed'
    BY <1>4, LifecycleAssumption DEF TypeOK, AddrNamed, Holding, Acquiring, ReadPID, Vanish, Go, Step, files, process, timer, clients, histories
  <1>5. ASSUME NEW b \in Brokers, RemovePID(b) PROVE AddrNamed'
    BY <1>5, LifecycleAssumption DEF TypeOK, AddrNamed, Holding, Acquiring, RemovePID, Go, Step, files, process, timer, clients, histories
  <1>6. ASSUME NEW b \in Brokers, Publish(b) PROVE AddrNamed'
    BY <1>6, LifecycleAssumption DEF TypeOK, AddrNamed, Holding, Acquiring, Publish, Go, Step, files, process, timer, clients, histories
  <1>7. ASSUME NEW b \in Brokers, FailStart(b) PROVE AddrNamed'
    BY <1>7, LifecycleAssumption DEF TypeOK, AddrNamed, Holding, Acquiring, FailStart, Fault, Go, Step, files, process, timer, clients, histories
  <1>8. ASSUME NEW b \in Brokers, Stop(b) PROVE AddrNamed'
    BY <1>8, LifecycleAssumption DEF TypeOK, AddrNamed, Holding, Acquiring, Stop, Go, Step, files, process, timer, clients, histories
  <1>9. ASSUME NEW b \in Brokers, IdleFires(b) PROVE AddrNamed'
    BY <1>9, LifecycleAssumption DEF TypeOK, AddrNamed, Holding, Acquiring, IdleFires, Go, Step, files, process, timer, clients, histories
  <1>10. ASSUME NEW b \in Brokers, IdleChecks(b) PROVE AddrNamed'
    BY <1>10, LifecycleAssumption DEF TypeOK, AddrNamed, Holding, Acquiring, IdleChecks, Reset, Restarted, Go, Step, files, process, timer, clients, histories
  <1>11. ASSUME NEW b \in Brokers, IdleStops(b) PROVE AddrNamed'
    BY <1>11, LifecycleAssumption DEF TypeOK, AddrNamed, Holding, Acquiring, IdleStops, Go, Step, files, process, timer, clients, histories
  <1>12. ASSUME NEW b \in Brokers, Tear(b) PROVE AddrNamed'
    BY <1>12, LifecycleAssumption DEF TypeOK, AddrNamed, Holding, Acquiring, Tear, Go, Step, files, process, timer, clients, histories
  <1>13. ASSUME NEW b \in Brokers, CloseListener(b) PROVE AddrNamed'
    BY <1>13, LifecycleAssumption DEF TypeOK, AddrNamed, Holding, Acquiring, CloseListener, Go, Step, files, process, timer, clients, histories
  <1>14. ASSUME NEW b \in Brokers, ReadOwnAddr(b) PROVE AddrNamed'
    BY <1>14, LifecycleAssumption DEF TypeOK, AddrNamed, Holding, Acquiring, ReadOwnAddr, Go, Step, files, process, timer, clients, histories
  <1>15. ASSUME NEW b \in Brokers, RemoveOwnAddr(b) PROVE AddrNamed'
    BY <1>15, LifecycleAssumption DEF TypeOK, AddrNamed, Holding, Acquiring, RemoveOwnAddr, Go, Step, files, process, timer, clients, histories
  <1>16. ASSUME NEW b \in Brokers, TornDown(b) PROVE AddrNamed'
    BY <1>16, LifecycleAssumption DEF TypeOK, AddrNamed, Holding, Acquiring, TornDown, Go, Step, files, process, timer, clients, histories
  <1>17. ASSUME NEW b \in Brokers, ReleasePID(b) PROVE AddrNamed'
    BY <1>17, LifecycleAssumption DEF TypeOK, AddrNamed, Holding, Acquiring, ReleasePID, Vanish, Go, Step, files, process, timer, clients, histories
  <1>18. ASSUME NEW b \in Brokers, RemoveOwnPID(b) PROVE AddrNamed'
    BY <1>18, LifecycleAssumption DEF TypeOK, AddrNamed, Holding, Acquiring, RemoveOwnPID, Vanish, Go, Step, files, process, timer, clients, histories
  <1>19. ASSUME NEW b \in Brokers, Crash(b) PROVE AddrNamed'
    BY <1>19, LifecycleAssumption DEF TypeOK, AddrNamed, Holding, Acquiring, Crash, Fault, Vanish, ProcessLive, Go, Step, files, process, timer, clients, histories
  <1>20. ASSUME NEW b \in Brokers, LaunchByHand(b) PROVE AddrNamed'
    BY <1>20, LifecycleAssumption DEF TypeOK, AddrNamed, Holding, Acquiring, LaunchByHand, Launch, Go, Step, files, process, timer, clients, histories
  <1>21. ASSUME NEW c \in Clients, ReadAddr(c) PROVE AddrNamed'
    BY <1>21, LifecycleAssumption DEF TypeOK, AddrNamed, Holding, Acquiring, ReadAddr, Go, Step, files, process, timer, clients, histories
  <1>22. ASSUME NEW c \in Clients, PingAnswered(c) PROVE AddrNamed'
    BY <1>22, LifecycleAssumption DEF TypeOK, AddrNamed, Holding, Acquiring, PingAnswered, Leave, Reset, Restarted, Serving, Go, Step, files, process, timer, clients, histories
  <1>23. ASSUME NEW c \in Clients, PingUnanswered(c) PROVE AddrNamed'
    BY <1>23, LifecycleAssumption DEF TypeOK, AddrNamed, Holding, Acquiring, PingUnanswered, Leave, Go, Step, files, process, timer, clients, histories
  <1>24. ASSUME NEW c \in Clients, RemoveAddr(c) PROVE AddrNamed'
    BY <1>24, LifecycleAssumption DEF TypeOK, AddrNamed, Holding, Acquiring, RemoveAddr, Go, Step, files, process, timer, clients, histories
  <1>25. ASSUME NEW c \in Clients, Spawn(c) PROVE AddrNamed'
    BY <1>25, LifecycleAssumption DEF TypeOK, AddrNamed, Holding, Acquiring, Spawn, Launch, Go, Step, files, process, timer, clients, histories
  <1>26. ASSUME NEW c \in Clients, PollAddr(c) PROVE AddrNamed'
    BY <1>26, LifecycleAssumption DEF TypeOK, AddrNamed, Holding, Acquiring, PollAddr, Go, Step, files, process, timer, clients, histories
  <1>27. ASSUME NEW c \in Clients, GiveUp(c) PROVE AddrNamed'
    BY <1>27, LifecycleAssumption DEF TypeOK, AddrNamed, Holding, Acquiring, GiveUp, Go, Step, files, process, timer, clients, histories
  <1>28. ASSUME NEW c \in Clients, RereadAddr(c) PROVE AddrNamed'
    BY <1>28, LifecycleAssumption DEF TypeOK, AddrNamed, Holding, Acquiring, RereadAddr, Go, Step, files, process, timer, clients, histories
  <1>29. ASSUME NEW c \in Clients, Connect(c) PROVE AddrNamed'
    BY <1>29, LifecycleAssumption DEF TypeOK, AddrNamed, Holding, Acquiring, Connect, Leave, Serving, Go, Step, files, process, timer, clients, histories
  <1>30. ASSUME NEW c \in Clients, Admit(c) PROVE AddrNamed'
    BY <1>30, LifecycleAssumption DEF TypeOK, AddrNamed, Holding, Acquiring, Admit, Leave, Reset, Restarted, Go, Step, files, process, timer, clients, histories
  <1>31. ASSUME NEW c \in Clients, Answered(c) PROVE AddrNamed'
    BY <1>31, LifecycleAssumption DEF TypeOK, AddrNamed, Holding, Acquiring, Answered, Leave, Go, Step, files, process, timer, clients, histories
  <1>32. ASSUME NEW c \in Clients, Severed(c) PROVE AddrNamed'
    BY <1>32, LifecycleAssumption DEF TypeOK, AddrNamed, Holding, Acquiring, Severed, Leave, Go, Step, files, process, timer, clients, histories
  <1>33. ASSUME NEW b \in Brokers, NEW c \in Clients, EndTask(b, c) PROVE AddrNamed'
    BY <1>33, LifecycleAssumption DEF TypeOK, AddrNamed, Holding, Acquiring, EndTask, Reset, Restarted, Go, Step, files, process, timer, clients, histories
  <1>34. CASE UNCHANGED vars
    BY <1>34 DEF TypeOK, AddrNamed, Holding, Acquiring, vars, files, process, timer, clients, histories
  <1>35. QED
    BY <1>1, <1>2, <1>3, <1>4, <1>5, <1>6, <1>7, <1>8, <1>9, <1>10, <1>11, <1>12, <1>13, <1>14, <1>15, <1>16, <1>17, <1>18, <1>19, <1>20, <1>21, <1>22, <1>23, <1>24, <1>25, <1>26, <1>27, <1>28, <1>29, <1>30, <1>31, <1>32, <1>33, <1>34
    DEF Next, BrokerStep, ClientStep, Acquires, Shuts

LEMMA StepPID == TypeOK /\ PIDNamed /\ [Next]_vars => PIDNamed'
  <1> SUFFICES ASSUME TypeOK, PIDNamed, [Next]_vars PROVE PIDNamed'
    OBVIOUS
  <1>1. ASSUME NEW b \in Brokers, CreatePID(b) PROVE PIDNamed'
    BY <1>1, NoPIDType DEF TypeOK, PIDNamed, Holding, Acquiring, CreatePID, Go, Step, files, process, timer, clients, histories
  <1>2. ASSUME NEW b \in Brokers, WritePID(b) PROVE PIDNamed'
    BY <1>2, NoPIDType DEF TypeOK, PIDNamed, Holding, Acquiring, WritePID, Go, Step, files, process, timer, clients, histories
  <1>3. ASSUME NEW b \in Brokers, FailWritePID(b) PROVE PIDNamed'
    BY <1>3, NoPIDType DEF TypeOK, PIDNamed, Holding, Acquiring, FailWritePID, Fault, Vanish, Go, Step, files, process, timer, clients, histories
  <1>4. ASSUME NEW b \in Brokers, ReadPID(b) PROVE PIDNamed'
    BY <1>4, NoPIDType DEF TypeOK, PIDNamed, Holding, Acquiring, ReadPID, Vanish, Go, Step, files, process, timer, clients, histories
  <1>5. ASSUME NEW b \in Brokers, RemovePID(b) PROVE PIDNamed'
    BY <1>5, NoPIDType DEF TypeOK, PIDNamed, Holding, Acquiring, RemovePID, Go, Step, files, process, timer, clients, histories
  <1>6. ASSUME NEW b \in Brokers, Publish(b) PROVE PIDNamed'
    BY <1>6, NoPIDType DEF TypeOK, PIDNamed, Holding, Acquiring, Publish, Go, Step, files, process, timer, clients, histories
  <1>7. ASSUME NEW b \in Brokers, FailStart(b) PROVE PIDNamed'
    BY <1>7, NoPIDType DEF TypeOK, PIDNamed, Holding, Acquiring, FailStart, Fault, Go, Step, files, process, timer, clients, histories
  <1>8. ASSUME NEW b \in Brokers, Stop(b) PROVE PIDNamed'
    BY <1>8, NoPIDType DEF TypeOK, PIDNamed, Holding, Acquiring, Stop, Go, Step, files, process, timer, clients, histories
  <1>9. ASSUME NEW b \in Brokers, IdleFires(b) PROVE PIDNamed'
    BY <1>9, NoPIDType DEF TypeOK, PIDNamed, Holding, Acquiring, IdleFires, Go, Step, files, process, timer, clients, histories
  <1>10. ASSUME NEW b \in Brokers, IdleChecks(b) PROVE PIDNamed'
    BY <1>10, NoPIDType DEF TypeOK, PIDNamed, Holding, Acquiring, IdleChecks, Reset, Restarted, Go, Step, files, process, timer, clients, histories
  <1>11. ASSUME NEW b \in Brokers, IdleStops(b) PROVE PIDNamed'
    BY <1>11, NoPIDType DEF TypeOK, PIDNamed, Holding, Acquiring, IdleStops, Go, Step, files, process, timer, clients, histories
  <1>12. ASSUME NEW b \in Brokers, Tear(b) PROVE PIDNamed'
    BY <1>12, NoPIDType DEF TypeOK, PIDNamed, Holding, Acquiring, Tear, Go, Step, files, process, timer, clients, histories
  <1>13. ASSUME NEW b \in Brokers, CloseListener(b) PROVE PIDNamed'
    BY <1>13, NoPIDType DEF TypeOK, PIDNamed, Holding, Acquiring, CloseListener, Go, Step, files, process, timer, clients, histories
  <1>14. ASSUME NEW b \in Brokers, ReadOwnAddr(b) PROVE PIDNamed'
    BY <1>14, NoPIDType DEF TypeOK, PIDNamed, Holding, Acquiring, ReadOwnAddr, Go, Step, files, process, timer, clients, histories
  <1>15. ASSUME NEW b \in Brokers, RemoveOwnAddr(b) PROVE PIDNamed'
    BY <1>15, NoPIDType DEF TypeOK, PIDNamed, Holding, Acquiring, RemoveOwnAddr, Go, Step, files, process, timer, clients, histories
  <1>16. ASSUME NEW b \in Brokers, TornDown(b) PROVE PIDNamed'
    BY <1>16, NoPIDType DEF TypeOK, PIDNamed, Holding, Acquiring, TornDown, Go, Step, files, process, timer, clients, histories
  <1>17. ASSUME NEW b \in Brokers, ReleasePID(b) PROVE PIDNamed'
    <2>1. pidFile' = pidFile /\ crashed' = crashed /\ main[b] = "release"
      BY <1>17 DEF ReleasePID, files
    <2>2. /\ main'[b] = IF OwnPID(b) THEN "unpid" ELSE "gone"
          /\ \A d \in Brokers \ {b} : main'[d] = main[d]
      BY <1>17 DEF ReleasePID, Vanish, Go, TypeOK
    <2>3. pidFile.by = b => OwnPID(b)
      BY <2>1 DEF PIDNamed, OwnPID, TypeOK, Holding
    <2>4. QED
      BY <2>1, <2>2, <2>3 DEF PIDNamed, Holding
  <1>18. ASSUME NEW b \in Brokers, RemoveOwnPID(b) PROVE PIDNamed'
    BY <1>18, NoPIDType DEF TypeOK, PIDNamed, Holding, Acquiring, RemoveOwnPID, Vanish, Go, Step, files, process, timer, clients, histories
  <1>19. ASSUME NEW b \in Brokers, Crash(b) PROVE PIDNamed'
    BY <1>19, NoPIDType DEF TypeOK, PIDNamed, Holding, Acquiring, Crash, Fault, Vanish, ProcessLive, Go, Step, files, process, timer, clients, histories
  <1>20. ASSUME NEW b \in Brokers, LaunchByHand(b) PROVE PIDNamed'
    BY <1>20, NoPIDType DEF TypeOK, PIDNamed, Holding, Acquiring, LaunchByHand, Launch, Go, Step, files, process, timer, clients, histories
  <1>21. ASSUME NEW c \in Clients, ReadAddr(c) PROVE PIDNamed'
    BY <1>21, NoPIDType DEF TypeOK, PIDNamed, Holding, Acquiring, ReadAddr, Go, Step, files, process, timer, clients, histories
  <1>22. ASSUME NEW c \in Clients, PingAnswered(c) PROVE PIDNamed'
    BY <1>22, NoPIDType DEF TypeOK, PIDNamed, Holding, Acquiring, PingAnswered, Leave, Reset, Restarted, Serving, Go, Step, files, process, timer, clients, histories
  <1>23. ASSUME NEW c \in Clients, PingUnanswered(c) PROVE PIDNamed'
    BY <1>23, NoPIDType DEF TypeOK, PIDNamed, Holding, Acquiring, PingUnanswered, Leave, Go, Step, files, process, timer, clients, histories
  <1>24. ASSUME NEW c \in Clients, RemoveAddr(c) PROVE PIDNamed'
    BY <1>24, NoPIDType DEF TypeOK, PIDNamed, Holding, Acquiring, RemoveAddr, Go, Step, files, process, timer, clients, histories
  <1>25. ASSUME NEW c \in Clients, Spawn(c) PROVE PIDNamed'
    BY <1>25, NoPIDType DEF TypeOK, PIDNamed, Holding, Acquiring, Spawn, Launch, Go, Step, files, process, timer, clients, histories
  <1>26. ASSUME NEW c \in Clients, PollAddr(c) PROVE PIDNamed'
    BY <1>26, NoPIDType DEF TypeOK, PIDNamed, Holding, Acquiring, PollAddr, Go, Step, files, process, timer, clients, histories
  <1>27. ASSUME NEW c \in Clients, GiveUp(c) PROVE PIDNamed'
    BY <1>27, NoPIDType DEF TypeOK, PIDNamed, Holding, Acquiring, GiveUp, Go, Step, files, process, timer, clients, histories
  <1>28. ASSUME NEW c \in Clients, RereadAddr(c) PROVE PIDNamed'
    BY <1>28, NoPIDType DEF TypeOK, PIDNamed, Holding, Acquiring, RereadAddr, Go, Step, files, process, timer, clients, histories
  <1>29. ASSUME NEW c \in Clients, Connect(c) PROVE PIDNamed'
    BY <1>29, NoPIDType DEF TypeOK, PIDNamed, Holding, Acquiring, Connect, Leave, Serving, Go, Step, files, process, timer, clients, histories
  <1>30. ASSUME NEW c \in Clients, Admit(c) PROVE PIDNamed'
    BY <1>30, NoPIDType DEF TypeOK, PIDNamed, Holding, Acquiring, Admit, Leave, Reset, Restarted, Go, Step, files, process, timer, clients, histories
  <1>31. ASSUME NEW c \in Clients, Answered(c) PROVE PIDNamed'
    BY <1>31, NoPIDType DEF TypeOK, PIDNamed, Holding, Acquiring, Answered, Leave, Go, Step, files, process, timer, clients, histories
  <1>32. ASSUME NEW c \in Clients, Severed(c) PROVE PIDNamed'
    BY <1>32, NoPIDType DEF TypeOK, PIDNamed, Holding, Acquiring, Severed, Leave, Go, Step, files, process, timer, clients, histories
  <1>33. ASSUME NEW b \in Brokers, NEW c \in Clients, EndTask(b, c) PROVE PIDNamed'
    BY <1>33, NoPIDType DEF TypeOK, PIDNamed, Holding, Acquiring, EndTask, Reset, Restarted, Go, Step, files, process, timer, clients, histories
  <1>34. CASE UNCHANGED vars
    BY <1>34 DEF TypeOK, PIDNamed, Holding, Acquiring, vars, files, process, timer, clients, histories
  <1>35. QED
    BY <1>1, <1>2, <1>3, <1>4, <1>5, <1>6, <1>7, <1>8, <1>9, <1>10, <1>11, <1>12, <1>13, <1>14, <1>15, <1>16, <1>17, <1>18, <1>19, <1>20, <1>21, <1>22, <1>23, <1>24, <1>25, <1>26, <1>27, <1>28, <1>29, <1>30, <1>31, <1>32, <1>33, <1>34
    DEF Next, BrokerStep, ClientStep, Acquires, Shuts

-----------------------------------------------------------------------------
LEMMA StepRivalry == Inv /\ [Next]_vars => Rivalry'
  <1> SUFFICES ASSUME Inv, [Next]_vars PROVE Rivalry'
    OBVIOUS
  <1>1. ASSUME UNCHANGED <<pidFile, main, contended>> PROVE Rivalry'
    BY <1>1 DEF Inv, Rivalry, Apart, Undisturbed, OwnPID, MayReplace, ProcessLive
  <1>2. ASSUME NEW b \in Brokers, LaunchByHand(b) PROVE Rivalry'
    BY <1>2, LaunchKeeps DEF LaunchByHand
  <1>3. ASSUME NEW b \in Brokers, Acquires(b) PROVE Rivalry'
    <2>1. ReadPID(b) \/ FailWritePID(b) => main[b] \in Acquiring
      BY DEF ReadPID, FailWritePID, Acquiring
    <2>2. QED
      BY <1>3, <2>1, Moves, CreatePIDKeeps, WritePIDKeeps, InspectsKeeps, LeavesKeeps,
         RemovePIDKeeps DEF Acquires
  <1>4. ASSUME NEW b \in Brokers, Publish(b) \/ FailStart(b) PROVE Rivalry'
    BY <1>4, Moves, OnwardKeeps
  <1>5. ASSUME NEW b \in Brokers, Stop(b) PROVE Rivalry'
    BY <1>1, <1>5 DEF Stop, files, histories
  <1>6. ASSUME NEW b \in Brokers, Shuts(b) PROVE Rivalry'
    <2>1. CASE IdleFires(b) \/ IdleChecks(b) \/ IdleStops(b) \/ Tear(b)
      BY <1>1, <2>1 DEF IdleFires, IdleChecks, IdleStops, Tear, files, process, histories
    <2>2. CASE CloseListener(b) \/ ReadOwnAddr(b) \/ RemoveOwnAddr(b) \/ TornDown(b)
      BY <2>2, Moves, OnwardKeeps
    <2>3. CASE ReleasePID(b) \/ RemoveOwnPID(b)
      <3>1. main[b] \in Holding
        BY <2>3 DEF ReleasePID, RemoveOwnPID, Holding
      <3>2. QED
        BY <2>3, <3>1, Moves, UnpidsKeeps, LeavesKeeps
    <2>4. QED
      BY <1>6, <2>1, <2>2, <2>3 DEF Shuts
  <1>7. ASSUME NEW b \in Brokers, Crash(b) PROVE Rivalry'
    <2>1. main[b] \in Acquiring \cup Holding
      BY <1>7 DEF Crash, ProcessLive, Inv, TypeOK, Phases
    <2>2. QED
      BY <1>7, <2>1, Moves, LeavesKeeps
  <1>8. ASSUME NEW c \in Clients, Spawn(c) PROVE Rivalry'
    BY <1>8, LaunchKeeps DEF Spawn
  <1>9. ASSUME NEW c \in Clients, ClientStep(c), ~Spawn(c) PROVE Rivalry'
    BY <1>1, <1>9 DEF ClientStep, ReadAddr, PingAnswered, PingUnanswered, RemoveAddr,
       PollAddr, GiveUp, RereadAddr, Connect, Admit, Answered, Severed, files, process, histories
  <1>10. ASSUME NEW b \in Brokers, NEW c \in Clients, EndTask(b, c) PROVE Rivalry'
    BY <1>1, <1>10 DEF EndTask, files, process, histories
  <1>11. CASE UNCHANGED vars
    BY <1>1, <1>11 DEF vars, files, process, histories
  <1>12. QED
    BY <1>2, <1>3, <1>4, <1>5, <1>6, <1>7, <1>8, <1>9, <1>10, <1>11 DEF Next, BrokerStep

LEMMA Invariance == Spec => []Inv
  <1>1. Inv /\ [Next]_vars => Inv'
    BY StepType, StepConnected, StepDecided, StepAddr, StepPID, StepRivalry DEF Inv
  <1>2. QED
    BY <1>1, Initially, PTL DEF Spec

-----------------------------------------------------------------------------
(* With any number of brokers started by any number of clients, signals,   *)
(* crashes and failed writes at any step: a broker that came to the PID    *)
(* file alone has it until it releases it, and nobody uncontended holds it *)
(* besides (lifecycle.go:24-57).                                           *)
THEOREM PIDFileIsSound == Spec => []PIDFileSound
  <1>1. Inv => PIDFileSound
    <2> SUFFICES ASSUME Inv PROVE TypeOK /\ UncontendedKeepsPID
      BY DEF PIDFileSound
    <2>1. \A b \in Brokers : main[b] \in Holding /\ b \notin contended => OwnPID(b)
      BY DEF Inv, Rivalry, Undisturbed
    <2>2. \A b, d \in Brokers : OwnPID(b) /\ OwnPID(d) => b = d
      BY DEF OwnPID
    <2>3. QED
      BY <2>1, <2>2 DEF UncontendedKeepsPID, OwnPID, Inv
  <1>2. QED
    BY <1>1, Invariance, PTL

(* A broker that ended by itself is named by neither file: only a crash    *)
(* leaves one behind (server.go:118-126, lifecycle.go:53-57).              *)
THEOREM FilesAreCleanedUp == Spec => []FilesOutlivedOnlyByCrash
  <1>1. Inv => FilesOutlivedOnlyByCrash
    BY DEF Inv, AddrNamed, PIDNamed, FilesOutlivedOnlyByCrash, Holding
  <1>2. QED
    BY <1>1, Invariance, PTL

(* The idle timer ends no task it could have seen: whatever is live when   *)
(* its callback cancels the serve context was admitted after it looked     *)
(* (broker.go:109-117).                                                    *)
THEOREM IdleSparesSeenTasks == Spec => IdleCutsOnlyLateTasks
  <1>1. Inv => [\A b \in Brokers : IdleStops(b) /\ ~cancelled[b] => live[b] \subseteq late[b]]_vars
    BY DEF Inv, Decided, IdleStops
  <1>2. QED
    BY <1>1, Invariance, PTL DEF IdleCutsOnlyLateTasks

=============================================================================
