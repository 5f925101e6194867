-------------------------- MODULE AppServerPoolProofs --------------------------
(***************************************************************************)
(* Theorems about AppServerPool, for any runs, instances and answers of    *)
(* codex.  The safety of replacing an instance rests on what appserverMu   *)
(* protects: an instance is greeted by one run, which alone knows it, and  *)
(* is known to the others only from the pool.                              *)
(***************************************************************************)
EXTENDS AppServerPool, TLAPS

(* A run knows an instance exactly while it has a call or a turn there. *)
Known == \A r \in Runs : on[r] \in Instances <=> at[r] \in Calling \cup {"initreap"}

(* Nothing knows an instance that was never started. *)
Unborn ==
  \A i \in Instances : child[i] = "none" =>
    turns[i] = {} /\ reaper[i] = "none" /\ pool # i /\ \A r \in Runs : on[r] # i

(* Only the holder of appserverMu greets an instance or reaps one it could *)
(* not greet, while the pool is empty.                                     *)
OneGreets == \A r \in Runs : at[r] \in {"init", "initreap"} => lock = r
Greeted ==
  lock # None =>
    /\ pool = None
    /\ at[lock] \in {"init", "initreap"}
    /\ turns[on[lock]] = {}
    /\ \A r \in Runs \ {lock} : on[r] # on[lock]

(* A reader returns only at the end of its child's stdout. *)
ReaderOutlives == \A i \in Instances : reader[i] \in {"failed", "done"} => child[i] # "up"

(* A reaper comes to a live child from a shutdown, or from a failed        *)
(* handshake.                                                              *)
ReapedAlive ==
  \A i \in Instances : child[i] = "up" /\ reaper[i] # "none" =>
    i = target \/ (lock # None /\ at[lock] = "initreap" /\ on[lock] = i)

(* A reaper is done only once the child is gone. *)
ReapedIsGone == \A i \in Instances : reaper[i] = "closed" => child[i] = "gone"

(* CloseAppServer is called once. *)
OneShutdown == down = "no" => target = None

Inv ==
  /\ TypeOK /\ Known /\ Unborn /\ OneGreets /\ Greeted
  /\ ReaderOutlives /\ ReapedAlive /\ ReapedIsGone /\ OneShutdown /\ NoChildAstray /\ TurnsConfined

-----------------------------------------------------------------------------
(* Whatever codex answers: settings that pass verifyThreadSettings permit  *)
(* no more than the mode asked for (appserver.go:1110-1159).               *)
LEMMA VerifiedIsAllowed ==
  ASSUME NEW mode \in {"read-only", "workspace-write", "danger-full-access"}, NEW got,
         Verifies(mode, got)
  PROVE  Grants(got) \subseteq Allowed(mode)
  <1>1. CASE mode = "read-only"
    BY <1>1 DEF Verifies, TypeOf, Grants, Allowed
  <1>2. CASE mode = "workspace-write"
    BY <1>2 DEF Verifies, TypeOf, Grants, Allowed
  <1>3. CASE mode = "danger-full-access"
    BY <1>3 DEF Verifies, TypeOf, Grants, Allowed
  <1> QED
    BY <1>1, <1>2, <1>3

LEMMA Initially == Init => Inv
  BY PoolAssumption DEF Init, Inv, TypeOK, Known, Unborn, OneGreets, Greeted,
     ReaderOutlives,
     ReapedAlive, ReapedIsGone, OneShutdown, NoChildAstray, TurnsConfined, Calling

(* Steps of a call, of the writer's lock and of the calls pending touch    *)
(* nothing that the invariant speaks of but their types.                   *)
LEMMA CallStepKeeps ==
  ASSUME Inv, TypeOK',
         UNCHANGED <<lock, pool, child, reader, turns, reaper, at, on, granted, closing>>
  PROVE  Inv'
  BY DEF Inv, closing, Known, Unborn, OneGreets, Greeted, ReaderOutlives, ReapedAlive,
     ReapedIsGone,
     OneShutdown, NoChildAstray, TurnsConfined

LEMMA Inductive == Inv /\ [Next]_vars => Inv'
  <1> SUFFICES ASSUME Inv, [Next]_vars PROVE Inv'
    OBVIOUS
  <1> USE PoolAssumption DEF vars, instance, run, closing, Calling
  <1>1. ASSUME NEW r \in Runs, LockWriter(r) PROVE Inv'
    <2>1. TypeOK'
      BY <1>1 DEF Inv, TypeOK, LockWriter
    <2> QED
      BY <1>1, <2>1, CallStepKeeps DEF LockWriter
  <1>2. ASSUME NEW r \in Runs, Written(r) PROVE Inv'
    <2>1. TypeOK'
      BY <1>2 DEF Inv, TypeOK, Written
    <2> QED
      BY <1>2, <2>1, CallStepKeeps DEF Written
  <1>3. ASSUME NEW r \in Runs, WriteFails(r) PROVE Inv'
    <2>1. TypeOK'
      BY <1>3 DEF Inv, TypeOK, WriteFails
    <2> QED
      BY <1>3, <2>1, CallStepKeeps DEF WriteFails
  <1>4. ASSUME NEW r \in Runs, Answer(r) PROVE Inv'
    <2>1. PICK answer \in {"ok", "error", "stale"} : io' = [io EXCEPT ![r] = answer]
      BY <1>4 DEF Answer, AnswerTo
    <2>2. TypeOK'
      BY <1>4, <2>1 DEF Inv, TypeOK, Answer
    <2> QED
      BY <1>4, <2>2, CallStepKeeps DEF Answer
  <1>5. ASSUME NEW r \in Runs, CtxEndsCall(r) PROVE Inv'
    <2>1. TypeOK'
      BY <1>5 DEF Inv, TypeOK, CtxEndsCall
    <2> QED
      BY <1>5, <2>1, CallStepKeeps DEF CtxEndsCall
  <1>6. ASSUME NEW r \in Runs, DoneEndsCall(r) PROVE Inv'
    <2>1. TypeOK'
      BY <1>6 DEF Inv, TypeOK, DoneEndsCall
    <2> QED
      BY <1>6, <2>1, CallStepKeeps DEF DoneEndsCall
  <1>7. ASSUME NEW r \in Runs, UseInstance(r) PROVE Inv'
    BY <1>7 DEF Inv, UseInstance, Unlocked, Usable, BeginCall,
       TypeOK, Known, Unborn, OneGreets, Greeted, ReaderOutlives, ReapedAlive,
       ReapedIsGone, OneShutdown, NoChildAstray, TurnsConfined
  <1>8. ASSUME NEW r \in Runs, SpawnInstance(r) PROVE Inv'
    <2> USE DEF SpawnInstance, Unlocked, Usable, Replaceable, Detach, Fresh, BeginCall
    <2>1. TypeOK'
      BY <1>8 DEF Inv, TypeOK
    <2>2. Known'
      BY <1>8 DEF Inv, TypeOK, Known
    <2>3. Unborn'
      BY <1>8 DEF Inv, TypeOK, Known, Unborn
    <2>4. OneGreets'
      BY <1>8 DEF Inv, TypeOK, OneGreets
    <2>5. Greeted'
      BY <1>8 DEF Inv, TypeOK, Known, Unborn, OneGreets, Greeted
    <2>6. ReaderOutlives'
      BY <1>8 DEF Inv, TypeOK, ReaderOutlives
    <2>7. ReapedAlive'
      BY <1>8 DEF Inv, TypeOK, Unborn, OneGreets, Greeted, ReaderOutlives, ReapedAlive,
         ReapedIsGone, OneShutdown
    <2>8. ReapedIsGone'
      BY <1>8 DEF Inv, TypeOK, Unborn, ReapedIsGone
    <2>9. NoChildAstray'
      BY <1>8 DEF Inv, TypeOK, Unborn, OneGreets, Greeted, NoChildAstray
    <2>10. TurnsConfined'
      BY <1>8 DEF Inv, TypeOK, TurnsConfined
    <2>11. OneShutdown'
      BY <1>8 DEF Inv, OneShutdown
    <2> QED
      BY <2>1, <2>2, <2>3, <2>4, <2>5, <2>6, <2>7, <2>8, <2>9, <2>10, <2>11 DEF Inv
  <1>9. ASSUME NEW r \in Runs, StartFails(r) PROVE Inv'
    <2> USE DEF StartFails, Unlocked, Usable, Replaceable, Detach, End
    <2>1. TypeOK'
      BY <1>9 DEF Inv, TypeOK
    <2>2. Known'
      BY <1>9 DEF Inv, TypeOK, Known
    <2>3. Unborn'
      BY <1>9 DEF Inv, TypeOK, Known, Unborn
    <2>4. OneGreets'
      BY <1>9 DEF Inv, TypeOK, OneGreets
    <2>5. Greeted'
      BY <1>9 DEF Inv, TypeOK, Known, Unborn, OneGreets, Greeted
    <2>6. ReapedAlive'
      BY <1>9 DEF Inv, TypeOK, Unborn, OneGreets, Greeted, ReaderOutlives, ReapedAlive,
         ReapedIsGone, OneShutdown
    <2>7. ReapedIsGone'
      BY <1>9 DEF Inv, TypeOK, Unborn, ReapedIsGone
    <2>8. NoChildAstray'
      BY <1>9 DEF Inv, TypeOK, Unborn, OneGreets, Greeted, NoChildAstray
    <2>9. TurnsConfined'
      BY <1>9 DEF Inv, TypeOK, TurnsConfined
    <2>10. ReaderOutlives' /\ OneShutdown'
      BY <1>9 DEF Inv, ReaderOutlives, OneShutdown
    <2> QED
      BY <2>1, <2>2, <2>3, <2>4, <2>5, <2>6, <2>7, <2>8, <2>9, <2>10 DEF Inv
  <1>10. ASSUME NEW r \in Runs, Initialized(r) PROVE Inv'
    <2> USE DEF Initialized, BeginCall
    <2>1. TypeOK'
      BY <1>10 DEF Inv, TypeOK, Known
    <2>2. Known'
      BY <1>10 DEF Inv, TypeOK, Known
    <2>3. Unborn'
      BY <1>10 DEF Inv, TypeOK, Known, Unborn
    <2>4. OneGreets'
      BY <1>10 DEF Inv, TypeOK, OneGreets
    <2>5. Greeted'
      BY <1>10 DEF Inv, TypeOK, Known, Unborn, OneGreets, Greeted
    <2>6. ReapedAlive'
      BY <1>10 DEF Inv, TypeOK, Unborn, OneGreets, Greeted, ReaderOutlives, ReapedAlive,
         ReapedIsGone, OneShutdown
    <2>7. NoChildAstray'
      BY <1>10 DEF Inv, TypeOK, Unborn, OneGreets, Greeted, NoChildAstray
    <2>8. TurnsConfined'
      BY <1>10 DEF Inv, TypeOK, TurnsConfined
    <2>9. ReaderOutlives' /\ ReapedIsGone' /\ OneShutdown'
      BY <1>10 DEF Inv, ReaderOutlives, ReapedIsGone, OneShutdown
    <2> QED
      BY <2>1, <2>2, <2>3, <2>4, <2>5, <2>6, <2>7, <2>8, <2>9 DEF Inv
  <1>11. ASSUME NEW r \in Runs, InitFails(r) PROVE Inv'
    <2>1. TypeOK'
      BY <1>11 DEF Inv, TypeOK, InitFails
    <2>2. Known'
      BY <1>11 DEF Inv, TypeOK, Known, InitFails
    <2>3. Unborn'
      BY <1>11 DEF Inv, TypeOK, Known, Unborn, InitFails
    <2>4. OneGreets'
      BY <1>11 DEF Inv, TypeOK, OneGreets, InitFails
    <2>5. Greeted'
      BY <1>11 DEF Inv, TypeOK, Known, Unborn, OneGreets, Greeted, InitFails
    <2>6. ReapedAlive'
      BY <1>11 DEF Inv, TypeOK, Unborn, OneGreets, Greeted, ReaderOutlives, ReapedAlive,
         ReapedIsGone, OneShutdown, InitFails
    <2>7. ReapedIsGone'
      BY <1>11 DEF Inv, TypeOK, Unborn, ReapedIsGone, InitFails
    <2>8. NoChildAstray'
      BY <1>11 DEF Inv, TypeOK, Unborn, OneGreets, Greeted, NoChildAstray, InitFails
    <2>9. TurnsConfined'
      BY <1>11 DEF Inv, TypeOK, TurnsConfined, InitFails
    <2>10. ReaderOutlives' /\ OneShutdown'
      BY <1>11 DEF Inv, ReaderOutlives, OneShutdown, InitFails
    <2> QED
      BY <2>1, <2>2, <2>3, <2>4, <2>5, <2>6, <2>7, <2>8, <2>9, <2>10 DEF Inv
  <1>12. ASSUME NEW r \in Runs, InitReaped(r) PROVE Inv'
    <2> USE DEF InitReaped, End
    <2>1. TypeOK'
      BY <1>12 DEF Inv, TypeOK
    <2>2. Known'
      BY <1>12 DEF Inv, TypeOK, Known
    <2>3. Unborn'
      BY <1>12 DEF Inv, TypeOK, Known, Unborn
    <2>4. OneGreets'
      BY <1>12 DEF Inv, TypeOK, OneGreets
    <2>5. Greeted'
      BY <1>12 DEF Inv, TypeOK, Known, Unborn, OneGreets, Greeted
    <2>6. ReapedAlive'
      BY <1>12 DEF Inv, TypeOK, Unborn, OneGreets, Greeted, ReaderOutlives, ReapedAlive,
         ReapedIsGone, OneShutdown
    <2>7. NoChildAstray'
      BY <1>12 DEF Inv, TypeOK, Unborn, OneGreets, Greeted, NoChildAstray
    <2>8. TurnsConfined'
      BY <1>12 DEF Inv, TypeOK, TurnsConfined
    <2>9. ReaderOutlives' /\ ReapedIsGone' /\ OneShutdown'
      BY <1>12 DEF Inv, ReaderOutlives, ReapedIsGone, OneShutdown
    <2> QED
      BY <2>1, <2>2, <2>3, <2>4, <2>5, <2>6, <2>7, <2>8, <2>9 DEF Inv
  <1>13. ASSUME NEW r \in Runs, StartTurn(r) PROVE Inv'
    <2>1. PICK got \in Answers :
            Verifies(ModeOf[r], got) /\ granted' = [granted EXCEPT ![r] = Grants(got)]
      BY <1>13 DEF StartTurn
    <2>2. Grants(got) \subseteq Allowed(ModeOf[r])
      BY <2>1, VerifiedIsAllowed
    <2>3. granted' \in [Runs -> SUBSET {"anything", "network", "ask", "asked", "other",
    "tmp"}]
      <3>1. ModeOf[r] \in {"read-only", "workspace-write", "danger-full-access"}
        OBVIOUS
      <3>2. Allowed(ModeOf[r]) \in SUBSET {"anything", "asked"}
        BY <3>1 DEF Allowed
      <3>3. Grants(got) \in SUBSET {"anything", "network", "ask", "asked", "other", "tmp"}
        BY <2>2, <3>2
      <3> QED
        BY <2>1, <3>3 DEF Inv, TypeOK
    <2>4. TypeOK'
      <3>1. turns' \in [Instances -> SUBSET Runs] /\ pending' \in [Instances -> SUBSET Runs]
        <4>1. on[r] \in Instances /\ turns[on[r]] \in SUBSET Runs /\ pending[on[r]] \in SUBSET Runs
          BY <1>13 DEF Inv, TypeOK, Known, StartTurn
        <4>2. /\ turns' = [turns EXCEPT ![on[r]] = turns[on[r]] \cup {r}]
              /\ pending' = [pending EXCEPT ![on[r]] = pending[on[r]] \cup {r}]
          BY <1>13, <4>1 DEF Inv, TypeOK, StartTurn, BeginCall
        <4> QED
          BY <4>1, <4>2 DEF Inv, TypeOK
      <3>2. /\ at' \in [Runs -> {"start", "initreap", "over"} \cup Calling]
            /\ io' \in [Runs -> {"idle", "write", "writing", "wait", "ok", "error",
                             "stale"}]
            /\ on' \in [Runs -> Instances \cup {None}]
        BY <1>13 DEF Inv, TypeOK, StartTurn, BeginCall
      <3> QED
        BY <1>13, <2>3, <3>1, <3>2 DEF Inv, TypeOK, StartTurn
    <2>5. TurnsConfined'
      BY <1>13, <2>1, <2>2 DEF Inv, TypeOK, TurnsConfined, StartTurn, BeginCall
    <2>6. Known' /\ Unborn'
      BY <1>13 DEF Inv, TypeOK, Known, Unborn, StartTurn, BeginCall
    <2>7. OneGreets' /\ Greeted'
      BY <1>13 DEF Inv, TypeOK, Known, OneGreets, Greeted, StartTurn, BeginCall
    <2>8. ReaderOutlives' /\ ReapedAlive' /\ ReapedIsGone' /\ OneShutdown' /\ NoChildAstray'
      BY <1>13 DEF Inv, TypeOK, OneGreets, Greeted, ReaderOutlives, ReapedAlive,
         ReapedIsGone, OneShutdown,
         NoChildAstray, StartTurn, BeginCall
    <2> QED
      BY <2>4, <2>5, <2>6, <2>7, <2>8 DEF Inv
  <1>14. ASSUME NEW r \in Runs, FallBackToFresh(r) PROVE Inv'
    BY <1>14 DEF Inv, FallBackToFresh, BeginCall,
       TypeOK, Known, Unborn, OneGreets, Greeted, ReaderOutlives, ReapedAlive,
       ReapedIsGone, OneShutdown, NoChildAstray, TurnsConfined
  <1>15. ASSUME NEW r \in Runs, ThreadFails(r) PROVE Inv'
    BY <1>15 DEF Inv, ThreadFails, End,
       TypeOK, Known, Unborn, OneGreets, Greeted, ReaderOutlives, ReapedAlive,
       ReapedIsGone, OneShutdown, NoChildAstray, TurnsConfined
  <1>16. ASSUME NEW r \in Runs, TurnFails(r) PROVE Inv'
    <2> USE DEF TurnFails, End
    <2>1. TypeOK'
      BY <1>16 DEF Inv, TypeOK
    <2>2. Known'
      BY <1>16 DEF Inv, TypeOK, Known
    <2>3. Unborn'
      BY <1>16 DEF Inv, TypeOK, Known, Unborn
    <2>4. OneGreets'
      BY <1>16 DEF Inv, TypeOK, OneGreets
    <2>5. Greeted'
      BY <1>16 DEF Inv, TypeOK, Known, Unborn, OneGreets, Greeted
    <2>6. ReapedAlive'
      BY <1>16 DEF Inv, TypeOK, Unborn, OneGreets, Greeted, ReaderOutlives, ReapedAlive,
         ReapedIsGone, OneShutdown
    <2>7. NoChildAstray'
      BY <1>16 DEF Inv, TypeOK, Unborn, OneGreets, Greeted, NoChildAstray
    <2>8. TurnsConfined'
      BY <1>16 DEF Inv, TypeOK, TurnsConfined
    <2>9. ReaderOutlives' /\ ReapedIsGone' /\ OneShutdown'
      BY <1>16 DEF Inv, ReaderOutlives, ReapedIsGone, OneShutdown
    <2> QED
      BY <2>1, <2>2, <2>3, <2>4, <2>5, <2>6, <2>7, <2>8, <2>9 DEF Inv
  <1>17. ASSUME NEW r \in Runs, TurnCompletes(r) PROVE Inv'
    BY <1>17 DEF Inv, TurnCompletes, Draining,
       TypeOK, Known, Unborn, OneGreets, Greeted, ReaderOutlives, ReapedAlive,
       ReapedIsGone, OneShutdown, NoChildAstray, TurnsConfined
  <1>18. ASSUME NEW r \in Runs, Drained(r) PROVE Inv'
    <2> USE DEF Drained, Draining, End
    <2>1. TypeOK'
      BY <1>18 DEF Inv, TypeOK
    <2>2. Known'
      BY <1>18 DEF Inv, TypeOK, Known
    <2>3. Unborn'
      BY <1>18 DEF Inv, TypeOK, Known, Unborn
    <2>4. OneGreets'
      BY <1>18 DEF Inv, TypeOK, OneGreets
    <2>5. Greeted'
      BY <1>18 DEF Inv, TypeOK, Known, Unborn, OneGreets, Greeted
    <2>6. ReapedAlive'
      BY <1>18 DEF Inv, TypeOK, Unborn, OneGreets, Greeted, ReaderOutlives, ReapedAlive,
         ReapedIsGone, OneShutdown
    <2>7. NoChildAstray'
      BY <1>18 DEF Inv, TypeOK, Unborn, OneGreets, Greeted, NoChildAstray
    <2>8. TurnsConfined'
      BY <1>18 DEF Inv, TypeOK, TurnsConfined
    <2>9. ReaderOutlives' /\ ReapedIsGone' /\ OneShutdown'
      BY <1>18 DEF Inv, ReaderOutlives, ReapedIsGone, OneShutdown
    <2> QED
      BY <2>1, <2>2, <2>3, <2>4, <2>5, <2>6, <2>7, <2>8, <2>9 DEF Inv
  <1>19. ASSUME NEW i \in Instances, ServerRequest(i) PROVE Inv'
    BY <1>19 DEF Inv, ServerRequest,
       TypeOK, Known, Unborn, OneGreets, Greeted, ReaderOutlives, ReapedAlive,
       ReapedIsGone, OneShutdown, NoChildAstray, TurnsConfined
  <1>20. ASSUME NEW i \in Instances, ReaderLocks(i) PROVE Inv'
    <2>1. TypeOK'
      BY <1>20 DEF Inv, TypeOK, ReaderLocks
    <2> QED
      BY <1>20, <2>1, CallStepKeeps DEF ReaderLocks
  <1>21. ASSUME NEW i \in Instances, ReaderAnswers(i) PROVE Inv'
    BY <1>21 DEF Inv, ReaderAnswers,
       TypeOK, Known, Unborn, OneGreets, Greeted, ReaderOutlives, ReapedAlive,
       ReapedIsGone, OneShutdown, NoChildAstray, TurnsConfined
  <1>22. ASSUME NEW i \in Instances, EndOfStdout(i) PROVE Inv'
    BY <1>22 DEF Inv, EndOfStdout, FailPendingRequests,
       TypeOK, Known, Unborn, OneGreets, Greeted, ReaderOutlives, ReapedAlive,
       ReapedIsGone, OneShutdown, NoChildAstray, TurnsConfined
  <1>23. ASSUME NEW i \in Instances, CloseDone(i) PROVE Inv'
    BY <1>23 DEF Inv, CloseDone,
       TypeOK, Known, Unborn, OneGreets, Greeted, ReaderOutlives, ReapedAlive,
       ReapedIsGone, OneShutdown, NoChildAstray, TurnsConfined
  <1>24. ASSUME NEW i \in Instances, ChildDies(i) PROVE Inv'
    BY <1>24 DEF Inv, ChildDies,
       TypeOK, Known, Unborn, OneGreets, Greeted, ReaderOutlives, ReapedAlive,
       ReapedIsGone, OneShutdown, NoChildAstray, TurnsConfined
  <1>25. ASSUME NEW i \in Instances, StartClose(i) PROVE Inv'
    BY <1>25 DEF Inv, StartClose,
       TypeOK, Known, Unborn, OneGreets, Greeted, ReaderOutlives, ReapedAlive,
       ReapedIsGone, OneShutdown, NoChildAstray, TurnsConfined
  <1>26. ASSUME NEW i \in Instances, KillChild(i) PROVE Inv'
    BY <1>26 DEF Inv, KillChild,
       TypeOK, Known, Unborn, OneGreets, Greeted, ReaderOutlives, ReapedAlive,
       ReapedIsGone, OneShutdown, NoChildAstray, TurnsConfined
  <1>27. ASSUME NEW i \in Instances, EndClose(i) PROVE Inv'
    BY <1>27 DEF Inv, EndClose,
       TypeOK, Known, Unborn, OneGreets, Greeted, ReaderOutlives, ReapedAlive,
       ReapedIsGone, OneShutdown, NoChildAstray, TurnsConfined
  <1>28. CASE CloseAppServer
    <2> USE DEF CloseAppServer, Unlocked, Detach
    <2>1. TypeOK'
      BY <1>28 DEF Inv, TypeOK
    <2>2. Unborn'
      BY <1>28 DEF Inv, TypeOK, Known, Unborn
    <2>3. Greeted'
      BY <1>28 DEF Inv, TypeOK, Known, Unborn, OneGreets, Greeted
    <2>4. ReapedAlive'
      BY <1>28 DEF Inv, TypeOK, Unborn, OneGreets, Greeted, ReaderOutlives, ReapedAlive,
         ReapedIsGone, OneShutdown
    <2>5. ReapedIsGone'
      BY <1>28 DEF Inv, TypeOK, Unborn, ReapedIsGone
    <2>6. OneShutdown'
      BY <1>28 DEF Inv, TypeOK, OneShutdown
    <2>7. NoChildAstray'
      BY <1>28 DEF Inv, TypeOK, Unborn, OneGreets, Greeted, NoChildAstray
    <2>8. Known' /\ OneGreets' /\ ReaderOutlives' /\ TurnsConfined'
      BY <1>28 DEF Inv, Known, OneGreets, ReaderOutlives, TurnsConfined
    <2> QED
      BY <2>1, <2>2, <2>3, <2>4, <2>5, <2>6, <2>7, <2>8 DEF Inv
  <1>29. CASE EndShutdown
    BY <1>29 DEF Inv, EndShutdown,
       TypeOK, Known, Unborn, OneGreets, Greeted, ReaderOutlives, ReapedAlive,
       ReapedIsGone, OneShutdown, NoChildAstray, TurnsConfined
  <1>30. CASE UNCHANGED vars
    BY <1>30 DEF Inv, TypeOK, Known, Unborn, OneGreets, Greeted, ReaderOutlives,
       ReapedAlive, ReapedIsGone,
       OneShutdown, NoChildAstray, TurnsConfined
  <1> QED
    BY <1>1, <1>2, <1>3, <1>4, <1>5, <1>6, <1>7, <1>8, <1>9, <1>10, <1>11, <1>12, <1>13,
       <1>14, <1>15, <1>16, <1>17, <1>18, <1>19, <1>20, <1>21, <1>22, <1>23, <1>24,
       <1>25, <1>26, <1>27, <1>28, <1>29, <1>30
    DEF Next, RunStep, CallStep, ReaderStep, ReaperStep, Outside

(* The invariant holds of every reachable state.                           *)
THEOREM PoolInvariant == Spec => []Inv
  BY Initially, Inductive, PTL DEF Spec

(* The types, and: no child runs beside the one in use, unless it is being *)
(* greeted under the lock or reaped (appserver_lifecycle.go:140-162).      *)
THEOREM InstancesAreSound == Spec => []InstancesSound
  <1>1. Inv => InstancesSound
    BY DEF Inv, InstancesSound
  <1> QED
    BY <1>1, PoolInvariant, PTL

(* Replacing a dead instance never severs a turn, for any number of runs   *)
(* and instances (appserver_lifecycle.go:140-197).                         *)
THEOREM RecyclingNeverSevers == Spec => []RecycleNeverSevers
  <1>1. Inv => RecycleNeverSevers
    BY DEF Inv, ReapedAlive, Greeted, RecycleNeverSevers
  <1> QED
    BY <1>1, PoolInvariant, PTL

(* No turn runs on a thread that may do more than its run asked for,       *)
(* whatever settings codex answers with (appserver.go:1110-1159).          *)
THEOREM TurnsStayConfined == Spec => []TurnsConfined
  <1>1. Inv => TurnsConfined
    BY DEF Inv
  <1> QED
    BY <1>1, PoolInvariant, PTL

=============================================================================
