------------------------ MODULE EngineControllerProofs ------------------------
(***************************************************************************)
(* Proofs that the safety properties of EngineController hold for every    *)
(* number of loaders, clients, engine objects and model files.             *)
(***************************************************************************)
EXTENDS EngineController, TLAPS

(* Every step of the specification is one of these; the lemmas below are   *)
(* proved action by action over this list.                                 *)
LEMMA StepCases ==
  ASSUME TypeOK, Next
  PROVE  \/ \E l \in Loaders :
              \/ \E p \in Paths : Request(l, p)
              \/ AnnounceOnly(l, "active") \/ AnnounceOnly(l, "nomodel")
              \/ NoLocalModel(l)
              \/ LeaveQueue(l) \/ Acquire(l)
              \/ AlreadyActive(l) \/ StartLoading(l) \/ Validate(l)
              \/ CloseHandle(l) \/ FreeModel(l) \/ CloseEnd(l)
              \/ \E e \in Engines : Construct(l, e)
              \/ InitModel(l) \/ InitEnd(l) \/ MarkReady(l) \/ Publish(l)
              \/ Catch(l) \/ Report(l)
         \/ \E c \in Clients :
              \/ Submit(c) \/ Refuse(c) \/ StatsStart(c) \/ Cancel(c)
              \/ GenerateToken(c) \/ Fetch(c) \/ EnterClosed(c) \/ EnterEmpty(c)
              \/ EnterNative(c) \/ Abandon(c) \/ GenerateStart(c) \/ GenerateEnd(c)
              \/ Finish(c) \/ FinishQuietly(c) \/ StatsEnd(c)
         \/ \E p \in Paths : FileAppears(p) \/ FileDeleted(p)
         \/ ProcessDeath
<1>1. StartupChoice \subseteq Paths /\ NativeLocalChoice \subseteq Paths
  BY DEF TypeOK, StartupChoice, Fast, Startable, NativeLocalChoice, NativeLocal
<1>2. ASSUME NEW l \in Loaders, Initialize(l)
      PROVE  \/ \E p \in Paths : Request(l, p)
             \/ AnnounceOnly(l, "active") \/ AnnounceOnly(l, "nomodel")
  BY <1>1, <1>2 DEF Initialize
<1>3. ASSUME NEW l \in Loaders, SwitchToNativeLocalMode(l)
      PROVE  NoLocalModel(l) \/ \E p \in Paths : Request(l, p)
  BY <1>1, <1>3 DEF SwitchToNativeLocalMode
<1>. QED
  BY <1>2, <1>3 DEF Next, LoadStep, ChatStep

(***************************************************************************)
(* Types: each action assigns values of the right kind.                    *)
(***************************************************************************)
(* Every variable starts with its type.                                    *)
LEMMA TypeInit == ASSUME Init PROVE TypeOK
<1>1. 0 \in 0 .. MaxTokens
  BY PathAssumption
<1>2. tokens \in [Clients -> 0 .. MaxTokens]
  BY <1>1 DEF Init
<1>3. target \in [Loaders -> Paths] /\ path \in [Engines -> Paths]
  BY PathAssumption DEF Init
<1>. QED
  BY <1>2, <1>3 DEF Init, TypeOK, Statuses, LoaderPhases, ClientPhases

(* Every step keeps every variable's type.                                 *)
LEMMA TypeStep ==
  ASSUME TypeOK, [Next]_vars
  PROVE  TypeOK'
<1>. USE PathAssumption
     DEF TypeOK, Statuses, LoaderPhases, ClientPhases, Critical, Go, Move,
         ctlVars, engineVars, clientVars
<1>1. ASSUME NEW l \in Loaders, NEW p \in Paths, Request(l, p)
      PROVE  TypeOK'
  BY <1>1 DEF Request
<1>2. ASSUME NEW l \in Loaders, AnnounceOnly(l, "active")
      PROVE  TypeOK'
  BY <1>2 DEF AnnounceOnly
<1>3. ASSUME NEW l \in Loaders, AnnounceOnly(l, "nomodel")
      PROVE  TypeOK'
  BY <1>3 DEF AnnounceOnly
<1>4. ASSUME NEW l \in Loaders, NoLocalModel(l)
      PROVE  TypeOK'
  BY <1>4 DEF NoLocalModel
<1>5. ASSUME NEW l \in Loaders, LeaveQueue(l)
      PROVE  TypeOK'
  BY <1>5 DEF LeaveQueue, Leave
<1>6. ASSUME NEW l \in Loaders, Acquire(l)
      PROVE  TypeOK'
  BY <1>6 DEF Acquire
<1>7. ASSUME NEW l \in Loaders, AlreadyActive(l)
      PROVE  TypeOK'
  BY <1>7 DEF AlreadyActive, Leave
<1>8. ASSUME NEW l \in Loaders, StartLoading(l)
      PROVE  TypeOK'
  BY <1>8 DEF StartLoading
<1>9. ASSUME NEW l \in Loaders, Validate(l)
      PROVE  TypeOK'
  BY <1>9 DEF Validate
<1>10. ASSUME NEW l \in Loaders, CloseHandle(l)
      PROVE  TypeOK'
  BY <1>10 DEF CloseHandle
<1>11. ASSUME NEW l \in Loaders, FreeModel(l)
      PROVE  TypeOK'
  BY <1>11 DEF FreeModel
<1>12. ASSUME NEW l \in Loaders, CloseEnd(l)
      PROVE  TypeOK'
  BY <1>12 DEF CloseEnd
<1>13. ASSUME NEW l \in Loaders, NEW e \in Engines, Construct(l, e)
      PROVE  TypeOK'
  BY <1>13 DEF Construct
<1>14. ASSUME NEW l \in Loaders, InitModel(l)
      PROVE  TypeOK'
  BY <1>14 DEF InitModel
<1>15. ASSUME NEW l \in Loaders, InitEnd(l)
      PROVE  TypeOK'
  BY <1>15 DEF InitEnd
<1>16. ASSUME NEW l \in Loaders, MarkReady(l)
      PROVE  TypeOK'
  BY <1>16 DEF MarkReady
<1>17. ASSUME NEW l \in Loaders, Publish(l)
      PROVE  TypeOK'
  BY <1>17 DEF Publish, Leave
<1>18. ASSUME NEW l \in Loaders, Catch(l)
      PROVE  TypeOK'
  BY <1>18 DEF Catch, Throws
<1>19. ASSUME NEW l \in Loaders, Report(l)
      PROVE  TypeOK'
  BY <1>19 DEF Report, Leave
<1>20. ASSUME NEW c \in Clients, Submit(c)
      PROVE  TypeOK'
  BY <1>20 DEF Submit
<1>21. ASSUME NEW c \in Clients, Refuse(c)
      PROVE  TypeOK'
  BY <1>21 DEF Refuse
<1>22. ASSUME NEW c \in Clients, StatsStart(c)
      PROVE  TypeOK'
  BY <1>22 DEF StatsStart
<1>23. ASSUME NEW c \in Clients, Cancel(c)
      PROVE  TypeOK'
  BY <1>23 DEF Cancel
<1>24. ASSUME NEW c \in Clients, GenerateToken(c)
      PROVE  TypeOK'
  BY <1>24 DEF GenerateToken
<1>25. ASSUME NEW c \in Clients, Fetch(c)
      PROVE  TypeOK'
  BY <1>25 DEF Fetch
<1>26. ASSUME NEW c \in Clients, EnterClosed(c)
      PROVE  TypeOK'
  <2>1. UNCHANGED <<ctlVars, files, lpc, target, engineVars>>
    BY <1>26 DEF EnterClosed
  <2>2. \/ Return(c)
        \/ Move(c, "finish") /\ UNCHANGED <<using, cancelled, tokens>>
    BY <1>26 DEF EnterClosed
  <2>3. CASE Return(c)
    BY <2>1, <2>3 DEF Return
  <2>4. CASE Move(c, "finish") /\ UNCHANGED <<using, cancelled, tokens>>
    BY <2>1, <2>4
  <2>. QED
    BY <2>2, <2>3, <2>4
<1>27. ASSUME NEW c \in Clients, EnterEmpty(c)
      PROVE  TypeOK'
  BY <1>27 DEF EnterEmpty
<1>28. ASSUME NEW c \in Clients, EnterNative(c)
      PROVE  TypeOK'
  BY <1>28 DEF EnterNative
<1>29. ASSUME NEW c \in Clients, Abandon(c)
      PROVE  TypeOK'
  BY <1>29 DEF Abandon, Return
<1>30. ASSUME NEW c \in Clients, GenerateStart(c)
      PROVE  TypeOK'
  BY <1>30 DEF GenerateStart
<1>31. ASSUME NEW c \in Clients, GenerateEnd(c)
      PROVE  TypeOK'
  BY <1>31 DEF GenerateEnd
<1>32. ASSUME NEW c \in Clients, Finish(c)
      PROVE  TypeOK'
  BY <1>32 DEF Finish, Return
<1>33. ASSUME NEW c \in Clients, FinishQuietly(c)
      PROVE  TypeOK'
  BY <1>33 DEF FinishQuietly, Return
<1>34. ASSUME NEW c \in Clients, StatsEnd(c)
      PROVE  TypeOK'
  BY <1>34 DEF StatsEnd, Return
<1>35. ASSUME NEW p \in Paths, FileAppears(p)
      PROVE  TypeOK'
  BY <1>35 DEF FileAppears
<1>36. ASSUME NEW p \in Paths, FileDeleted(p)
      PROVE  TypeOK'
  BY <1>36 DEF FileDeleted
<1>37. ASSUME ProcessDeath
      PROVE  TypeOK'
  <2>1. tokens' \in [Clients -> 0 .. MaxTokens]
    BY <1>37 DEF ProcessDeath
  <2>2. target' \in [Loaders -> Paths] /\ path' \in [Engines -> Paths]
    BY <1>37 DEF ProcessDeath
  <2>. QED
    BY <1>37, <2>1, <2>2 DEF ProcessDeath
<1>38. CASE UNCHANGED vars
  BY <1>38 DEF vars
<1>. QED
  BY StepCases,
     <1>1, <1>2, <1>3, <1>4, <1>5, <1>6, <1>7, <1>8, <1>9, <1>10, <1>11, <1>12,
     <1>13, <1>14, <1>15, <1>16, <1>17, <1>18, <1>19, <1>20, <1>21, <1>22, <1>23, <1>24,
     <1>25, <1>26, <1>27, <1>28, <1>29, <1>30, <1>31, <1>32, <1>33, <1>34, <1>35, <1>36,
     <1>37, <1>38

(* Every variable keeps its type, for any set of coroutines, engine        *)
(* objects and files.                                                      *)
THEOREM TypeCorrect == Spec => []TypeOK
<1>1. Init => TypeOK
  BY TypeInit
<1>2. TypeOK /\ [Next]_vars => TypeOK'
  BY TypeStep
<1>. QED
  BY <1>1, <1>2, PTL DEF Spec

-----------------------------------------------------------------------------
(***************************************************************************)
(* The life of native memory.                                              *)
(***************************************************************************)
(* What a reload touches, a client does not: clients write only the status *)
(* and the abort flag.                                                     *)
lifeVars == <<engine, isEngineReady, owner, lpc, path, isInitialized, handle, native>>

(* A chat, whatever it does, changes nothing that the life of the model    *)
(* depends on.                                                             *)
LEMMA ClientsLeaveLifeAlone ==
  ASSUME NEW c \in Clients,
         \/ Submit(c) \/ Refuse(c) \/ StatsStart(c) \/ Cancel(c)
         \/ GenerateToken(c) \/ Fetch(c) \/ EnterClosed(c) \/ EnterEmpty(c)
         \/ EnterNative(c) \/ Abandon(c) \/ GenerateStart(c) \/ GenerateEnd(c)
         \/ Finish(c) \/ FinishQuietly(c) \/ StatsEnd(c)
  PROVE  UNCHANGED lifeVars
BY DEF Submit, Refuse, StatsStart, Cancel, GenerateToken, Fetch, EnterClosed, EnterEmpty,
       EnterNative, Abandon, GenerateStart, GenerateEnd, Finish, FinishQuietly, StatsEnd,
       ctlVars, engineVars, lifeVars

(* The inductive invariant holds when the process starts.                  *)
LEMMA LifecycleInit == ASSUME Init PROVE LifecycleInv
<1>1. TypeOK
  BY TypeInit
<1>2. \A l \in Loaders : lpc[l] = "idle" /\ owner # l
  BY SentinelAssumption DEF Init
<1>3. \A e \in Engines : native[e] = "none" /\ ~handle[e]
  BY DEF Init
<1>4. HeldByOwner /\ PhaseInv
  BY <1>2 DEF HeldByOwner, PhaseInv, Critical
<1>5. NoLeakedModel /\ HandleNeverDangles /\ FreeableHasHandle
  BY <1>3 DEF NoLeakedModel, HandleNeverDangles, FreeableHasHandle
<1>6. ReadyEngineUsable
  BY DEF Init, ReadyEngineUsable
<1>. QED
  BY <1>1, <1>4, <1>5, <1>6 DEF LifecycleInv

(* Every step keeps the inductive invariant.                               *)
LEMMA LifecycleStep ==
  ASSUME LifecycleInv, [Next]_vars
  PROVE  LifecycleInv'
<1>0. TypeOK /\ TypeOK'
  BY TypeStep DEF LifecycleInv
<1>. USE SentinelAssumption
     DEF TypeOK, LifecycleInv, NoLeakedModel, HandleNeverDangles, ReadyEngineUsable,
         HeldByOwner, FreeableHasHandle, PhaseInv, Usable, ReleasedOnClose, Critical,
         Go, ctlVars, engineVars
<1>1. ASSUME NEW l \in Loaders, NEW p \in Paths, Request(l, p)
      PROVE  LifecycleInv'
  BY <1>0, <1>1 DEF Request
<1>2. ASSUME NEW l \in Loaders, AnnounceOnly(l, "active")
      PROVE  LifecycleInv'
  BY <1>0, <1>2 DEF AnnounceOnly
<1>3. ASSUME NEW l \in Loaders, AnnounceOnly(l, "nomodel")
      PROVE  LifecycleInv'
  BY <1>0, <1>3 DEF AnnounceOnly
<1>4. ASSUME NEW l \in Loaders, NoLocalModel(l)
      PROVE  LifecycleInv'
  BY <1>0, <1>4 DEF NoLocalModel
<1>5. ASSUME NEW l \in Loaders, LeaveQueue(l)
      PROVE  LifecycleInv'
  BY <1>0, <1>5 DEF LeaveQueue, Leave
<1>6. ASSUME NEW l \in Loaders, Acquire(l)
      PROVE  LifecycleInv'
  BY <1>0, <1>6 DEF Acquire
<1>7. ASSUME NEW l \in Loaders, AlreadyActive(l)
      PROVE  LifecycleInv'
  BY <1>0, <1>7 DEF AlreadyActive, Leave
<1>8. ASSUME NEW l \in Loaders, StartLoading(l)
      PROVE  LifecycleInv'
  BY <1>0, <1>8 DEF StartLoading
<1>9. ASSUME NEW l \in Loaders, Validate(l)
      PROVE  LifecycleInv'
  BY <1>0, <1>9 DEF Validate
<1>10. ASSUME NEW l \in Loaders, CloseHandle(l)
      PROVE  LifecycleInv'
  BY <1>0, <1>10 DEF CloseHandle
<1>11. ASSUME NEW l \in Loaders, FreeModel(l)
      PROVE  LifecycleInv'
  BY <1>0, <1>11 DEF FreeModel
<1>12. ASSUME NEW l \in Loaders, CloseEnd(l)
      PROVE  LifecycleInv'
  BY <1>0, <1>12 DEF CloseEnd
<1>13. ASSUME NEW l \in Loaders, NEW e \in Engines, Construct(l, e)
      PROVE  LifecycleInv'
  BY <1>0, <1>13 DEF Construct
<1>14. ASSUME NEW l \in Loaders, InitModel(l)
      PROVE  LifecycleInv'
  BY <1>0, <1>14 DEF InitModel
<1>15. ASSUME NEW l \in Loaders, InitEnd(l)
      PROVE  LifecycleInv'
  BY <1>0, <1>15 DEF InitEnd
<1>16. ASSUME NEW l \in Loaders, MarkReady(l)
      PROVE  LifecycleInv'
  BY <1>0, <1>16 DEF MarkReady
<1>17. ASSUME NEW l \in Loaders, Publish(l)
      PROVE  LifecycleInv'
  BY <1>0, <1>17 DEF Publish, Leave
<1>18. ASSUME NEW l \in Loaders, Catch(l)
      PROVE  LifecycleInv'
  BY <1>0, <1>18 DEF Catch, Throws
<1>19. ASSUME NEW l \in Loaders, Report(l)
      PROVE  LifecycleInv'
  BY <1>0, <1>19 DEF Report, Leave
<1>20. ASSUME UNCHANGED lifeVars
      PROVE  LifecycleInv'
  BY <1>0, <1>20 DEF lifeVars
<1>21. ASSUME NEW p \in Paths, FileAppears(p) \/ FileDeleted(p)
      PROVE  LifecycleInv'
  BY <1>20, <1>21 DEF FileAppears, FileDeleted, lifeVars
<1>22. ASSUME ProcessDeath
      PROVE  LifecycleInv'
  BY <1>0, <1>22 DEF ProcessDeath
<1>23. CASE UNCHANGED vars
  BY <1>20, <1>23 DEF vars, lifeVars
<1>. QED
  BY StepCases, ClientsLeaveLifeAlone,
     <1>0, <1>1, <1>2, <1>3, <1>4, <1>5, <1>6, <1>7, <1>8, <1>9, <1>10, <1>11,
     <1>12, <1>13, <1>14, <1>15, <1>16, <1>17, <1>18, <1>19, <1>20, <1>21, <1>22, <1>23

(* The inductive invariant holds for ever: at each line of a reload it     *)
(* says how much of the old engine is gone and of the new one there        *)
(* (EngineController.kt:84-181).                                           *)
THEOREM LifecycleCorrect == Spec => []LifecycleInv
<1>1. Init => LifecycleInv
  BY LifecycleInit
<1>2. LifecycleInv /\ [Next]_vars => LifecycleInv'
  BY LifecycleStep
<1>. QED
  BY <1>1, <1>2, PTL DEF Spec

(* No interleaving of reloads, failures and cancellations leaves a         *)
(* freeable model in memory that the controller cannot reach.              *)
THEOREM NoLeakedModelCorrect == Spec => []NoLeakedModel
<1>1. LifecycleInv => NoLeakedModel
  BY DEF LifecycleInv
<1>. QED
  BY <1>1, LifecycleCorrect, PTL

(* The handle field of an engine never leads to freed memory.              *)
THEOREM HandleNeverDanglesCorrect == Spec => []HandleNeverDangles
<1>1. LifecycleInv => HandleNeverDangles
  BY DEF LifecycleInv
<1>. QED
  BY <1>1, LifecycleCorrect, PTL

(* Between reloads, a controller that accepts chats can serve them.        *)
THEOREM ReadyEngineUsableCorrect == Spec => []ReadyEngineUsable
<1>1. LifecycleInv => ReadyEngineUsable
  BY DEF LifecycleInv
<1>. QED
  BY <1>1, LifecycleCorrect, PTL

-----------------------------------------------------------------------------
(***************************************************************************)
(* The status line.                                                        *)
(***************************************************************************)
(* Only the holder of the mutex reports a failure, so none is on display   *)
(* between the announcement of a load and its end.                         *)
NoFailureWhileLoading ==
  \A l \in Loaders : lpc[l] \in Critical \ {"check"} => status # "failed"

StatusInv == LifecycleInv /\ StatusHonest /\ NoFailureWhileLoading

(* What the screen announces stays true with every step.                   *)
LEMMA StatusStep ==
  ASSUME StatusInv, [Next]_vars
  PROVE  StatusHonest' /\ NoFailureWhileLoading'
<1>0. TypeOK /\ LifecycleInv'
  BY LifecycleStep DEF StatusInv, LifecycleInv
<1>. USE SentinelAssumption
     DEF StatusInv, StatusHonest, NoFailureWhileLoading, LifecycleInv, HeldByOwner, PhaseInv, Critical, Go, TypeOK,
         ctlVars
<1>1. ASSUME NEW l \in Loaders, NEW p \in Paths, Request(l, p)
      PROVE  StatusHonest' /\ NoFailureWhileLoading'
  BY <1>0, <1>1 DEF Request
<1>2. ASSUME NEW l \in Loaders, AnnounceOnly(l, "active")
      PROVE  StatusHonest' /\ NoFailureWhileLoading'
  BY <1>0, <1>2 DEF AnnounceOnly
<1>3. ASSUME NEW l \in Loaders, AnnounceOnly(l, "nomodel")
      PROVE  StatusHonest' /\ NoFailureWhileLoading'
  BY <1>0, <1>3 DEF AnnounceOnly
<1>4. ASSUME NEW l \in Loaders, NoLocalModel(l)
      PROVE  StatusHonest' /\ NoFailureWhileLoading'
  BY <1>0, <1>4 DEF NoLocalModel
<1>5. ASSUME NEW l \in Loaders, LeaveQueue(l)
      PROVE  StatusHonest' /\ NoFailureWhileLoading'
  BY <1>0, <1>5 DEF LeaveQueue, Leave
<1>6. ASSUME NEW l \in Loaders, Acquire(l)
      PROVE  StatusHonest' /\ NoFailureWhileLoading'
  BY <1>0, <1>6 DEF Acquire
<1>7. ASSUME NEW l \in Loaders, AlreadyActive(l)
      PROVE  StatusHonest' /\ NoFailureWhileLoading'
  BY <1>0, <1>7 DEF AlreadyActive, Leave
<1>8. ASSUME NEW l \in Loaders, StartLoading(l)
      PROVE  StatusHonest' /\ NoFailureWhileLoading'
  BY <1>0, <1>8 DEF StartLoading
<1>9. ASSUME NEW l \in Loaders, Validate(l)
      PROVE  StatusHonest' /\ NoFailureWhileLoading'
  BY <1>0, <1>9 DEF Validate
<1>10. ASSUME NEW l \in Loaders, CloseHandle(l)
      PROVE  StatusHonest' /\ NoFailureWhileLoading'
  BY <1>0, <1>10 DEF CloseHandle
<1>11. ASSUME NEW l \in Loaders, FreeModel(l)
      PROVE  StatusHonest' /\ NoFailureWhileLoading'
  BY <1>0, <1>11 DEF FreeModel
<1>12. ASSUME NEW l \in Loaders, CloseEnd(l)
      PROVE  StatusHonest' /\ NoFailureWhileLoading'
  BY <1>0, <1>12 DEF CloseEnd
<1>13. ASSUME NEW l \in Loaders, NEW e \in Engines, Construct(l, e)
      PROVE  StatusHonest' /\ NoFailureWhileLoading'
  BY <1>0, <1>13 DEF Construct
<1>14. ASSUME NEW l \in Loaders, InitModel(l)
      PROVE  StatusHonest' /\ NoFailureWhileLoading'
  BY <1>0, <1>14 DEF InitModel
<1>15. ASSUME NEW l \in Loaders, InitEnd(l)
      PROVE  StatusHonest' /\ NoFailureWhileLoading'
  BY <1>0, <1>15 DEF InitEnd
<1>16. ASSUME NEW l \in Loaders, MarkReady(l)
      PROVE  StatusHonest' /\ NoFailureWhileLoading'
  BY <1>0, <1>16 DEF MarkReady
<1>17. ASSUME NEW l \in Loaders, Publish(l)
      PROVE  StatusHonest' /\ NoFailureWhileLoading'
  BY <1>0, <1>17 DEF Publish, Leave
<1>18. ASSUME NEW l \in Loaders, Catch(l)
      PROVE  StatusHonest' /\ NoFailureWhileLoading'
  BY <1>0, <1>18 DEF Catch, Throws
<1>19. ASSUME NEW l \in Loaders, Report(l)
      PROVE  StatusHonest' /\ NoFailureWhileLoading'
  BY <1>0, <1>19 DEF Report, Leave
<1>20. ASSUME NEW c \in Clients,
             \/ Submit(c) \/ Refuse(c) \/ StatsStart(c) \/ Cancel(c)
             \/ GenerateToken(c) \/ Fetch(c) \/ EnterClosed(c) \/ EnterEmpty(c)
             \/ EnterNative(c) \/ Abandon(c) \/ GenerateStart(c) \/ GenerateEnd(c)
             \/ Finish(c) \/ FinishQuietly(c) \/ StatsEnd(c)
      PROVE  StatusHonest' /\ NoFailureWhileLoading'
  <2>1. UNCHANGED <<isEngineReady, owner, lpc>>
    BY <1>20, ClientsLeaveLifeAlone DEF lifeVars
  <2>2. status' \in {status, "notready", "done"}
    BY <1>20 DEF Submit, Refuse, StatsStart, Cancel, GenerateToken, Fetch, EnterClosed,
       EnterEmpty, EnterNative, Abandon, GenerateStart, GenerateEnd, Finish, FinishQuietly,
       StatsEnd
  <2>. QED
    BY <2>1, <2>2
<1>21. ASSUME NEW p \in Paths, FileAppears(p) \/ FileDeleted(p)
      PROVE  StatusHonest' /\ NoFailureWhileLoading'
  BY <1>21 DEF FileAppears, FileDeleted
<1>22. ASSUME ProcessDeath
      PROVE  StatusHonest' /\ NoFailureWhileLoading'
  BY <1>22 DEF ProcessDeath
<1>23. CASE UNCHANGED vars
  BY <1>23 DEF vars
<1>. QED
  BY <1>0, StepCases,
     <1>1, <1>2, <1>3, <1>4, <1>5, <1>6, <1>7, <1>8, <1>9, <1>10, <1>11, <1>12,
     <1>13, <1>14, <1>15, <1>16, <1>17, <1>18, <1>19, <1>20, <1>21, <1>22, <1>23

(* "Loading" is shown only while a load runs and "Load Failed" only over a *)
(* controller that refuses chats.                                          *)
THEOREM StatusHonestCorrect == Spec => []StatusHonest
<1>1. Init => StatusInv
  BY LifecycleInit DEF Init, StatusInv, StatusHonest, NoFailureWhileLoading
<1>2. StatusInv /\ [Next]_vars => StatusInv'
  BY StatusStep, LifecycleStep DEF StatusInv
<1>3. StatusInv => StatusHonest
  BY DEF StatusInv
<1>. QED
  BY <1>1, <1>2, <1>3, PTL DEF Spec

-----------------------------------------------------------------------------
(***************************************************************************)
(* The controller implements the one-model slot.                           *)
(***************************************************************************)
(* Under the invariant the slot holds at most the controller's engine.     *)
LEMMA ResidentIsCurrent ==
  ASSUME LifecycleInv
  PROVE  Resident \subseteq {engine}
BY DEF LifecycleInv, NoLeakedModel, Resident

(* Every step of the controller is a step of the slot or a stutter.        *)
LEMMA SlotStep ==
  ASSUME LifecycleInv, LifecycleInv', [Next]_vars
  PROVE  [Slot!Next]_(Slot!vars)
<1>0. TypeOK
  BY DEF LifecycleInv
<1>. USE DEF Slot!vars, Resident, ReleasedOnClose, ctlVars, engineVars
<1>1. ASSUME NEW l \in Loaders, NEW p \in Paths, Request(l, p)
      PROVE  [Slot!Next]_(Slot!vars)
  BY <1>1 DEF Request
<1>2. ASSUME NEW l \in Loaders, AnnounceOnly(l, "active")
      PROVE  [Slot!Next]_(Slot!vars)
  BY <1>2 DEF AnnounceOnly
<1>3. ASSUME NEW l \in Loaders, AnnounceOnly(l, "nomodel")
      PROVE  [Slot!Next]_(Slot!vars)
  BY <1>3 DEF AnnounceOnly
<1>4. ASSUME NEW l \in Loaders, NoLocalModel(l)
      PROVE  [Slot!Next]_(Slot!vars)
  BY <1>4 DEF NoLocalModel, Slot!Next, Slot!Withdraw
<1>5. ASSUME NEW l \in Loaders, LeaveQueue(l)
      PROVE  [Slot!Next]_(Slot!vars)
  BY <1>5 DEF LeaveQueue
<1>6. ASSUME NEW l \in Loaders, Acquire(l)
      PROVE  [Slot!Next]_(Slot!vars)
  BY <1>6 DEF Acquire
<1>7. ASSUME NEW l \in Loaders, AlreadyActive(l)
      PROVE  [Slot!Next]_(Slot!vars)
  BY <1>7 DEF AlreadyActive
<1>8. ASSUME NEW l \in Loaders, StartLoading(l)
      PROVE  [Slot!Next]_(Slot!vars)
  BY <1>8 DEF StartLoading
<1>9. ASSUME NEW l \in Loaders, Validate(l)
      PROVE  [Slot!Next]_(Slot!vars)
  BY <1>9 DEF Validate
<1>10. ASSUME NEW l \in Loaders, CloseHandle(l)
      PROVE  [Slot!Next]_(Slot!vars)
  BY <1>10 DEF CloseHandle
<1>11. ASSUME NEW l \in Loaders, FreeModel(l)
      PROVE  [Slot!Next]_(Slot!vars)
  <2>1. Resident' = Resident \ {engine}
    BY <1>0, <1>11 DEF FreeModel, TypeOK
  <2>2. UNCHANGED isEngineReady /\ engine \in Engines
    BY <1>0, <1>11 DEF FreeModel, TypeOK
  <2>. QED
    BY <2>1, <2>2 DEF Slot!Next, Slot!Evict
<1>12. ASSUME NEW l \in Loaders, CloseEnd(l)
      PROVE  [Slot!Next]_(Slot!vars)
  BY <1>12 DEF CloseEnd
<1>13. ASSUME NEW l \in Loaders, NEW e \in Engines, Construct(l, e)
      PROVE  [Slot!Next]_(Slot!vars)
  <2>1. ~(native[engine] = "live" /\ ReleasedOnClose(engine))
    BY <1>13 DEF Construct, LifecycleInv, PhaseInv
  <2>2. Resident' = {}
    BY <1>0, <1>13, <2>1 DEF Construct, Unreachable, LifecycleInv, NoLeakedModel, TypeOK
  <2>3. Resident' = Resident \ {engine}
    BY <2>2, ResidentIsCurrent
  <2>4. UNCHANGED isEngineReady /\ engine \in Engines
    BY <1>0, <1>13 DEF Construct, TypeOK
  <2>. QED
    BY <2>3, <2>4 DEF Slot!Next, Slot!Evict
<1>14. ASSUME NEW l \in Loaders, InitModel(l)
      PROVE  [Slot!Next]_(Slot!vars)
  <2>1. native[engine] = "none"
    BY <1>14 DEF InitModel, LifecycleInv, PhaseInv
  <2>2. Resident = {}
    BY <2>1, ResidentIsCurrent
  <2>3. Resident' = {engine}
    BY <1>0, <1>14, <2>2 DEF InitModel, TypeOK
  <2>4. UNCHANGED isEngineReady /\ engine \in Engines
    BY <1>0, <1>14 DEF InitModel, TypeOK
  <2>. QED
    BY <2>2, <2>3, <2>4 DEF Slot!Next, Slot!Fill
<1>15. ASSUME NEW l \in Loaders, InitEnd(l)
      PROVE  [Slot!Next]_(Slot!vars)
  BY <1>15 DEF InitEnd
<1>16. ASSUME NEW l \in Loaders, MarkReady(l)
      PROVE  [Slot!Next]_(Slot!vars)
  <2>1. engine \in Resident
    BY <1>0, <1>16 DEF MarkReady, TypeOK, LifecycleInv, PhaseInv, Usable
  <2>. QED
    BY <1>16, <2>1 DEF MarkReady, Slot!Next, Slot!BecomeReady
<1>17. ASSUME NEW l \in Loaders, Publish(l)
      PROVE  [Slot!Next]_(Slot!vars)
  BY <1>17 DEF Publish
<1>18. ASSUME NEW l \in Loaders, Catch(l)
      PROVE  [Slot!Next]_(Slot!vars)
  BY <1>18 DEF Catch, Slot!Next, Slot!Withdraw
<1>19. ASSUME NEW l \in Loaders, Report(l)
      PROVE  [Slot!Next]_(Slot!vars)
  BY <1>19 DEF Report
<1>20. ASSUME UNCHANGED lifeVars
      PROVE  [Slot!Next]_(Slot!vars)
  BY <1>20 DEF lifeVars
<1>21. ASSUME NEW p \in Paths, FileAppears(p) \/ FileDeleted(p)
      PROVE  [Slot!Next]_(Slot!vars)
  BY <1>21 DEF FileAppears, FileDeleted
<1>22. ASSUME ProcessDeath
      PROVE  [Slot!Next]_(Slot!vars)
  <2>1. Resident' = {} /\ isEngineReady' = FALSE
    BY <1>22 DEF ProcessDeath
  <2>. QED
    BY <2>1 DEF Slot!Next, Slot!PowerOff
<1>23. CASE UNCHANGED vars
  BY <1>23 DEF vars
<1>. QED
  BY <1>0, StepCases, ClientsLeaveLifeAlone,
     <1>1, <1>2, <1>3, <1>4, <1>5, <1>6, <1>7, <1>8, <1>9, <1>10, <1>11, <1>12,
     <1>13, <1>14, <1>15, <1>16, <1>17, <1>18, <1>19, <1>20, <1>21, <1>22, <1>23

(* Memory and readiness as the user of the controller sees them are those  *)
(* of ModelSlot, for every instance.                                       *)
THEOREM SlotRefinement == Spec => SlotSpec
<1>1. Init => Slot!Init
  BY DEF Init, Slot!Init, Resident
<1>2. LifecycleInv /\ LifecycleInv' /\ [Next]_vars => [Slot!Next]_(Slot!vars)
  BY SlotStep
<1>. QED
  BY <1>1, <1>2, LifecycleCorrect, PTL DEF Spec, SlotSpec, Slot!Spec
=============================================================================
