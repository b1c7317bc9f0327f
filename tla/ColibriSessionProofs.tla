------------------------- MODULE ColibriSessionProofs -------------------------
(***************************************************************************)
(* Proofs that the safety properties of ColibriSession hold for any number *)
(* of clients, any context and any limit of tokens, and that the session   *)
(* implements Conversation.                                                *)
(***************************************************************************)
EXTENDS ColibriSession, TLAPS

(* Initially the invariant holds.                                          *)
LEMMA InvInit == ASSUME Init PROVE SessionInv
<1>. USE ColibriAssumption DEF Init
<1>1. TypeOK
  BY DEF TypeOK, Phases
<1>2. HolderInv /\ ContextInv
  BY DEF HolderInv, ContextInv, Holding
<1>3. CacheInv /\ AbortInv /\ DecodesOwnPrompt /\ AbortStops /\ WithinContext
  BY DEF CacheInv, AbortInv, DecodesOwnPrompt, AbortStops, WithinContext, Decoding, Holding
<1>. QED
  BY <1>1, <1>2, <1>3 DEF SessionInv

(* The steps of close(), the abort and the death of the process keep it.   *)
LEMMA EngineKeeps ==
  ASSUME SessionInv,
         InitModel \/ InitEnd \/ Close \/ AbortGeneration \/ Crash
  PROVE  SessionInv'
<1>. USE ColibriAssumption
     DEF SessionInv, TypeOK, HolderInv, ContextInv, CacheInv, AbortInv,
         DecodesOwnPrompt, AbortStops, WithinContext, Phases, Queued, Holding, Decoding,
         lifeVars, cacheVars, abortVars, clientVars
<1>1. CASE InitModel
  BY <1>1 DEF InitModel
<1>2. CASE InitEnd
  BY <1>2 DEF InitEnd
<1>3. CASE CloseHandle
  <2>1. TypeOK'
    BY <1>3 DEF CloseHandle
  <2>2. HolderInv' /\ ContextInv'
    BY <1>3 DEF CloseHandle
  <2>3. CacheInv' /\ AbortInv' /\ AbortStops' /\ WithinContext'
    BY <1>3 DEF CloseHandle
  <2>4. DecodesOwnPrompt'
    BY <1>3 DEF CloseHandle
  <2>. QED
    BY <2>1, <2>2, <2>3, <2>4
<1>4. CASE CloseAbort
  <2>1. TypeOK'
    BY <1>4 DEF CloseAbort, Raise
  <2>2. HolderInv' /\ ContextInv'
    BY <1>4 DEF CloseAbort, Raise
  <2>3. CacheInv' /\ AbortInv' /\ AbortStops' /\ WithinContext'
    BY <1>4 DEF CloseAbort, Raise
  <2>4. DecodesOwnPrompt'
    BY <1>4 DEF CloseAbort, Raise
  <2>. QED
    BY <2>1, <2>2, <2>3, <2>4
<1>5. CASE ReleaseModel
  <2>1. TypeOK'
    BY <1>5 DEF ReleaseModel
  <2>2. HolderInv' /\ ContextInv'
    BY <1>5 DEF ReleaseModel
  <2>3. CacheInv' /\ AbortInv' /\ AbortStops' /\ WithinContext'
    BY <1>5 DEF ReleaseModel
  <2>4. DecodesOwnPrompt'
    BY <1>5 DEF ReleaseModel
  <2>. QED
    BY <2>1, <2>2, <2>3, <2>4
<1>6. CASE CloseEnd
  <2>1. TypeOK'
    BY <1>6 DEF CloseEnd
  <2>2. HolderInv' /\ ContextInv'
    BY <1>6 DEF CloseEnd
  <2>3. CacheInv' /\ AbortInv' /\ AbortStops' /\ WithinContext'
    BY <1>6 DEF CloseEnd
  <2>4. DecodesOwnPrompt'
    BY <1>6 DEF CloseEnd
  <2>. QED
    BY <2>1, <2>2, <2>3, <2>4
<1>7. CASE AbortGeneration
  <2>1. TypeOK'
    BY <1>7 DEF AbortGeneration, Raise
  <2>2. HolderInv' /\ ContextInv'
    BY <1>7 DEF AbortGeneration, Raise
  <2>3. CacheInv' /\ AbortInv' /\ AbortStops' /\ WithinContext'
    BY <1>7 DEF AbortGeneration, Raise
  <2>4. DecodesOwnPrompt'
    BY <1>7 DEF AbortGeneration, Raise
  <2>. QED
    BY <2>1, <2>2, <2>3, <2>4
<1>8. CASE Crash
  <2>1. TypeOK'
    BY <1>8 DEF Crash
  <2>2. HolderInv' /\ ContextInv'
    BY <1>8 DEF Crash
  <2>3. CacheInv' /\ AbortInv' /\ AbortStops' /\ WithinContext'
    BY <1>8 DEF Crash
  <2>4. DecodesOwnPrompt'
    BY <1>8 DEF Crash
  <2>. QED
    BY <2>1, <2>2, <2>3, <2>4
<1>. QED
  BY <1>1, <1>2, <1>3, <1>4, <1>5, <1>6, <1>7, <1>8 DEF Close

(* resetSession keeps it.                                                  *)
LEMMA ResetKeeps == ASSUME SessionInv, Reset PROVE SessionInv'
<1>. USE ColibriAssumption
     DEF SessionInv, TypeOK, HolderInv, ContextInv, CacheInv, AbortInv,
         DecodesOwnPrompt, AbortStops, WithinContext, Phases, Queued, Holding, Decoding,
         lifeVars, cacheVars, abortVars, clientVars
<1>1. CASE ResetStart
  BY <1>1 DEF ResetStart
<1>2. CASE ResetDestroy
  <2>1. TypeOK'
    BY <1>2 DEF ResetDestroy
  <2>2. HolderInv' /\ ContextInv'
    BY <1>2 DEF ResetDestroy
  <2>3. CacheInv' /\ AbortInv' /\ AbortStops' /\ WithinContext'
    BY <1>2 DEF ResetDestroy
  <2>4. DecodesOwnPrompt'
    BY <1>2 DEF ResetDestroy
  <2>. QED
    BY <2>1, <2>2, <2>3, <2>4
<1>3. CASE ResetCreate
  <2>1. TypeOK'
    BY <1>3 DEF ResetCreate
  <2>2. HolderInv' /\ ContextInv'
    BY <1>3 DEF ResetCreate
  <2>3. CacheInv' /\ AbortInv' /\ AbortStops' /\ WithinContext'
    BY <1>3 DEF ResetCreate
  <2>4. DecodesOwnPrompt'
    BY <1>3 DEF ResetCreate
  <2>. QED
    BY <2>1, <2>2, <2>3, <2>4
<1>. QED
  BY <1>1, <1>2, <1>3 DEF Reset

(* Every step of a generation keeps it.                                    *)
LEMMA ClientKeeps ==
  ASSUME SessionInv, NEW c \in Clients, Chat(c) \/ Generate(c)
  PROVE  SessionInv'
<1>. USE ColibriAssumption
     DEF SessionInv, TypeOK, HolderInv, ContextInv, CacheInv, AbortInv,
         DecodesOwnPrompt, AbortStops, WithinContext, Phases, Queued, Holding, Decoding,
         lifeVars, cacheVars, abortVars, clientVars, Go, Cancelled
<1>1. CASE Chat(c)
  BY <1>1 DEF Chat
<1>2. CASE Enter(c)
  <2>1. TypeOK'
    BY <1>2 DEF Enter
  <2>2. HolderInv' /\ ContextInv'
    BY <1>2 DEF Enter
  <2>3. CacheInv' /\ AbortInv' /\ AbortStops' /\ WithinContext'
    BY <1>2 DEF Enter
  <2>4. DecodesOwnPrompt'
    BY <1>2 DEF Enter
  <2>. QED
    BY <2>1, <2>2, <2>3, <2>4
<1>3. CASE Lock(c)
  BY <1>3 DEF Lock
<1>4. CASE Fail(c)
  BY <1>4 DEF Fail, Leave
<1>5. ASSUME NEW rows \in 1 .. Context - 1, Prefill(c, rows) PROVE SessionInv'
  <2>1. TypeOK'
    BY <1>5 DEF Prefill, Runs
  <2>2. HolderInv' /\ ContextInv'
    BY <1>5 DEF Prefill, Runs
  <2>3. CacheInv' /\ AbortInv' /\ AbortStops' /\ WithinContext'
    BY <1>5 DEF Prefill, Runs
  <2>4. DecodesOwnPrompt'
    BY <1>5 DEF Prefill, Runs
  <2>. QED
    BY <2>1, <2>2, <2>3, <2>4
<1>6. CASE Select(c)
  BY <1>6 DEF Select
<1>7. CASE Check(c)
  BY <1>7 DEF Check
<1>8. CASE Stop(c)
  BY <1>8 DEF Stop, Leave
<1>9. CASE Deliver(c)
  BY <1>9 DEF Deliver
<1>10. CASE Step(c)
  BY <1>10 DEF Step, Runs
<1>. QED
  BY <1>1, <1>2, <1>3, <1>4, <1>5, <1>6, <1>7, <1>8, <1>9, <1>10 DEF Generate

(* The invariant is inductive.                                             *)
THEOREM SessionInvariant == Spec => []SessionInv
<1>1. SessionInv /\ [Next]_vars => SessionInv'
  <2>. SUFFICES ASSUME SessionInv, [Next]_vars PROVE SessionInv'
    OBVIOUS
  <2>1. CASE UNCHANGED vars
    BY <2>1 DEF vars, lifeVars, cacheVars, abortVars, clientVars, SessionInv, TypeOK, HolderInv,
       ContextInv, CacheInv, AbortInv, DecodesOwnPrompt, AbortStops, WithinContext
  <2>. QED
    BY <2>1, EngineKeeps, ResetKeeps, ClientKeeps DEF Next
<1>. QED
  BY <1>1, InvInit, PTL DEF Spec

(* Every variable keeps its type (the whole module).                       *)
THEOREM TypeCorrect == Spec => []TypeOK
  BY SessionInvariant, PTL DEF SessionInv

(* A generation that decodes goes on from its own prompt, however many     *)
(* wait for session_mutex (colibri_jni_bridge.cpp:585, 1071).              *)
THEOREM OwnPrompt == Spec => []DecodesOwnPrompt
  BY SessionInvariant, PTL DEF SessionInv

(* At most one token is delivered under a raised abort flag                *)
(* (colibri_jni_bridge.cpp:251-255, 729).                                  *)
THEOREM AtMostOneLate == Spec => []AbortStops
  BY SessionInvariant, PTL DEF SessionInv

(* The cache stays within the context (colibri_jni_bridge.cpp:606, 700).   *)
THEOREM CacheBounded == Spec => []WithinContext
  BY SessionInvariant, PTL DEF SessionInv

(* Every step of the module is a step of Conversation or a stutter.        *)
LEMMA StepRefines ==
  ASSUME SessionInv, [Next]_vars
  PROVE  [Promised!Next]_<<author, position>>
<1>. USE ColibriAssumption
     DEF lifeVars, cacheVars, abortVars, clientVars, Promised!Next, Promised!Open,
         Promised!Extend, Promised!Drop
<1>1. CASE UNCHANGED vars
  BY <1>1 DEF vars
<1>2. CASE InitModel \/ InitEnd \/ Close \/ AbortGeneration \/ Crash
  BY <1>2 DEF InitModel, InitEnd, Close, CloseHandle, CloseAbort, ReleaseModel, CloseEnd,
     AbortGeneration, Crash
<1>3. CASE Reset
  BY <1>3 DEF Reset, ResetStart, ResetDestroy, ResetCreate
<1>4. ASSUME NEW c \in Clients, Chat(c) \/ Generate(c)
      PROVE  [Promised!Next]_<<author, position>>
  <2>1. ASSUME NEW rows \in 1 .. Context - 1, Prefill(c, rows)
        PROVE  Promised!Open
    BY <2>1 DEF Prefill, Runs, SessionInv, CacheInv
  <2>2. CASE Step(c)
    BY <2>2 DEF Step, Runs, SessionInv, CacheInv, Decoding, Holding
  <2>3. CASE Chat(c) \/ Enter(c) \/ Lock(c) \/ Fail(c) \/ Select(c) \/ Check(c)
             \/ Stop(c) \/ Deliver(c)
    BY <2>3 DEF Chat, Enter, Lock, Fail, Select, Check, Stop, Deliver, Leave
  <2>. QED
    BY <1>4, <2>1, <2>2, <2>3 DEF Generate
<1>. QED
  BY <1>1, <1>2, <1>3, <1>4 DEF Next

(* The session implements the record of one conversation at a time: no     *)
(* answer is ever decoded over the rows of another                         *)
(* (colibri_jni_bridge.cpp:641, olmoe.c:2103).                             *)
THEOREM Refinement == Spec => ConversationSpec
<1>1. Init => Promised!Init
  BY DEF Init, Promised!Init
<1>. QED
  BY <1>1, StepRefines, SessionInvariant, PTL DEF Spec, ConversationSpec, Promised!Spec
=============================================================================
