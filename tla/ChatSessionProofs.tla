--------------------------- MODULE ChatSessionProofs ---------------------------
(***************************************************************************)
(* Proofs that the safety properties of ChatSession hold for every number  *)
(* of generations and every length of an answer.                           *)
(***************************************************************************)
EXTENDS ChatSession, TLAPS

(* Initially every variable has its type.                                  *)
LEMMA TypeInit == ASSUME Init PROVE TypeOK
<1>1. 0 \in 0 .. MaxChunks
  BY ChatAssumption
<1>. QED
  BY <1>1, ChatAssumption DEF Init, TypeOK, MainPhases, JobPhases, Operations

(* One more chunk than a length below the bound is within it.              *)
LEMMA OneMore ==
  ASSUME NEW n \in 0 .. MaxChunks, n < MaxChunks
  PROVE  n + 1 \in 0 .. MaxChunks
  BY ChatAssumption

(* Every step keeps every variable's type.                                 *)
LEMMA TypeStep ==
  ASSUME TypeOK, [Next]_vars
  PROVE  TypeOK'
<1>. USE ChatAssumption
     DEF TypeOK, MainPhases, JobPhases, Operations, mainVars, flagVars, messageVars, jobVars
<1>1. ASSUME NEW o \in Operations, Press(o) PROVE TypeOK'
  BY <1>1 DEF Press
<1>2. ASSUME CancelJob PROVE TypeOK'
  BY <1>2 DEF CancelJob
<1>3. ASSUME LowerFlag PROVE TypeOK'
  BY <1>3 DEF LowerFlag
<1>4. ASSUME ForgetMessage PROVE TypeOK'
  BY <1>4 DEF ForgetMessage
<1>5. ASSUME StripStreaming PROVE TypeOK'
  BY <1>5 DEF StripStreaming
<1>6. ASSUME EmptyMessages PROVE TypeOK'
  BY <1>6 DEF EmptyMessages
<1>7. ASSUME AnswerTrade PROVE TypeOK'
  BY <1>7 DEF AnswerTrade
<1>8. ASSUME NEW j \in Chats, AppendPlaceholder(j) PROVE TypeOK'
  BY <1>8 DEF AppendPlaceholder
<1>9. ASSUME RaiseFlag PROVE TypeOK'
  BY <1>9 DEF RaiseFlag
<1>10. ASSUME MarkMessage PROVE TypeOK'
  BY <1>10 DEF MarkMessage
<1>11. ASSUME Launch PROVE TypeOK'
  BY <1>11 DEF Launch
<1>12. ASSUME NEW j \in Chats, Begin(j) PROVE TypeOK'
  BY <1>12 DEF Begin, Go
<1>13. ASSUME NEW j \in Chats, NeverBegin(j) PROVE TypeOK'
  BY <1>13 DEF NeverBegin, Go
<1>14. ASSUME NEW j \in Chats, Chunk(j) PROVE TypeOK'
  <2>1. chunks[j] \in 0 .. MaxChunks /\ chunks[j] < MaxChunks
    BY <1>14 DEF Chunk
  <2>2. chunks[j] + 1 \in 0 .. MaxChunks
    BY <2>1, OneMore
  <2>3. chunks' \in [Chats -> 0 .. MaxChunks]
    BY <1>14, <2>2 DEF Chunk
  <2>4. shown' \in [Chats -> 0 .. MaxChunks] /\ isStreaming' \in [Chats -> BOOLEAN]
    <3>1. CASE ShowText(j, chunks[j] + 1, TRUE)
      BY <2>2, <3>1 DEF ShowText
    <3>2. CASE UNCHANGED <<shown, isStreaming>>
      BY <3>2
    <3>. QED
      BY <1>14, <3>1, <3>2 DEF Chunk
  <2>. QED
    BY <1>14, <2>3, <2>4 DEF Chunk
<1>15. ASSUME NEW j \in Chats, StreamReturns(j) PROVE TypeOK'
  BY <1>15 DEF StreamReturns, Go
<1>16. ASSUME NEW j \in Chats, StreamThrows(j) PROVE TypeOK'
  BY <1>16 DEF StreamThrows, Go
<1>17. ASSUME NEW j \in Chats, FinalFlush(j) PROVE TypeOK'
  BY <1>17 DEF FinalFlush, Go, ShowText
<1>18. ASSUME NEW j \in Chats, Store(j) PROVE TypeOK'
  BY <1>18 DEF Store, Go
<1>19. ASSUME NEW j \in Chats, Catch(j) PROVE TypeOK'
  BY <1>19 DEF Catch, Go, ShowText
<1>20. ASSUME NEW j \in Chats, FinallyLowerFlag(j) PROVE TypeOK'
  BY <1>20 DEF FinallyLowerFlag, Go
<1>21. ASSUME NEW j \in Chats, FinallyForget(j) PROVE TypeOK'
  BY <1>21 DEF FinallyForget, Go
<1>22. CASE UNCHANGED vars
  BY <1>22 DEF vars
<1>. QED
  BY <1>1, <1>2, <1>3, <1>4, <1>5, <1>6, <1>7, <1>8, <1>9, <1>10, <1>11, <1>12, <1>13, <1>14, <1>15, <1>16, <1>17, <1>18, <1>19, <1>20, <1>21, <1>22 DEF Next, MainStep, JobStep

(* The main thread has no generation in hand between a cancellation and    *)
(* the next launch, and no live generation escapes activeGenerationJob.    *)
LEMMA LiveStep ==
  ASSUME TypeOK, OneLiveGeneration, MainInv, [Next]_vars
  PROVE  OneLiveGeneration' /\ MainInv'
<1>. USE ChatAssumption
     DEF TypeOK, OneLiveGeneration, MainInv, Live, Cancelling, MainPhases, JobPhases,
         Operations, mainVars, flagVars, messageVars, jobVars
<1>1. ASSUME NEW o \in Operations, Press(o) PROVE OneLiveGeneration' /\ MainInv'
  BY <1>1 DEF Press
<1>2. ASSUME CancelJob PROVE OneLiveGeneration' /\ MainInv'
  BY <1>2 DEF CancelJob
<1>3. ASSUME LowerFlag PROVE OneLiveGeneration' /\ MainInv'
  BY <1>3 DEF LowerFlag
<1>4. ASSUME ForgetMessage PROVE OneLiveGeneration' /\ MainInv'
  BY <1>4 DEF ForgetMessage
<1>5. ASSUME StripStreaming PROVE OneLiveGeneration' /\ MainInv'
  BY <1>5 DEF StripStreaming
<1>6. ASSUME EmptyMessages PROVE OneLiveGeneration' /\ MainInv'
  BY <1>6 DEF EmptyMessages
<1>7. ASSUME AnswerTrade PROVE OneLiveGeneration' /\ MainInv'
  BY <1>7 DEF AnswerTrade
<1>8. ASSUME NEW j \in Chats, AppendPlaceholder(j) PROVE OneLiveGeneration' /\ MainInv'
  BY <1>8 DEF AppendPlaceholder
<1>9. ASSUME RaiseFlag PROVE OneLiveGeneration' /\ MainInv'
  BY <1>9 DEF RaiseFlag
<1>10. ASSUME MarkMessage PROVE OneLiveGeneration' /\ MainInv'
  BY <1>10 DEF MarkMessage
<1>11. ASSUME Launch PROVE OneLiveGeneration' /\ MainInv'
  BY <1>11 DEF Launch
<1>12. ASSUME NEW j \in Chats, Begin(j) PROVE OneLiveGeneration' /\ MainInv'
  BY <1>12 DEF Begin, Go
<1>13. ASSUME NEW j \in Chats, NeverBegin(j) PROVE OneLiveGeneration' /\ MainInv'
  BY <1>13 DEF NeverBegin, Go
<1>14. ASSUME NEW j \in Chats, Chunk(j) PROVE OneLiveGeneration' /\ MainInv'
  BY <1>14 DEF Chunk, Go, ShowText
<1>15. ASSUME NEW j \in Chats, StreamReturns(j) PROVE OneLiveGeneration' /\ MainInv'
  BY <1>15 DEF StreamReturns, Go
<1>16. ASSUME NEW j \in Chats, StreamThrows(j) PROVE OneLiveGeneration' /\ MainInv'
  BY <1>16 DEF StreamThrows, Go
<1>17. ASSUME NEW j \in Chats, FinalFlush(j) PROVE OneLiveGeneration' /\ MainInv'
  BY <1>17 DEF FinalFlush, Go, ShowText
<1>18. ASSUME NEW j \in Chats, Store(j) PROVE OneLiveGeneration' /\ MainInv'
  BY <1>18 DEF Store, Go
<1>19. ASSUME NEW j \in Chats, Catch(j) PROVE OneLiveGeneration' /\ MainInv'
  BY <1>19 DEF Catch, Go, ShowText
<1>20. ASSUME NEW j \in Chats, FinallyLowerFlag(j) PROVE OneLiveGeneration' /\ MainInv'
  BY <1>20 DEF FinallyLowerFlag, Go
<1>21. ASSUME NEW j \in Chats, FinallyForget(j) PROVE OneLiveGeneration' /\ MainInv'
  BY <1>21 DEF FinallyForget, Go
<1>22. CASE UNCHANGED vars
  BY <1>22 DEF vars
<1>. QED
  BY <1>1, <1>2, <1>3, <1>4, <1>5, <1>6, <1>7, <1>8, <1>9, <1>10, <1>11, <1>12, <1>13, <1>14, <1>15, <1>16, <1>17, <1>18, <1>19, <1>20, <1>21, <1>22 DEF Next, MainStep, JobStep

(* A raised flag always has a coroutine, or the main thread, to lower it.  *)
LEMMA FlagStep ==
  ASSUME TypeOK, MainInv, FlagInv, [Next]_vars
  PROVE  FlagInv'
<1>. USE ChatAssumption
     DEF TypeOK, MainInv, FlagInv, WillBegin, MainPhases, Operations, mainVars, flagVars, messageVars, jobVars
<1>1. ASSUME NEW o \in Operations, Press(o) PROVE FlagInv'
  BY <1>1 DEF Press
<1>2. ASSUME CancelJob PROVE FlagInv'
  BY <1>2 DEF CancelJob
<1>3. ASSUME LowerFlag PROVE FlagInv'
  BY <1>3 DEF LowerFlag
<1>4. ASSUME ForgetMessage PROVE FlagInv'
  BY <1>4 DEF ForgetMessage
<1>5. ASSUME StripStreaming PROVE FlagInv'
  BY <1>5 DEF StripStreaming
<1>6. ASSUME EmptyMessages PROVE FlagInv'
  BY <1>6 DEF EmptyMessages
<1>7. ASSUME AnswerTrade PROVE FlagInv'
  BY <1>7 DEF AnswerTrade
<1>8. ASSUME NEW j \in Chats, AppendPlaceholder(j) PROVE FlagInv'
  BY <1>8 DEF AppendPlaceholder
<1>9. ASSUME RaiseFlag PROVE FlagInv'
  BY <1>9 DEF RaiseFlag
<1>10. ASSUME MarkMessage PROVE FlagInv'
  BY <1>10 DEF MarkMessage
<1>11. ASSUME Launch PROVE FlagInv'
  BY <1>11 DEF Launch
<1>12. ASSUME NEW j \in Chats, Begin(j) PROVE FlagInv'
  BY <1>12 DEF Begin, Go
<1>13. ASSUME NEW j \in Chats, NeverBegin(j) PROVE FlagInv'
  BY <1>13 DEF NeverBegin, Go
<1>14. ASSUME NEW j \in Chats, Chunk(j) PROVE FlagInv'
  BY <1>14 DEF Chunk, Go, ShowText
<1>15. ASSUME NEW j \in Chats, StreamReturns(j) PROVE FlagInv'
  BY <1>15 DEF StreamReturns, Go
<1>16. ASSUME NEW j \in Chats, StreamThrows(j) PROVE FlagInv'
  BY <1>16 DEF StreamThrows, Go
<1>17. ASSUME NEW j \in Chats, FinalFlush(j) PROVE FlagInv'
  BY <1>17 DEF FinalFlush, Go, ShowText
<1>18. ASSUME NEW j \in Chats, Store(j) PROVE FlagInv'
  BY <1>18 DEF Store, Go
<1>19. ASSUME NEW j \in Chats, Catch(j) PROVE FlagInv'
  BY <1>19 DEF Catch, Go, ShowText
<1>20. ASSUME NEW j \in Chats, FinallyLowerFlag(j) PROVE FlagInv'
  BY <1>20 DEF FinallyLowerFlag, Go
<1>21. ASSUME NEW j \in Chats, FinallyForget(j) PROVE FlagInv'
  BY <1>21 DEF FinallyForget, Go
<1>22. CASE UNCHANGED vars
  BY <1>22 DEF vars
<1>. QED
  BY <1>1, <1>2, <1>3, <1>4, <1>5, <1>6, <1>7, <1>8, <1>9, <1>10, <1>11, <1>12, <1>13, <1>14, <1>15, <1>16, <1>17, <1>18, <1>19, <1>20, <1>21, <1>22 DEF Next, MainStep, JobStep

(* A message that is being streamed always has a coroutine, or the main    *)
(* thread, to end that.                                                    *)
LEMMA StreamingStep ==
  ASSUME TypeOK, MainInv, StreamingInv, [Next]_vars
  PROVE  StreamingInv'
<1>. USE ChatAssumption
     DEF TypeOK, MainInv, StreamingInv, WillBegin, MainPhases, Operations, mainVars, flagVars, messageVars, jobVars
<1>1. ASSUME NEW o \in Operations, Press(o) PROVE StreamingInv'
  BY <1>1 DEF Press
<1>2. ASSUME CancelJob PROVE StreamingInv'
  BY <1>2 DEF CancelJob
<1>3. ASSUME LowerFlag PROVE StreamingInv'
  BY <1>3 DEF LowerFlag
<1>4. ASSUME ForgetMessage PROVE StreamingInv'
  BY <1>4 DEF ForgetMessage
<1>5. ASSUME StripStreaming PROVE StreamingInv'
  BY <1>5 DEF StripStreaming
<1>6. ASSUME EmptyMessages PROVE StreamingInv'
  BY <1>6 DEF EmptyMessages
<1>7. ASSUME AnswerTrade PROVE StreamingInv'
  BY <1>7 DEF AnswerTrade
<1>8. ASSUME NEW j \in Chats, AppendPlaceholder(j) PROVE StreamingInv'
  BY <1>8 DEF AppendPlaceholder
<1>9. ASSUME RaiseFlag PROVE StreamingInv'
  BY <1>9 DEF RaiseFlag
<1>10. ASSUME MarkMessage PROVE StreamingInv'
  BY <1>10 DEF MarkMessage
<1>11. ASSUME Launch PROVE StreamingInv'
  BY <1>11 DEF Launch
<1>12. ASSUME NEW j \in Chats, Begin(j) PROVE StreamingInv'
  BY <1>12 DEF Begin, Go
<1>13. ASSUME NEW j \in Chats, NeverBegin(j) PROVE StreamingInv'
  BY <1>13 DEF NeverBegin, Go
<1>14. ASSUME NEW j \in Chats, Chunk(j) PROVE StreamingInv'
  BY <1>14 DEF Chunk, Go, ShowText
<1>15. ASSUME NEW j \in Chats, StreamReturns(j) PROVE StreamingInv'
  BY <1>15 DEF StreamReturns, Go
<1>16. ASSUME NEW j \in Chats, StreamThrows(j) PROVE StreamingInv'
  BY <1>16 DEF StreamThrows, Go
<1>17. ASSUME NEW j \in Chats, FinalFlush(j) PROVE StreamingInv'
  BY <1>17 DEF FinalFlush, Go, ShowText
<1>18. ASSUME NEW j \in Chats, Store(j) PROVE StreamingInv'
  BY <1>18 DEF Store, Go
<1>19. ASSUME NEW j \in Chats, Catch(j) PROVE StreamingInv'
  BY <1>19 DEF Catch, Go, ShowText
<1>20. ASSUME NEW j \in Chats, FinallyLowerFlag(j) PROVE StreamingInv'
  BY <1>20 DEF FinallyLowerFlag, Go
<1>21. ASSUME NEW j \in Chats, FinallyForget(j) PROVE StreamingInv'
  BY <1>21 DEF FinallyForget, Go
<1>22. CASE UNCHANGED vars
  BY <1>22 DEF vars
<1>. QED
  BY <1>1, <1>2, <1>3, <1>4, <1>5, <1>6, <1>7, <1>8, <1>9, <1>10, <1>11, <1>12, <1>13, <1>14, <1>15, <1>16, <1>17, <1>18, <1>19, <1>20, <1>21, <1>22 DEF Next, MainStep, JobStep

(* Whatever the throttle withheld is shown before the finally block.       *)
LEMMA ShownStep ==
  ASSUME TypeOK, MainInv, ShownInv, WholeAnswerShown, [Next]_vars
  PROVE  ShownInv' /\ WholeAnswerShown'
<1>. USE ChatAssumption
     DEF TypeOK, MainInv, ShownInv, WholeAnswerShown, Operations, mainVars, flagVars, messageVars, jobVars
<1>1. ASSUME NEW o \in Operations, Press(o) PROVE ShownInv' /\ WholeAnswerShown'
  BY <1>1 DEF Press
<1>2. ASSUME CancelJob PROVE ShownInv' /\ WholeAnswerShown'
  BY <1>2 DEF CancelJob
<1>3. ASSUME LowerFlag PROVE ShownInv' /\ WholeAnswerShown'
  BY <1>3 DEF LowerFlag
<1>4. ASSUME ForgetMessage PROVE ShownInv' /\ WholeAnswerShown'
  BY <1>4 DEF ForgetMessage
<1>5. ASSUME StripStreaming PROVE ShownInv' /\ WholeAnswerShown'
  BY <1>5 DEF StripStreaming
<1>6. ASSUME EmptyMessages PROVE ShownInv' /\ WholeAnswerShown'
  BY <1>6 DEF EmptyMessages
<1>7. ASSUME AnswerTrade PROVE ShownInv' /\ WholeAnswerShown'
  BY <1>7 DEF AnswerTrade
<1>8. ASSUME NEW j \in Chats, AppendPlaceholder(j) PROVE ShownInv' /\ WholeAnswerShown'
  BY <1>8 DEF AppendPlaceholder
<1>9. ASSUME RaiseFlag PROVE ShownInv' /\ WholeAnswerShown'
  BY <1>9 DEF RaiseFlag
<1>10. ASSUME MarkMessage PROVE ShownInv' /\ WholeAnswerShown'
  BY <1>10 DEF MarkMessage
<1>11. ASSUME Launch PROVE ShownInv' /\ WholeAnswerShown'
  BY <1>11 DEF Launch
<1>12. ASSUME NEW j \in Chats, Begin(j) PROVE ShownInv' /\ WholeAnswerShown'
  BY <1>12 DEF Begin, Go
<1>13. ASSUME NEW j \in Chats, NeverBegin(j) PROVE ShownInv' /\ WholeAnswerShown'
  BY <1>13 DEF NeverBegin, Go
<1>14. ASSUME NEW j \in Chats, Chunk(j) PROVE ShownInv' /\ WholeAnswerShown'
  BY <1>14 DEF Chunk, Go, ShowText
<1>15. ASSUME NEW j \in Chats, StreamReturns(j) PROVE ShownInv' /\ WholeAnswerShown'
  BY <1>15 DEF StreamReturns, Go
<1>16. ASSUME NEW j \in Chats, StreamThrows(j) PROVE ShownInv' /\ WholeAnswerShown'
  BY <1>16 DEF StreamThrows, Go
<1>17. ASSUME NEW j \in Chats, FinalFlush(j) PROVE ShownInv' /\ WholeAnswerShown'
  BY <1>17 DEF FinalFlush, Go, ShowText
<1>18. ASSUME NEW j \in Chats, Store(j) PROVE ShownInv' /\ WholeAnswerShown'
  BY <1>18 DEF Store, Go
<1>19. ASSUME NEW j \in Chats, Catch(j) PROVE ShownInv' /\ WholeAnswerShown'
  BY <1>19 DEF Catch, Go, ShowText
<1>20. ASSUME NEW j \in Chats, FinallyLowerFlag(j) PROVE ShownInv' /\ WholeAnswerShown'
  BY <1>20 DEF FinallyLowerFlag, Go
<1>21. ASSUME NEW j \in Chats, FinallyForget(j) PROVE ShownInv' /\ WholeAnswerShown'
  BY <1>21 DEF FinallyForget, Go
<1>22. CASE UNCHANGED vars
  BY <1>22 DEF vars
<1>. QED
  BY <1>1, <1>2, <1>3, <1>4, <1>5, <1>6, <1>7, <1>8, <1>9, <1>10, <1>11, <1>12, <1>13, <1>14, <1>15, <1>16, <1>17, <1>18, <1>19, <1>20, <1>21, <1>22 DEF Next, MainStep, JobStep

(* The invariant holds initially.                                          *)
LEMMA SessionInit == ASSUME Init PROVE SessionInv
<1>1. TypeOK
  BY TypeInit
<1>. QED
  BY <1>1, ChatAssumption
  DEF Init, SessionInv, OneLiveGeneration, Live, WholeAnswerShown, MainInv, Cancelling,
      FlagInv, StreamingInv, ShownInv

(* It implies that a screen at rest shows no generation.                   *)
LEMMA RestingScreen == ASSUME SessionInv PROVE QuiescentScreen
  BY DEF SessionInv, QuiescentScreen, TypeOK, MainPhases, FlagInv, StreamingInv, WillBegin

(* The inductive invariant, for any number of overlapping generations.     *)
THEOREM SessionCorrect == Spec => []SessionInv
<1>1. SessionInv /\ [Next]_vars => SessionInv'
  BY TypeStep, LiveStep, FlagStep, StreamingStep, ShownStep DEF SessionInv
<1>. QED
  BY SessionInit, <1>1, PTL DEF Spec

(* Stop, New chat and the next message always reach the one generation     *)
(* that is not cancelled (ChatViewModel.kt:330-332).                       *)
THEOREM OneLiveGenerationCorrect == Spec => []OneLiveGeneration
<1>1. SessionInv => OneLiveGeneration
  BY DEF SessionInv
<1>. QED
  BY SessionCorrect, <1>1, PTL

(* No chunk is lost to the 30 ms throttle (ChatViewModel.kt:247, 298).     *)
THEOREM WholeAnswerShownCorrect == Spec => []WholeAnswerShown
<1>1. SessionInv => WholeAnswerShown
  BY DEF SessionInv
<1>. QED
  BY SessionCorrect, <1>1, PTL

(* With every coroutine over, neither flag is left raised and no message   *)
(* is left streaming (ChatViewModel.kt:323-340).                           *)
THEOREM QuiescentScreenCorrect == Spec => []QuiescentScreen
  BY SessionCorrect, RestingScreen, PTL

(* Every variable of the chat screen keeps its type.                       *)
THEOREM TypeCorrect == Spec => []TypeOK
<1>1. SessionInv => TypeOK
  BY DEF SessionInv
<1>. QED
  BY SessionCorrect, <1>1, PTL
=============================================================================
