------------------------------ MODULE ChatSession ------------------------------
(***************************************************************************)
(* The chat screen's generations: ChatViewModel.kt.                        *)
(*                                                                         *)
(* The main thread runs sendStream, cancelGeneration and newChat to the    *)
(* end, one at a time; every generation is a coroutine on Dispatchers.IO   *)
(* that shares the flags and the message list with it.  Cancelling a       *)
(* coroutine does not stop it: it goes on handing out chunks until the     *)
(* engine returns, and then runs its catch and finally blocks, perhaps in  *)
(* the middle of the next generation.                                      *)
(***************************************************************************)
EXTENDS Integers, FiniteSets

CONSTANTS
  Chats,       \* a generation, its coroutine and the message it fills
  MaxChunks,   \* chunks of the longest answer
  NoChat

ASSUME ChatAssumption == NoChat \notin Chats /\ MaxChunks \in Nat \ {0}

VARIABLES
  mpc, op,            \* the main thread: where it is, in which operation
  activeGenerationJob,
  placeholder,        \* assistantPlaceholderId of the sendStream under way
  isGenerating,
  activeStreamingMessageId,
  messages,           \* assistant messages on the screen
  isStreaming, shown, \* per message; shown counts its chunks
  job,                \* per generation: where its coroutine is
  cancelled,          \* ... whether it was cancelled
  chunks              \* ... chunks in its responseBuffer

mainVars  == <<mpc, op, activeGenerationJob, placeholder>>
flagVars  == <<isGenerating, activeStreamingMessageId>>
messageVars == <<messages, isStreaming, shown>>
jobVars   == <<job, cancelled, chunks>>
vars == <<mainVars, flagVars, messageVars, jobVars>>

Operations == {"send", "new", "stop"}
MainPhases == {"idle", "cancel", "flag", "name", "strip", "empty",
               "append", "raise", "mark", "launch"}
JobPhases  == {"none", "new", "run", "flush", "store", "catch", "finally",
               "clear", "over"}

Init ==
  /\ mpc = "idle" /\ op = "stop"
  /\ activeGenerationJob = NoChat
  /\ placeholder = NoChat
  /\ isGenerating = FALSE
  /\ activeStreamingMessageId = NoChat
  /\ messages = {}
  /\ isStreaming = [j \in Chats |-> FALSE]
  /\ shown = [j \in Chats |-> 0]
  /\ job = [j \in Chats |-> "none"]
  /\ cancelled = [j \in Chats |-> FALSE]
  /\ chunks = [j \in Chats |-> 0]

-----------------------------------------------------------------------------
(* The main thread.  sendStream and newChat begin with cancelGeneration.   *)

(* Mutant of CancelJob: the coroutine is forgotten and not cancelled.      *)
ForgetJob ==
  /\ mpc = "cancel"
  /\ activeGenerationJob' = NoChat
  /\ mpc' = "flag"
  /\ UNCHANGED <<op, placeholder, flagVars, messageVars, jobVars>>

(* The screen offers Stop instead of Send while isGenerating, but only     *)
(* once it has been redrawn: any button may be pressed at any time.        *)
Press(o) ==
  /\ mpc = "idle"
  /\ op' = o
  /\ mpc' = "cancel"
  /\ UNCHANGED <<activeGenerationJob, placeholder, flagVars, messageVars, jobVars>>

CancelJob ==
  /\ mpc = "cancel"
  /\ cancelled' = [j \in Chats |-> cancelled[j] \/ j = activeGenerationJob]
  /\ activeGenerationJob' = NoChat
  /\ mpc' = "flag"
  /\ UNCHANGED <<op, placeholder, flagVars, messageVars, job, chunks>>

(* Mutant of LowerFlag: cancelGeneration leaves it to the finally block.   *)
LeaveFlag ==
  /\ mpc = "flag"
  /\ mpc' = "name"
  /\ UNCHANGED <<op, activeGenerationJob, placeholder, flagVars, messageVars, jobVars>>

LowerFlag ==
  /\ mpc = "flag"
  /\ isGenerating' = FALSE
  /\ mpc' = "name"
  /\ UNCHANGED <<op, activeGenerationJob, placeholder, activeStreamingMessageId, messageVars, jobVars>>

ForgetMessage ==
  /\ mpc = "name"
  /\ activeStreamingMessageId' = NoChat
  /\ mpc' = "strip"
  /\ UNCHANGED <<op, activeGenerationJob, placeholder, isGenerating, messageVars, jobVars>>

StripStreaming ==
  /\ mpc = "strip"
  /\ isStreaming' = [j \in Chats |-> FALSE]
  /\ mpc' = CASE op = "stop" -> "idle" [] op = "new" -> "empty" [] OTHER -> "append"
  /\ UNCHANGED <<op, activeGenerationJob, placeholder, flagVars, messages, shown, jobVars>>

EmptyMessages ==
  /\ mpc = "empty"
  /\ messages' = {}
  /\ isStreaming' = [j \in Chats |-> FALSE]
  /\ mpc' = "idle"
  /\ UNCHANGED <<op, activeGenerationJob, placeholder, flagVars, shown, jobVars>>

(* A trade request is answered on the spot, without a generation.          *)
AnswerTrade ==
  /\ mpc = "append"
  /\ mpc' = "idle"
  /\ UNCHANGED <<op, activeGenerationJob, placeholder, flagVars, messageVars, jobVars>>

(* The placeholder: messages have fresh identifiers.                       *)
AppendPlaceholder(j) ==
  /\ mpc = "append"
  /\ j \notin messages
  /\ job[j] \in {"none", "over"}
  /\ messages' = messages \cup {j}
  /\ isStreaming' = [isStreaming EXCEPT ![j] = TRUE]
  /\ shown' = [shown EXCEPT ![j] = 0]
  /\ job' = [job EXCEPT ![j] = "none"]
  /\ cancelled' = [cancelled EXCEPT ![j] = FALSE]
  /\ chunks' = [chunks EXCEPT ![j] = 0]
  /\ placeholder' = j
  /\ mpc' = "raise"
  /\ UNCHANGED <<op, activeGenerationJob, flagVars>>

RaiseFlag ==
  /\ mpc = "raise"
  /\ isGenerating' = TRUE
  /\ mpc' = "mark"
  /\ UNCHANGED <<op, activeGenerationJob, placeholder, activeStreamingMessageId, messageVars, jobVars>>

MarkMessage ==
  /\ mpc = "mark"
  /\ activeStreamingMessageId' = placeholder
  /\ mpc' = "launch"
  /\ UNCHANGED <<op, activeGenerationJob, placeholder, isGenerating, messageVars, jobVars>>

Launch ==
  /\ mpc = "launch"
  /\ activeGenerationJob' = placeholder
  /\ job' = [job EXCEPT ![placeholder] = "new"]
  /\ placeholder' = NoChat
  /\ mpc' = "idle"
  /\ UNCHANGED <<op, flagVars, messageVars, cancelled, chunks>>

MainStep ==
  \/ CancelJob \/ LowerFlag \/ ForgetMessage \/ StripStreaming \/ EmptyMessages
  \/ AnswerTrade \/ (\E j \in Chats : AppendPlaceholder(j))
  \/ RaiseFlag \/ MarkMessage \/ Launch

-----------------------------------------------------------------------------
(* The coroutine of a generation. *)

Go(j, phase) == job' = [job EXCEPT ![j] = phase]

(* One _chatState.update: the message, if it is still on the screen, shows *)
(* the first n chunks.                                                     *)
ShowText(j, n, streaming) ==
  IF j \in messages
  THEN /\ shown' = [shown EXCEPT ![j] = n]
       /\ isStreaming' = [isStreaming EXCEPT ![j] = streaming]
  ELSE UNCHANGED <<shown, isStreaming>>

Begin(j) ==
  /\ job[j] = "new"
  /\ ~cancelled[j]
  /\ Go(j, "run")
  /\ UNCHANGED <<mainVars, flagVars, messageVars, cancelled, chunks>>

(* Cancelled before it was dispatched: not even the finally block runs.    *)
NeverBegin(j) ==
  /\ job[j] = "new"
  /\ cancelled[j]
  /\ Go(j, "over")
  /\ UNCHANGED <<mainVars, flagVars, messageVars, cancelled, chunks>>

(* Mutant of Chunk: the bound on an answer is not checked.                 *)
EndlessChunk(j) ==
  /\ job[j] = "run"
  /\ chunks' = [chunks EXCEPT ![j] = @ + 1]
  /\ ShowText(j, chunks[j] + 1, TRUE)
  /\ UNCHANGED <<mainVars, flagVars, messages, job, cancelled>>

(* onChunk: the first chunk is shown at once, the others when 30 ms have   *)
(* passed since the last one shown.  A native generation does not notice   *)
(* the cancellation.                                                       *)
Chunk(j) ==
  /\ job[j] = "run"
  /\ chunks[j] < MaxChunks
  /\ chunks' = [chunks EXCEPT ![j] = @ + 1]
  /\ \/ ShowText(j, chunks[j] + 1, TRUE)
     \/ chunks[j] > 0 /\ UNCHANGED <<shown, isStreaming>>
  /\ UNCHANGED <<mainVars, flagVars, messages, job, cancelled>>

(* executeChatStream returns.  Only a controller that is not ready, which  *)
(* answers in one chunk without suspending, returns to a cancelled caller. *)
StreamReturns(j) ==
  /\ job[j] = "run"
  /\ ~cancelled[j] \/ chunks[j] = 1
  /\ Go(j, "flush")
  /\ UNCHANGED <<mainVars, flagVars, messageVars, cancelled, chunks>>

(* An engine error, or the cancellation thrown at the end of a suspension. *)
StreamThrows(j) ==
  /\ job[j] = "run"
  /\ Go(j, "catch")
  /\ UNCHANGED <<mainVars, flagVars, messageVars, cancelled, chunks>>

(* Mutant of FinalFlush: the throttle applies to the last chunks too.      *)
ThrottledFlush(j) ==
  /\ job[j] = "flush"
  /\ ShowText(j, shown[j], FALSE)
  /\ Go(j, "store")
  /\ UNCHANGED <<mainVars, flagVars, messages, cancelled, chunks>>

FinalFlush(j) ==
  /\ job[j] = "flush"
  /\ ShowText(j, chunks[j], FALSE)
  /\ Go(j, "store")
  /\ UNCHANGED <<mainVars, flagVars, messages, cancelled, chunks>>

(* withContext(Dispatchers.IO) around the empty storage block throws when  *)
(* the coroutine has been cancelled in the meantime.                       *)
Store(j) ==
  /\ job[j] = "store"
  /\ Go(j, IF cancelled[j] THEN "catch" ELSE "finally")
  /\ UNCHANGED <<mainVars, flagVars, messageVars, cancelled, chunks>>

(* Mutant of Catch: a cancellation is rethrown at once.                    *)
Rethrow(j) ==
  /\ job[j] = "catch"
  /\ Go(j, "finally")
  /\ UNCHANGED <<mainVars, flagVars, messageVars, cancelled, chunks>>

(* Every exception, a cancellation too, marks the message as an error; the *)
(* mark itself is left out.                                                *)
Catch(j) ==
  /\ job[j] = "catch"
  /\ ShowText(j, chunks[j], FALSE)
  /\ Go(j, "finally")
  /\ UNCHANGED <<mainVars, flagVars, messages, cancelled, chunks>>

(* The finally block lowers the flags, whoever raised them.                *)
FinallyLowerFlag(j) ==
  /\ job[j] = "finally"
  /\ isGenerating' = FALSE
  /\ Go(j, "clear")
  /\ UNCHANGED <<mainVars, activeStreamingMessageId, messageVars, cancelled, chunks>>

FinallyForget(j) ==
  /\ job[j] = "clear"
  /\ activeStreamingMessageId' = NoChat
  /\ Go(j, "over")
  /\ UNCHANGED <<mainVars, isGenerating, messageVars, cancelled, chunks>>

JobStep(j) ==
  \/ Begin(j) \/ NeverBegin(j) \/ Chunk(j) \/ StreamReturns(j) \/ StreamThrows(j)
  \/ FinalFlush(j) \/ Store(j) \/ Catch(j) \/ FinallyLowerFlag(j) \/ FinallyForget(j)

Next ==
  \/ \E o \in Operations : Press(o)
  \/ MainStep
  \/ \E j \in Chats : JobStep(j)

Spec == Init /\ [][Next]_vars

(* The main thread finishes what it began, Dispatchers.IO runs what is     *)
(* runnable, and every generation is bounded.                              *)
FairSpec == Spec /\ WF_vars(MainStep) /\ \A j \in Chats : WF_vars(JobStep(j))
-----------------------------------------------------------------------------
(* Properties. *)

(* Every variable keeps its type. *)
TypeOK ==
  /\ mpc \in MainPhases /\ op \in Operations
  /\ activeGenerationJob \in Chats \cup {NoChat}
  /\ placeholder \in Chats \cup {NoChat}
  /\ isGenerating \in BOOLEAN
  /\ activeStreamingMessageId \in Chats \cup {NoChat}
  /\ messages \in SUBSET Chats
  /\ isStreaming \in [Chats -> BOOLEAN]
  /\ shown \in [Chats -> 0 .. MaxChunks]
  /\ job \in [Chats -> JobPhases]
  /\ cancelled \in [Chats -> BOOLEAN]
  /\ chunks \in [Chats -> 0 .. MaxChunks]

Live(j) == job[j] \notin {"none", "over"} /\ ~cancelled[j]

(* At most one generation is not cancelled, and it is the one that         *)
(* activeGenerationJob leads to, however the ends of earlier ones and the  *)
(* buttons interleave: Stop, New chat and the next message always reach it *)
(* (ChatViewModel.kt:182, 237, 330-332).                                   *)
OneLiveGeneration ==
  \A j \in Chats : Live(j) => activeGenerationJob = j

(* Once every coroutine is over, the screen shows neither a Stop button    *)
(* nor a message still being streamed, although both are written by        *)
(* several threads without a lock (ChatViewModel.kt:234-235, 323-340).     *)
QuiescentScreen ==
  mpc = "idle" /\ (\A j \in Chats : job[j] \in {"none", "over"})
    => /\ ~isGenerating
       /\ activeStreamingMessageId = NoChat
       /\ \A j \in Chats : ~isStreaming[j]

(* The throttle of the screen loses nothing: a message whose generation is *)
(* over, finished, failed or cancelled, shows every chunk it was given     *)
(* (ChatViewModel.kt:247, 298, 309-320).                                   *)
WholeAnswerShown ==
  \A j \in messages : job[j] \in {"finally", "clear", "over"} => shown[j] = chunks[j]

(* The inductive strengthening of the three properties above.  From the    *)
(* cancellation on, no generation is live until the main thread launches   *)
(* the next.                                                               *)
Cancelling == mpc \in MainPhases \ {"idle", "cancel"}

MainInv ==
  /\ Cancelling => activeGenerationJob = NoChat
  /\ mpc \in {"raise", "mark", "launch"}
       => placeholder \in Chats /\ job[placeholder] = "none" /\ ~cancelled[placeholder]

(* While the main thread is not between the cancellation and the launch, a *)
(* raised flag has a coroutine that will lower it.                         *)
WillBegin(j) == job[j] = "new" /\ ~cancelled[j]

FlagInv ==
  /\ mpc \in {"name", "strip", "empty", "append", "raise"} => ~isGenerating
  /\ mpc \in {"strip", "empty", "append", "raise", "mark"}
       => activeStreamingMessageId = NoChat
  /\ mpc \in {"idle", "cancel"} /\ isGenerating
       => \E j \in Chats : WillBegin(j)
            \/ job[j] \in {"run", "flush", "store", "catch", "finally"}
  /\ mpc \in {"idle", "cancel"} /\ activeStreamingMessageId # NoChat
       => \E j \in Chats : WillBegin(j)
            \/ job[j] \in {"run", "flush", "store", "catch", "finally", "clear"}

StreamingInv ==
  \A j \in Chats :
    isStreaming[j] => /\ j \in messages
                      /\ \/ WillBegin(j) \/ job[j] \in {"run", "flush", "catch"}
                         \/ mpc \in {"flag", "name", "strip"}
                         \/ mpc \in {"raise", "mark", "launch"} /\ placeholder = j

ShownInv ==
  \A j \in messages :
    /\ job[j] \in {"none", "new"} => shown[j] = 0 /\ chunks[j] = 0
    /\ job[j] = "store" => shown[j] = chunks[j]

SessionInv ==
  /\ TypeOK
  /\ OneLiveGeneration
  /\ WholeAnswerShown
  /\ MainInv
  /\ FlagInv
  /\ StreamingInv
  /\ ShownInv

(* A message stops streaming: even one that a late chunk has set streaming *)
(* again after Stop stripped it (ChatViewModel.kt:267, 316, 336).          *)
StreamingEnds == \A j \in Chats : isStreaming[j] ~> ~isStreaming[j]
=============================================================================
