---------------------------- MODULE ColibriSession ----------------------------
(***************************************************************************)
(* One ColibriEngine.kt and the native context it owns                     *)
(* (colibri_jni_bridge.cpp): generations that queue for session_mutex, the *)
(* abort flag they share, the reset of the session, and a close() that     *)
(* frees the context without the mutex.                                    *)
(*                                                                         *)
(* A session refuses a run that does not start at its own position, the    *)
(* check of every adapter (olmoe.c:2103).  After the release a generation  *)
(* may find the memory as it was or take the process down.                 *)
(***************************************************************************)
EXTENDS Integers

CONSTANTS
  Clients,      \* coroutines that call chat or chatStream
  Context,      \* context_tokens
  MaxTokens,    \* max_tokens of a generation
  Resetter,     \* the caller of resetSession, as a holder of the mutex
  Nobody

ASSUME ColibriAssumption ==
  /\ Context \in Nat \ {0} /\ MaxTokens \in Nat \ {0}
  /\ Resetter \notin Clients /\ Nobody \notin Clients \cup {Resetter}

VARIABLES
  ctx,            \* the native context: "none", "live", "freed"
  handle,         \* nativeContextHandle is not 0
  isInitialized,
  closing,        \* where close() is
  session,        \* ctx->session is not null
  position,       \* rows in the cache of the session
  author,         \* history: whose prompt opened it
  aborted,        \* is_aborted
  late,           \* history: tokens delivered since the flag was last raised
  mutex,          \* who holds session_mutex
  pc,             \* where each client is
  pos, n,         \* current_pos and n_generated of each client
  resetting       \* where resetSession is

lifeVars == <<ctx, handle, isInitialized, closing>>
cacheVars == <<session, position, author>>
abortVars == <<aborted, late>>
clientVars == <<pc, pos, n>>
vars == <<lifeVars, cacheVars, abortVars, mutex, clientVars, resetting>>

Queued  == {"called", "lock"}
Holding == {"prompt", "select", "check", "deliver", "step"}
Phases  == {"idle"} \cup Queued \cup Holding

Init ==
  /\ ctx = "none" /\ handle = FALSE /\ isInitialized = FALSE /\ closing = "no"
  /\ session = FALSE /\ position = 0 /\ author = Nobody
  /\ aborted = FALSE /\ late = 0 /\ mutex = Nobody
  /\ pc = [c \in Clients |-> "idle"]
  /\ pos = [c \in Clients |-> 0] /\ n = [c \in Clients |-> 0]
  /\ resetting = "no"
-----------------------------------------------------------------------------
(* The engine. *)

(* nativeInitModel opens engine and session, or never does; init() is      *)
(* called once.                                                            *)
InitModel ==
  /\ ctx = "none"
  /\ ctx' = "live" /\ handle' = TRUE /\ session' = TRUE
  /\ UNCHANGED <<isInitialized, closing, position, author, abortVars, mutex, clientVars, resetting>>

InitEnd ==
  /\ ctx = "live" /\ closing = "no" /\ ~isInitialized
  /\ isInitialized' = TRUE
  /\ UNCHANGED <<ctx, handle, closing, cacheVars, abortVars, mutex, clientVars, resetting>>

CloseHandle ==
  /\ isInitialized /\ closing = "no"
  /\ handle' = FALSE /\ closing' = "abort"
  /\ UNCHANGED <<ctx, isInitialized, cacheVars, abortVars, mutex, clientVars, resetting>>

Raise ==
  /\ aborted' = TRUE
  /\ late' = IF aborted THEN late ELSE 0

CloseAbort ==
  /\ closing = "abort"
  /\ Raise
  /\ closing' = "release"
  /\ UNCHANGED <<ctx, handle, isInitialized, cacheVars, mutex, clientVars, resetting>>

(* delete ctx, whoever is inside. *)
ReleaseModel ==
  /\ closing = "release"
  /\ ctx' = "freed" /\ closing' = "end"
  /\ session' = FALSE /\ position' = 0 /\ author' = Nobody
  /\ UNCHANGED <<handle, isInitialized, abortVars, mutex, clientVars, resetting>>

CloseEnd ==
  /\ closing = "end"
  /\ isInitialized' = FALSE /\ closing' = "closed"
  /\ UNCHANGED <<ctx, handle, cacheVars, abortVars, mutex, clientVars, resetting>>

AbortGeneration ==
  /\ handle
  /\ Raise
  /\ UNCHANGED <<lifeVars, cacheVars, mutex, clientVars, resetting>>

(* A caller inside the freed context takes the process, and every variable *)
(* of it, down.                                                            *)
Crash ==
  /\ ctx = "freed"
  /\ resetting # "no" \/ \E c \in Clients : pc[c] # "idle"
  /\ ctx' = "none" /\ handle' = FALSE /\ isInitialized' = FALSE /\ closing' = "no"
  /\ session' = FALSE /\ position' = 0 /\ author' = Nobody
  /\ aborted' = FALSE /\ late' = 0 /\ mutex' = Nobody
  /\ pc' = [c \in Clients |-> "idle"]
  /\ pos' = [c \in Clients |-> 0] /\ n' = [c \in Clients |-> 0]
  /\ resetting' = "no"
-----------------------------------------------------------------------------
(* resetSession: the mutex is held over both steps. *)

ResetStart ==
  /\ handle /\ resetting = "no"
  /\ resetting' = "lock"
  /\ UNCHANGED <<lifeVars, cacheVars, abortVars, mutex, clientVars>>

(* Mutant of ResetDestroy: the mutex is not waited for.                    *)
ResetUnlocked ==
  /\ resetting = "lock"
  /\ mutex' = Resetter /\ resetting' = "create"
  /\ session' = FALSE /\ position' = 0 /\ author' = Nobody
  /\ UNCHANGED <<lifeVars, abortVars, clientVars>>

ResetDestroy ==
  /\ resetting = "lock" /\ mutex = Nobody
  /\ mutex' = Resetter /\ resetting' = "create"
  /\ session' = FALSE /\ position' = 0 /\ author' = Nobody
  /\ UNCHANGED <<lifeVars, abortVars, clientVars>>

ResetCreate ==
  /\ resetting = "create"
  /\ session' \in {ctx = "live", FALSE}
  /\ mutex' = Nobody /\ resetting' = "no"
  /\ UNCHANGED <<lifeVars, position, author, abortVars, clientVars>>
-----------------------------------------------------------------------------
(* A generation. *)

Go(c, there) == pc' = [pc EXCEPT ![c] = there]

(* chat and chatStream take no lock of the engine. *)
Chat(c) ==
  /\ pc[c] = "idle" /\ isInitialized /\ handle
  /\ Go(c, "called")
  /\ UNCHANGED <<lifeVars, cacheVars, abortVars, mutex, pos, n, resetting>>

(* The flag is lowered before the mutex is taken: an abort meant for the   *)
(* generation in front is taken back.                                      *)
Enter(c) ==
  /\ pc[c] = "called"
  /\ aborted' = FALSE /\ late' = 0
  /\ Go(c, "lock")
  /\ UNCHANGED <<lifeVars, cacheVars, mutex, pos, n, resetting>>

Lock(c) ==
  /\ pc[c] = "lock" /\ mutex = Nobody
  /\ mutex' = c
  /\ Go(c, "prompt")
  /\ UNCHANGED <<lifeVars, cacheVars, abortVars, pos, n, resetting>>

Leave(c) ==
  /\ mutex' = Nobody
  /\ Go(c, "idle")
  /\ UNCHANGED <<lifeVars, cacheVars, abortVars, pos, n, resetting>>

(* Mutant of Fail: an error path that keeps the mutex.                     *)
FailLocked(c) ==
  /\ pc[c] \in {"prompt", "select", "step"}
  /\ Go(c, "idle")
  /\ UNCHANGED <<lifeVars, cacheVars, abortVars, mutex, pos, n, resetting>>

(* An empty or too long prompt, a refused, cancelled or failed run.        *)
Fail(c) == pc[c] \in {"prompt", "select", "step"} /\ Leave(c)

(* Mutant of Cancelled: the check is not handed the context.               *)
NeverCancelled == FALSE

(* coli_cancel_check, asked by every call of the runtime.                  *)
Cancelled == aborted

(* Mutant of Runs: an adapter that takes any position.                     *)
RunsAnywhere(at) == session /\ ~Cancelled

(* coli_segment_run from row at on. *)
Runs(at) == session /\ ~Cancelled /\ position = at

Prefill(c, rows) ==
  /\ pc[c] = "prompt" /\ Runs(0)
  /\ position' = rows /\ author' = c
  /\ pos' = [pos EXCEPT ![c] = rows] /\ n' = [n EXCEPT ![c] = 0]
  /\ Go(c, "select")
  /\ UNCHANGED <<lifeVars, session, abortVars, mutex, resetting>>

Select(c) ==
  /\ pc[c] = "select" /\ ~Cancelled
  /\ Go(c, "check")
  /\ UNCHANGED <<lifeVars, cacheVars, abortVars, mutex, pos, n, resetting>>

Check(c) ==
  /\ pc[c] = "check"
  /\ n[c] < MaxTokens /\ pos[c] < Context /\ ~Cancelled
  /\ Go(c, "deliver")
  /\ UNCHANGED <<lifeVars, cacheVars, abortVars, mutex, pos, n, resetting>>

(* The limit, the abort flag, or an end-of-sequence token at any time.     *)
Stop(c) == pc[c] = "check" /\ Leave(c)

(* Mutant of Deliver: the tokens left are counted down from an unset limit. *)
DeliverDown(c) ==
  /\ pc[c] = "deliver"
  /\ n' = [n EXCEPT ![c] = @ - 1]
  /\ late' = IF aborted THEN late + 1 ELSE late
  /\ Go(c, "step")
  /\ UNCHANGED <<lifeVars, cacheVars, aborted, mutex, pos, resetting>>

(* The bytes of a cut character are flushed at the end; they are no token. *)
Deliver(c) ==
  /\ pc[c] = "deliver"
  /\ n' = [n EXCEPT ![c] = @ + 1]
  /\ late' = IF aborted THEN late + 1 ELSE late
  /\ Go(c, "step")
  /\ UNCHANGED <<lifeVars, cacheVars, aborted, mutex, pos, resetting>>

Step(c) ==
  /\ pc[c] = "step" /\ Runs(pos[c])
  /\ position' = position + 1
  /\ pos' = [pos EXCEPT ![c] = @ + 1]
  /\ Go(c, "select")
  /\ UNCHANGED <<lifeVars, session, author, abortVars, mutex, n, resetting>>

Generate(c) ==
  \/ Enter(c) \/ Lock(c) \/ Fail(c) \/ Select(c) \/ Check(c) \/ Stop(c)
  \/ Deliver(c) \/ Step(c)
  \/ \E rows \in 1 .. Context - 1 : Prefill(c, rows)

Close == CloseHandle \/ CloseAbort \/ ReleaseModel \/ CloseEnd

Reset == ResetStart \/ ResetDestroy \/ ResetCreate

Next ==
  \/ InitModel \/ InitEnd \/ Close \/ AbortGeneration \/ Crash \/ Reset
  \/ \E c \in Clients : Chat(c) \/ Generate(c)

Spec == Init /\ [][Next]_vars

(* Whoever holds the mutex runs on.  std::mutex is not fair: who gets it   *)
(* next is not promised.                                                   *)
FairSpec ==
  /\ Spec
  /\ WF_vars(ResetCreate)
  /\ \A c \in Clients : WF_vars(pc[c] \in Holding /\ Generate(c))
-----------------------------------------------------------------------------
(* Properties. *)

(* Every variable keeps its type. *)
TypeOK ==
  /\ ctx \in {"none", "live", "freed"}
  /\ handle \in BOOLEAN /\ isInitialized \in BOOLEAN
  /\ closing \in {"no", "abort", "release", "end", "closed"}
  /\ session \in BOOLEAN
  /\ position \in Nat /\ author \in Clients \cup {Nobody}
  /\ aborted \in BOOLEAN /\ late \in Nat
  /\ mutex \in Clients \cup {Resetter, Nobody}
  /\ pc \in [Clients -> Phases]
  /\ pos \in [Clients -> Nat] /\ n \in [Clients -> Nat]
  /\ resetting \in {"no", "lock", "create"}

(* A generation that decodes goes on from its own prompt: between its      *)
(* steps no other generation and no reset touches the session, whatever    *)
(* queues, aborts or resets (colibri_jni_bridge.cpp:585, 1071); only a     *)
(* release can take the session away.                                      *)
Decoding == Holding \ {"prompt"}

DecodesOwnPrompt ==
  ctx = "live" => \A c \in Clients :
    pc[c] \in Decoding => session /\ author = c /\ position = pos[c]

(* Once the flag is up and until a new call lowers it, at most one more    *)
(* token reaches the callback, whoever raised it and wherever the          *)
(* generation was (colibri_jni_bridge.cpp:251-255, 729).                   *)
AbortStops == late <= 1

(* The cache never outgrows the context it was allocated for               *)
(* (colibri_jni_bridge.cpp:599, 728).                                      *)
WithinContext == position <= Context

(* The session is the record of one conversation at a time.                *)
Promised == INSTANCE Conversation WITH length <- position
ConversationSpec == Promised!Spec

(* The inductive strengthening: who is inside holds the mutex, there is    *)
(* nothing before init() and no way in after close(), and a token          *)
(* delivered under the raised flag was the last one on its way.            *)
HolderInv ==
  /\ \A c \in Clients : pc[c] \in Holding <=> mutex = c
  /\ resetting = "create" <=> mutex = Resetter

ContextInv ==
  /\ handle => ctx = "live" /\ closing = "no"
  /\ ctx = "none" => /\ isInitialized = FALSE /\ closing = "no" /\ resetting = "no"
                     /\ \A c \in Clients : pc[c] = "idle"
  /\ ctx = "live" => closing \in {"no", "abort", "release"}
  /\ ctx = "freed" => closing \in {"end", "closed"}
  /\ ctx # "live" => session = FALSE /\ position = 0 /\ author = Nobody

CacheInv ==
  /\ position = 0 <=> author = Nobody
  /\ \A c \in Clients : pc[c] \in Decoding => pos[c] > 0
  /\ \A c \in Clients : pc[c] \in {"deliver", "step"} => pos[c] < Context

AbortInv ==
  /\ late > 0 => aborted
  /\ \A c \in Clients : late > 0 => pc[c] # "deliver"

SessionInv ==
  /\ TypeOK /\ HolderInv /\ ContextInv /\ CacheInv /\ AbortInv
  /\ DecodesOwnPrompt /\ AbortStops /\ WithinContext

(* The mutex is given back: the decode loop ends by its bounds and every   *)
(* error path leaves, unless the context is released meanwhile             *)
(* (colibri_jni_bridge.cpp:585-716, 728-830).                              *)
MutexReturned == mutex # Nobody ~> mutex = Nobody \/ ctx = "freed"
=============================================================================
