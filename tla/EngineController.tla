--------------------------- MODULE EngineController ---------------------------
(***************************************************************************)
(* The life of an on-device model: EngineController.kt, the three engine   *)
(* classes it swaps (LlamaCppEngine, ColibriEngine, DeepEyeAgentEngine)    *)
(* and the native memory behind their handles (llama-bridge.cpp,           *)
(* colibri_jni_bridge.cpp).                                                *)
(*                                                                         *)
(* Loaders are the coroutines that replace the engine: they run under      *)
(* initMutex.  Clients are the coroutines that chat: they take no lock,    *)
(* read isEngineReady and engine, and then stay inside native code for a   *)
(* whole generation.                                                       *)
(***************************************************************************)
EXTENDS Integers, FiniteSets

CONSTANTS
  Loaders,      \* coroutines that call initialize / reinitializeWithModel
  Clients,      \* coroutines that call executeChat / executeChatStream
  Engines,      \* engine objects; an unreachable one is collected and reused
  Paths,        \* model files
  DefaultPath,  \* files/model.bin, the path the first engine is built with
  Format,       \* Format[p]: what the extension of p says
  Size,         \* Size[p]: length of p, in units of 10 MB
  Adapter,      \* paths with "dspark" or "adapter" in their name
  Ram,          \* memory of the device, same unit
  MaxTokens,    \* tokens of the longest generation
  Nobody,       \* owner of a free initMutex
  NoEngine      \* what a client uses between two chats

Formats == {"gguf", "colibri", "litert", "tmp", "other"}

ASSUME PathAssumption ==
  /\ DefaultPath \in Paths
  /\ Format \in [Paths -> Formats]
  /\ Size \in [Paths -> Nat]
  /\ Adapter \subseteq Paths
  /\ Ram \in Nat
  /\ MaxTokens \in Nat

ASSUME SentinelAssumption == Nobody \notin Loaders /\ NoEngine \notin Engines

VARIABLES
  engine,       \* the controller's engine field
  isEngineReady,
  status,       \* what _engineStatus announces
  owner,        \* holder of initMutex
  files,        \* the model files on disk
  lpc, target,  \* per loader: where it is, the path it loads
  path, isInitialized, handle, native, abort_flag,   \* per engine object
  cpc, using, cancelled, tokens                      \* per client

ctlVars    == <<engine, isEngineReady, status, owner>>
engineVars == <<path, isInitialized, handle, native, abort_flag>>
clientVars == <<cpc, using, cancelled, tokens>>
vars == <<ctlVars, files, lpc, target, engineVars, clientVars>>

Statuses == {"none", "nomodel", "loading", "active", "failed", "notready", "done"}

(* "check" .. "report" are the lines of reinitializeWithModel run under    *)
(* initMutex, in their order.                                              *)
Critical == {"check", "validate", "close", "free", "closed", "construct",
             "init", "inited", "ready", "publish", "report"}
LoaderPhases == {"idle", "lock"} \cup Critical
ClientPhases == {"idle", "fetch", "enter", "call", "gen", "finish", "stats"}

Init ==
  /\ files \in SUBSET Paths
  /\ engine \in Engines
  /\ isEngineReady = FALSE
  /\ status = "none"
  /\ owner = Nobody
  /\ lpc = [l \in Loaders |-> "idle"]
  /\ target = [l \in Loaders |-> DefaultPath]
  /\ path = [e \in Engines |-> DefaultPath]
  /\ isInitialized = [e \in Engines |-> FALSE]
  /\ handle = [e \in Engines |-> FALSE]
  /\ native = [e \in Engines |-> "none"]
  /\ abort_flag = [e \in Engines |-> FALSE]
  /\ cpc = [c \in Clients |-> "idle"]
  /\ using = [c \in Clients |-> NoEngine]
  /\ cancelled = [c \in Clients |-> FALSE]
  /\ tokens = [c \in Clients |-> 0]

-----------------------------------------------------------------------------
(* Which file to load. *)

(* close() of DeepEyeAgentEngine keeps its native engine; the others free  *)
(* theirs.                                                                 *)
ReleasedOnClose(e) == Format[path[e]] # "litert"

(* The candidates initialize() lists: 50 MB to 95% of memory, and no       *)
(* speculative-draft adapter.                                              *)
Startable ==
  {p \in files : /\ Format[p] \in {"gguf", "colibri", "litert"}
                 /\ Size[p] >= 5 /\ Size[p] <= (Ram * 95) \div 100
                 /\ p \notin Adapter}

Fast == {p \in Startable : Size[p] <= 220}

(* The largest of the fast ones, else the smallest of all.                 *)
StartupChoice ==
  IF Fast # {}
  THEN {p \in Fast : \A q \in Fast : Size[q] <= Size[p]}
  ELSE {p \in Startable : \A q \in Startable : Size[q] >= Size[p]}

(* switchToNativeLocalMode has a filter of its own: neither .colibri nor   *)
(* the adapter test, and a limit of 5 GB.                                  *)
NativeLocal ==
  {p \in files : Format[p] \in {"gguf", "litert"} /\ Size[p] >= 5 /\ Size[p] <= 500}

NativeLocalChoice ==
  {p \in NativeLocal : \A q \in NativeLocal : Size[q] <= Size[p]}

TooLarge(p) ==
  IF Format[p] = "gguf"
  THEN Size[p] > 1200 /\ Ram < 800
  ELSE Size[p] > 380 /\ Size[p] > Ram - 100

(* The checks reinitializeWithModel makes before it touches the engine.    *)
Loadable(p) ==
  p \in files /\ Format[p] # "tmp" /\ p \notin Adapter /\ ~TooLarge(p)

-----------------------------------------------------------------------------
(* Loaders. *)

Go(l, phase) == lpc' = [lpc EXCEPT ![l] = phase]

(* The call returns, and its argument is gone.                             *)
Leave(l) == Go(l, "idle") /\ target' = [target EXCEPT ![l] = DefaultPath]

Request(l, p) ==
  /\ lpc[l] = "idle"
  /\ Go(l, "lock")
  /\ target' = [target EXCEPT ![l] = p]
  /\ UNCHANGED <<ctlVars, files, engineVars, clientVars>>

AnnounceOnly(l, s) ==
  /\ lpc[l] = "idle"
  /\ status' = s
  /\ UNCHANGED <<engine, isEngineReady, owner, files, lpc, target, engineVars, clientVars>>

(* initialize() looks at the engine without the mutex.                     *)
Initialize(l) ==
  IF isEngineReady /\ isInitialized[engine]
  THEN AnnounceOnly(l, "active")
  ELSE \/ \E p \in StartupChoice : Request(l, p)
       \/ StartupChoice = {} /\ AnnounceOnly(l, "nomodel")

NoLocalModel(l) ==
  /\ lpc[l] = "idle"
  /\ NativeLocalChoice = {}
  /\ isEngineReady' = FALSE
  /\ status' = "nomodel"
  /\ UNCHANGED <<engine, owner, files, lpc, target, engineVars, clientVars>>

SwitchToNativeLocalMode(l) ==
  NoLocalModel(l) \/ \E p \in NativeLocalChoice : Request(l, p)

(* The coroutine is cancelled while it waits for the mutex.                *)
LeaveQueue(l) ==
  /\ lpc[l] = "lock"
  /\ Leave(l)
  /\ UNCHANGED <<ctlVars, files, engineVars, clientVars>>

Acquire(l) ==
  /\ lpc[l] = "lock"
  /\ owner = Nobody
  /\ owner' = l
  /\ Go(l, "check")
  /\ UNCHANGED <<engine, isEngineReady, status, files, target, engineVars, clientVars>>

IsActive(p) == isEngineReady /\ isInitialized[engine] /\ path[engine] = p

AlreadyActive(l) ==
  /\ lpc[l] = "check"
  /\ IsActive(target[l])
  /\ status' = "active"
  /\ owner' = Nobody
  /\ Leave(l)
  /\ UNCHANGED <<engine, isEngineReady, files, engineVars, clientVars>>

StartLoading(l) ==
  /\ lpc[l] = "check"
  /\ ~IsActive(target[l])
  /\ status' = "loading"
  /\ Go(l, "validate")
  /\ UNCHANGED <<engine, isEngineReady, owner, files, target, engineVars, clientVars>>

(* Mutant of Validate: the old engine is not closed.                       *)
ValidateOnly(l) ==
  /\ lpc[l] = "validate"
  /\ Loadable(target[l])
  /\ Go(l, "construct")
  /\ UNCHANGED <<ctlVars, files, target, engineVars, clientVars>>

Validate(l) ==
  /\ lpc[l] = "validate"
  /\ Loadable(target[l])
  /\ Go(l, "close")
  /\ UNCHANGED <<ctlVars, files, target, engineVars, clientVars>>

(* Mutants of CloseHandle: the handle is zeroed and nothing freed; the     *)
(* model is freed and the handle kept.                                     *)
ForgetHandle(l) ==
  /\ lpc[l] = "close"
  /\ handle' = [handle EXCEPT ![engine] = handle[engine] /\ ~ReleasedOnClose(engine)]
  /\ Go(l, "closed")
  /\ UNCHANGED <<ctlVars, files, target, path, isInitialized, native, abort_flag, clientVars>>

KeepHandle(l) ==
  /\ lpc[l] = "close"
  /\ Go(l, IF ReleasedOnClose(engine) /\ handle[engine] THEN "free" ELSE "closed")
  /\ UNCHANGED <<ctlVars, files, target, engineVars, clientVars>>

(* engine.close(): forget the handle and raise the abort flag of a running *)
(* generation, ...                                                         *)
CloseHandle(l) ==
  /\ lpc[l] = "close"
  /\ IF ReleasedOnClose(engine) /\ handle[engine]
     THEN /\ handle' = [handle EXCEPT ![engine] = FALSE]
          /\ abort_flag' = [abort_flag EXCEPT ![engine] = TRUE]
          /\ Go(l, "free")
     ELSE /\ UNCHANGED <<handle, abort_flag>>
          /\ Go(l, "closed")
  /\ UNCHANGED <<ctlVars, files, target, path, isInitialized, native, clientVars>>

(* ... free the native model, the flag with it, without waiting for that   *)
(* generation, ...                                                         *)
FreeModel(l) ==
  /\ lpc[l] = "free"
  /\ native' = [native EXCEPT ![engine] = "freed"]
  /\ abort_flag' = [abort_flag EXCEPT ![engine] = FALSE]
  /\ Go(l, "closed")
  /\ UNCHANGED <<ctlVars, files, target, path, isInitialized, handle, clientVars>>

(* ... and only then mark the engine uninitialised.                        *)
CloseEnd(l) ==
  /\ lpc[l] = "closed"
  /\ isInitialized' = [isInitialized EXCEPT ![engine] = FALSE]
  /\ Go(l, "construct")
  /\ UNCHANGED <<ctlVars, files, target, path, handle, native, abort_flag, clientVars>>

Unreachable(e) ==
  e # engine /\ native[e] # "live" /\ \A c \in Clients : using[c] # e

Construct(l, e) ==
  /\ lpc[l] = "construct"
  /\ Format[target[l]] \in {"gguf", "colibri", "litert"}
  /\ Unreachable(e)
  /\ engine' = e
  /\ path' = [path EXCEPT ![e] = target[l]]
  /\ isInitialized' = [isInitialized EXCEPT ![e] = FALSE]
  /\ handle' = [handle EXCEPT ![e] = FALSE]
  /\ native' = [native EXCEPT ![e] = "none"]
  /\ abort_flag' = [abort_flag EXCEPT ![e] = FALSE]
  /\ Go(l, "init")
  /\ UNCHANGED <<isEngineReady, status, owner, files, target, clientVars>>

(* nativeInitModel succeeds: it has allocated the model and its context.   *)
InitModel(l) ==
  /\ lpc[l] = "init"
  /\ target[l] \in files
  /\ native' = [native EXCEPT ![engine] = "live"]
  /\ handle' = [handle EXCEPT ![engine] = TRUE]
  /\ Go(l, "inited")
  /\ UNCHANGED <<ctlVars, files, target, path, isInitialized, abort_flag, clientVars>>

InitEnd(l) ==
  /\ lpc[l] = "inited"
  /\ isInitialized' = [isInitialized EXCEPT ![engine] = TRUE]
  /\ Go(l, "ready")
  /\ UNCHANGED <<ctlVars, files, target, path, handle, native, abort_flag, clientVars>>

MarkReady(l) ==
  /\ lpc[l] = "ready"
  /\ isEngineReady' = TRUE
  /\ Go(l, "publish")
  /\ UNCHANGED <<engine, status, owner, files, target, engineVars, clientVars>>

Publish(l) ==
  /\ lpc[l] = "publish"
  /\ status' = "active"
  /\ owner' = Nobody
  /\ Leave(l)
  /\ UNCHANGED <<engine, isEngineReady, files, engineVars, clientVars>>

(* Where the try block throws: the checks; a cancellation on the way into  *)
(* close() or out of it; the settings read or an unsupported extension; a  *)
(* model llama.cpp refuses, after which nothing stays allocated; a         *)
(* cancellation on the way out of init(), which leaves a loaded engine.    *)
Throws(l) ==
  \/ lpc[l] = "validate" /\ ~Loadable(target[l])
  \/ lpc[l] \in {"close", "construct", "init", "ready"}

(* Mutant of Catch: the controller stays ready.                            *)
CatchReady(l) ==
  /\ Throws(l)
  /\ Go(l, "report")
  /\ UNCHANGED <<ctlVars, files, target, engineVars, clientVars>>

Catch(l) ==
  /\ Throws(l)
  /\ isEngineReady' = FALSE
  /\ Go(l, "report")
  /\ UNCHANGED <<engine, status, owner, files, target, engineVars, clientVars>>

(* Mutants of Report: the screen keeps showing "Loading"; the mutex is not *)
(* released.                                                               *)
ReportNothing(l) ==
  /\ lpc[l] = "report"
  /\ owner' = Nobody
  /\ Leave(l)
  /\ UNCHANGED <<engine, isEngineReady, status, files, engineVars, clientVars>>

ReportLocked(l) ==
  /\ lpc[l] = "report"
  /\ status' = "failed"
  /\ Leave(l)
  /\ UNCHANGED <<engine, isEngineReady, owner, files, engineVars, clientVars>>

Report(l) ==
  /\ lpc[l] = "report"
  /\ status' = "failed"
  /\ owner' = Nobody
  /\ Leave(l)
  /\ UNCHANGED <<engine, isEngineReady, files, engineVars, clientVars>>

(* One coroutine inside reinitializeWithModel, past the mutex. *)
LoadStep(l) ==
  \/ AlreadyActive(l) \/ StartLoading(l) \/ Validate(l)
  \/ CloseHandle(l) \/ FreeModel(l) \/ CloseEnd(l)
  \/ \E e \in Engines : Construct(l, e)
  \/ InitModel(l) \/ InitEnd(l) \/ MarkReady(l) \/ Publish(l)
  \/ Catch(l) \/ Report(l)

-----------------------------------------------------------------------------
(* Clients. *)

Move(c, phase) == cpc' = [cpc EXCEPT ![c] = phase]

Return(c) ==
  /\ Move(c, "idle")
  /\ using' = [using EXCEPT ![c] = NoEngine]
  /\ cancelled' = [cancelled EXCEPT ![c] = FALSE]
  /\ tokens' = [tokens EXCEPT ![c] = 0]

Submit(c) ==
  /\ cpc[c] = "idle"
  /\ isEngineReady
  /\ Move(c, "fetch")
  /\ UNCHANGED <<ctlVars, files, lpc, target, engineVars, using, cancelled, tokens>>

Refuse(c) ==
  /\ cpc[c] = "idle"
  /\ ~isEngineReady
  /\ status' = "notready"
  /\ UNCHANGED <<engine, isEngineReady, owner, files, lpc, target, engineVars, clientVars>>

Fetch(c) ==
  /\ cpc[c] = "fetch"
  /\ using' = [using EXCEPT ![c] = engine]
  /\ Move(c, "enter")
  /\ UNCHANGED <<ctlVars, files, lpc, target, engineVars, cancelled, tokens>>

(* Mutant of EnterClosed: the chat waits for the controller to be ready.   *)
EnterWaiting(c) ==
  /\ cpc[c] = "enter"
  /\ ~isInitialized[using[c]]
  /\ isEngineReady
  /\ Return(c)
  /\ UNCHANGED <<ctlVars, files, lpc, target, engineVars>>

(* An uninitialised LlamaCppEngine throws to the caller; the two others    *)
(* answer with an error text.                                              *)
EnterClosed(c) ==
  /\ cpc[c] = "enter"
  /\ ~isInitialized[using[c]]
  /\ IF Format[path[using[c]]] = "gguf"
     THEN Return(c)
     ELSE Move(c, "finish") /\ UNCHANGED <<using, cancelled, tokens>>
  /\ UNCHANGED <<ctlVars, files, lpc, target, engineVars>>

(* Initialised but without a handle: "native library not loaded".          *)
EnterEmpty(c) ==
  /\ cpc[c] = "enter"
  /\ isInitialized[using[c]]
  /\ ~handle[using[c]]
  /\ Move(c, "finish")
  /\ UNCHANGED <<ctlVars, files, lpc, target, engineVars, using, cancelled, tokens>>

(* The handle is copied into a local: val handle = nativeContextHandle.    *)
EnterNative(c) ==
  /\ cpc[c] = "enter"
  /\ isInitialized[using[c]]
  /\ handle[using[c]]
  /\ ~cancelled[c]
  /\ Move(c, "call")
  /\ UNCHANGED <<ctlVars, files, lpc, target, engineVars, using, cancelled, tokens>>

(* Every generation begins by lowering the abort flag of its context.      *)
GenerateStart(c) ==
  /\ cpc[c] = "call"
  /\ abort_flag' = [abort_flag EXCEPT ![using[c]] = FALSE]
  /\ Move(c, "gen")
  /\ UNCHANGED <<ctlVars, files, lpc, target, path, isInitialized, handle, native,
                 using, cancelled, tokens>>

(* Mutant of GenerateToken: one token too many.                            *)
GenerateExtraToken(c) ==
  /\ cpc[c] = "gen"
  /\ tokens[c] <= MaxTokens
  /\ tokens' = [tokens EXCEPT ![c] = @ + 1]
  /\ UNCHANGED <<ctlVars, files, lpc, target, engineVars, cpc, using, cancelled>>

(* In freed memory the flag reads as anything; FALSE stands for that.  A   *)
(* cancelled LiteRT flow is no longer collected.                           *)
GenerateToken(c) ==
  /\ cpc[c] = "gen"
  /\ ReleasedOnClose(using[c]) \/ ~cancelled[c]
  /\ ~abort_flag[using[c]]
  /\ tokens[c] < MaxTokens
  /\ tokens' = [tokens EXCEPT ![c] = @ + 1]
  /\ UNCHANGED <<ctlVars, files, lpc, target, engineVars, cpc, using, cancelled>>

(* End-of-generation token, abort, token limit or decode error.            *)
GenerateEnd(c) ==
  /\ cpc[c] = "gen"
  /\ Move(c, "finish")
  /\ UNCHANGED <<ctlVars, files, lpc, target, engineVars, using, cancelled, tokens>>

Finish(c) ==
  /\ cpc[c] = "finish"
  /\ ~cancelled[c] \/ ~ReleasedOnClose(using[c])
  /\ status' = "done"
  /\ Return(c)
  /\ UNCHANGED <<engine, isEngineReady, owner, files, lpc, target, engineVars>>

(* withContext rethrows the cancellation; image and audio requests never   *)
(* touch the status.                                                       *)
FinishQuietly(c) ==
  /\ cpc[c] = "finish"
  /\ Return(c)
  /\ UNCHANGED <<ctlVars, files, lpc, target, engineVars>>

(* A cancelled coroutine does not enter withContext.                       *)
Abandon(c) ==
  /\ cpc[c] = "enter"
  /\ cancelled[c]
  /\ Return(c)
  /\ UNCHANGED <<ctlVars, files, lpc, target, engineVars>>

(* job.cancel().  The handler that would raise abort_flag is registered    *)
(* with invokeOnCompletion, so it waits for the coroutine to complete,     *)
(* which waits for the native call; it is disposed of when that returns.   *)
Cancel(c) ==
  /\ cpc[c] \notin {"idle", "stats"}
  /\ ~cancelled[c]
  /\ cancelled' = [cancelled EXCEPT ![c] = TRUE]
  /\ UNCHANGED <<ctlVars, files, lpc, target, engineVars, cpc, using, tokens>>

(* getPerformanceStats reads a LlamaState through the handle it saw.       *)
StatsStart(c) ==
  /\ cpc[c] = "idle"
  /\ Format[path[engine]] = "gguf"
  /\ handle[engine]
  /\ using' = [using EXCEPT ![c] = engine]
  /\ Move(c, "stats")
  /\ UNCHANGED <<ctlVars, files, lpc, target, engineVars, cancelled, tokens>>

StatsEnd(c) ==
  /\ cpc[c] = "stats"
  /\ Return(c)
  /\ UNCHANGED <<ctlVars, files, lpc, target, engineVars>>

ChatStep(c) ==
  \/ Fetch(c) \/ EnterClosed(c) \/ EnterEmpty(c) \/ EnterNative(c) \/ Abandon(c)
  \/ GenerateStart(c) \/ GenerateEnd(c) \/ Finish(c) \/ FinishQuietly(c) \/ StatsEnd(c)

-----------------------------------------------------------------------------
(* The world. *)

FileAppears(p) ==
  /\ files' = files \cup {p}
  /\ UNCHANGED <<ctlVars, lpc, target, engineVars, clientVars>>

FileDeleted(p) ==
  /\ files' = files \ {p}
  /\ UNCHANGED <<ctlVars, lpc, target, engineVars, clientVars>>

(* The process is killed, by the system or by a segmentation fault in      *)
(* native code, and started again.                                         *)
ProcessDeath ==
  /\ engine' \in Engines
  /\ isEngineReady' = FALSE
  /\ status' = "none"
  /\ owner' = Nobody
  /\ lpc' = [l \in Loaders |-> "idle"]
  /\ target' = [l \in Loaders |-> DefaultPath]
  /\ path' = [e \in Engines |-> DefaultPath]
  /\ isInitialized' = [e \in Engines |-> FALSE]
  /\ handle' = [e \in Engines |-> FALSE]
  /\ native' = [e \in Engines |-> "none"]
  /\ abort_flag' = [e \in Engines |-> FALSE]
  /\ cpc' = [c \in Clients |-> "idle"]
  /\ using' = [c \in Clients |-> NoEngine]
  /\ cancelled' = [c \in Clients |-> FALSE]
  /\ tokens' = [c \in Clients |-> 0]
  /\ UNCHANGED files

Next ==
  \/ \E l \in Loaders :
       \/ \E p \in Paths : Request(l, p)
       \/ Initialize(l) \/ SwitchToNativeLocalMode(l)
       \/ LeaveQueue(l) \/ Acquire(l) \/ LoadStep(l)
  \/ \E c \in Clients :
       \/ Submit(c) \/ Refuse(c) \/ StatsStart(c) \/ Cancel(c)
       \/ GenerateToken(c) \/ ChatStep(c)
  \/ \E p \in Paths : FileAppears(p) \/ FileDeleted(p)
  \/ ProcessDeath

(* Kotlin's Mutex is FIFO, so a waiting loader is not overtaken for ever   *)
(* (strong fairness of Acquire); Dispatchers.IO runs what is runnable, and *)
(* a generation has at most MaxTokens tokens.                              *)
Fairness ==
  /\ \A l \in Loaders : SF_vars(Acquire(l)) /\ WF_vars(LoadStep(l))
  /\ \A c \in Clients : WF_vars(ChatStep(c))

Spec == Init /\ [][Next]_vars
FairSpec == Spec /\ Fairness
-----------------------------------------------------------------------------
(* Properties. *)

(* Every variable keeps its type; the phases of a loader and of a client   *)
(* are those of the code.                                                  *)
TypeOK ==
  /\ engine \in Engines
  /\ isEngineReady \in BOOLEAN
  /\ status \in Statuses
  /\ owner \in Loaders \cup {Nobody}
  /\ files \in SUBSET Paths
  /\ lpc \in [Loaders -> LoaderPhases]
  /\ target \in [Loaders -> Paths]
  /\ path \in [Engines -> Paths]
  /\ isInitialized \in [Engines -> BOOLEAN]
  /\ handle \in [Engines -> BOOLEAN]
  /\ native \in [Engines -> {"none", "live", "freed"}]
  /\ abort_flag \in [Engines -> BOOLEAN]
  /\ cpc \in [Clients -> ClientPhases]
  /\ using \in [Clients -> Engines \cup {NoEngine}]
  /\ cancelled \in [Clients -> BOOLEAN]
  /\ tokens \in [Clients -> 0 .. MaxTokens]

(* A model that close() can free stays reachable: whatever fails or is     *)
(* cancelled half way through a reload, no llama.cpp or Colibri model is   *)
(* left in memory except the one the engine field leads to                 *)
(* (EngineController.kt:127-159).                                          *)
NoLeakedModel ==
  \A e \in Engines : native[e] = "live" /\ ReleasedOnClose(e) => e = engine

(* A handle field that is not zero leads to live memory, so no close()     *)
(* frees a model twice and no call that re-reads the field meets a freed   *)
(* one (LlamaCppEngine.kt:261-266 zeroes it before it frees).              *)
HandleNeverDangles == \A e \in Engines : handle[e] => native[e] = "live"

(* While no reload is running, a controller that accepts chats has an      *)
(* engine that can answer them: a failed or cancelled reload withdraws     *)
(* isEngineReady (EngineController.kt:172-173).                            *)
ReadyEngineUsable ==
  isEngineReady /\ owner = Nobody
    => isInitialized[engine] /\ handle[engine] /\ native[engine] = "live"

(* The screen never keeps showing "Loading" after the load ended, and      *)
(* never shows "Load Failed" over a controller that accepts chats          *)
(* (EngineController.kt:96, 170, 177).                                     *)
StatusHonest ==
  /\ status = "loading" => owner # Nobody
  /\ status = "failed" => ~isEngineReady

(* The inductive strengthening of the three properties above.  At each     *)
(* phase of a reload it says how far the old engine has been taken down    *)
(* and the new one built, and that the phase belongs to the mutex holder.  *)
HeldByOwner == \A l \in Loaders : lpc[l] \in Critical <=> owner = l

(* A model that can be freed is in memory exactly as long as its engine    *)
(* has a handle, but for the step of close() between the two.              *)
FreeableHasHandle ==
  \A e \in Engines :
    native[e] = "live" /\ ReleasedOnClose(e)
      => handle[e] \/ \E l \in Loaders : lpc[l] = "free"

Usable == isInitialized[engine] /\ handle[engine] /\ native[engine] = "live"

PhaseInv ==
  \A l \in Loaders :
    /\ lpc[l] = "free" => native[engine] = "live" /\ ~handle[engine]
    /\ lpc[l] \in {"closed", "construct"}
         => ~(native[engine] = "live" /\ ReleasedOnClose(engine))
    /\ lpc[l] = "init" => native[engine] = "none"
    /\ lpc[l] = "inited" => handle[engine] /\ native[engine] = "live"
    /\ lpc[l] \in {"ready", "publish"} => Usable
    /\ lpc[l] = "check" /\ isEngineReady => Usable
    /\ lpc[l] = "report" => ~isEngineReady

LifecycleInv ==
  /\ TypeOK
  /\ NoLeakedModel
  /\ HandleNeverDangles
  /\ ReadyEngineUsable
  /\ HeldByOwner
  /\ FreeableHasHandle
  /\ PhaseInv

(* The native memory and the ready flag implement the one-model slot.  The *)
(* LiteRT model of an engine the controller has dropped is not in the      *)
(* slot: DeepEyeAgentEngine.close() never frees it (README, disagreements). *)
Resident == {e \in Engines : native[e] = "live" /\ (ReleasedOnClose(e) \/ e = engine)}

Slot == INSTANCE ModelSlot WITH resident <- Resident, ready <- isEngineReady

(* A model is evicted before the next is brought in, and the controller    *)
(* becomes ready only over a resident one (EngineController.kt:127-160).   *)
SlotSpec == Slot!Spec

(* A reload that was asked for ends, with the model or with an error, even *)
(* if others keep asking (EngineController.kt:85, withLock releases on     *)
(* every path).                                                            *)
ReloadEnds == \A l \in Loaders : (lpc[l] # "idle") ~> (lpc[l] = "idle")

(* A chat ends, reload or not: no client waits for a loader.               *)
ChatEnds == \A c \in Clients : (cpc[c] # "idle") ~> (cpc[c] = "idle")

(* llama-bridge.cpp:766: after nativeFreeModel "the handle is invalid and  *)
(* must not be reused".  No generation runs on a freed model.              *)
NoUseAfterFree ==
  \A c \in Clients : cpc[c] = "gen" => native[using[c]] # "freed"
=============================================================================
