------------------------------ MODULE AppUpdate ------------------------------
(***************************************************************************)
(* The update of the app: UpdateManager.kt on the main thread, the requests *)
(* of GitHubUpdateChecker and UpdateDownloader on the IO dispatcher, and   *)
(* the dialog, which can be dismissed only while nothing is under way and  *)
(* whose old buttons stay for the 300 ms of a fade.                        *)
(***************************************************************************)
EXTENDS Integers

CONSTANTS
  Downloads,   \* coroutines of startDownload at once: a bound
  MaxChecks,   \* coroutines of checkForUpdates at once, of each kind: a bound
  Nobody

ASSUME UpdateAssumption == MaxChecks \in Nat /\ Nobody \notin Downloads

VARIABLES
  state,        \* _updateState
  offered,      \* the Update and Later buttons are on the screen
  dismissed,    \* the latest version was dismissed
  recent,       \* the last check is less than 12 hours old
  checks,       \* checks that wait for an answer, by force
  io,           \* where each download is: "success" and "error" wait to be collected
  news,         \* downloads with progress to be collected
  writer,       \* the download that created update.apk last
  whole,        \* update.apk has all its bytes
  overlapped    \* history: a download was started over another

checkVars == <<dismissed, recent, checks>>
fileVars == <<writer, whole>>
vars == <<state, offered, checkVars, io, news, fileVars, overlapped>>

Modal == {"checking", "downloading"}

Init ==
  /\ state = "idle" /\ offered = FALSE
  /\ dismissed \in BOOLEAN /\ recent \in BOOLEAN
  /\ checks = [force \in BOOLEAN |-> 0]
  /\ io = [d \in Downloads |-> "off"] /\ news = {}
  /\ writer = Nobody /\ whole \in BOOLEAN /\ overlapped = FALSE

Set(new) == state' = new /\ offered' = (offered \/ new = "available")
-----------------------------------------------------------------------------
(* The check. *)

CheckForUpdates(force) ==
  /\ state \notin Modal
  /\ force \/ ~recent
  /\ checks[force] < MaxChecks
  /\ Set("checking")
  /\ checks' = [checks EXCEPT ![force] = @ + 1]
  /\ UNCHANGED <<dismissed, recent, io, news, fileVars, overlapped>>

(* Mutant of Outcomes: a quiet check that fails leaves the state.          *)
OutcomesLoud(force) ==
  {IF force \/ ~dismissed THEN "available" ELSE "idle"} \cup
  IF force THEN {"upToDate", "error"} ELSE {"idle", state}

(* A newer version, none, or no answer. *)
Outcomes(force) ==
  {IF force \/ ~dismissed THEN "available" ELSE "idle"} \cup
  IF force THEN {"upToDate", "error"} ELSE {"idle"}

(* The result is shown over whatever is shown by now.                      *)
Answer(force) ==
  /\ checks[force] > 0
  /\ recent' = TRUE
  /\ checks' = [checks EXCEPT ![force] = @ - 1]
  /\ \E new \in Outcomes(force) : Set(new)
  /\ UNCHANGED <<dismissed, io, news, fileVars, overlapped>>

TimePasses ==
  /\ recent
  /\ recent' = FALSE
  /\ UNCHANGED <<state, offered, dismissed, checks, io, news, fileVars, overlapped>>
-----------------------------------------------------------------------------
(* The dialog. *)

FadeEnds ==
  /\ offered /\ state # "available"
  /\ offered' = FALSE
  /\ UNCHANGED <<state, checkVars, io, news, fileVars, overlapped>>

(* resetState: the Dismiss buttons, back, and a touch outside.             *)
ResetState ==
  /\ state \notin Modal \cup {"idle"}
  /\ Set("idle")
  /\ UNCHANGED <<checkVars, io, news, fileVars, overlapped>>

DismissUpdate ==
  /\ offered
  /\ dismissed' = TRUE /\ Set("idle")
  /\ UNCHANGED <<recent, checks, io, news, fileVars, overlapped>>

Live(d) == io[d] # "off"

(* No state says that the download was started until its first progress is *)
(* collected: the button can be pressed again.                             *)
StartDownload(d) ==
  /\ offered /\ ~Live(d)
  /\ io' = [io EXCEPT ![d] = "ask"] /\ news' = news \cup {d}
  /\ overlapped' = (\E e \in Downloads : Live(e))
  /\ UNCHANGED <<state, offered, checkVars, fileVars>>
-----------------------------------------------------------------------------
(* A download, on the IO dispatcher. *)

(* update.apk is deleted and created: another stream on it writes to a     *)
(* file without a name, or, between the two, to the new one, at its own    *)
(* position; either way the name leads to what this download writes.       *)
OpenApk(d) ==
  /\ io[d] = "ask"
  /\ io' = [io EXCEPT ![d] = "write"]
  /\ writer' = d /\ whole' = FALSE
  /\ UNCHANGED <<state, offered, checkVars, news, overlapped>>

Progress(d) ==
  /\ io[d] = "write" /\ d \notin news
  /\ news' = news \cup {d}
  /\ UNCHANGED <<state, offered, checkVars, io, fileVars, overlapped>>

(* Mutant of Finish: a body that breaks off counts as its end.             *)
FinishShort(d) ==
  /\ io[d] = "write"
  /\ io' = [io EXCEPT ![d] = "success"]
  /\ UNCHANGED <<state, offered, checkVars, news, fileVars, overlapped>>

Finish(d) ==
  /\ io[d] = "write"
  /\ io' = [io EXCEPT ![d] = "success"]
  /\ whole' = (whole \/ writer = d)
  /\ UNCHANGED <<state, offered, checkVars, news, writer, overlapped>>

(* Mutant of Fail: an exception ends the flow without a word.              *)
FailSilently(d) ==
  /\ io[d] \in {"ask", "write"} /\ d \notin news
  /\ io' = [io EXCEPT ![d] = "off"]
  /\ UNCHANGED <<state, offered, checkVars, news, fileVars, overlapped>>

Fail(d) ==
  /\ io[d] \in {"ask", "write"}
  /\ io' = [io EXCEPT ![d] = "error"]
  /\ UNCHANGED <<state, offered, checkVars, news, fileVars, overlapped>>

(* On the main thread, in the order of the flow.                           *)
CollectProgress(d) ==
  /\ d \in news
  /\ news' = news \ {d}
  /\ Set("downloading")
  /\ UNCHANGED <<checkVars, io, fileVars, overlapped>>

CollectEnd(d) ==
  /\ io[d] \in {"success", "error"} /\ d \notin news
  /\ io' = [io EXCEPT ![d] = "off"]
  /\ Set(IF io[d] = "success" THEN "ready" ELSE "error")
  /\ UNCHANGED <<checkVars, news, fileVars, overlapped>>

Collect(d) == CollectProgress(d) \/ CollectEnd(d)

Next ==
  \/ \E force \in BOOLEAN : CheckForUpdates(force) \/ Answer(force)
  \/ TimePasses \/ FadeEnds \/ ResetState \/ DismissUpdate
  \/ \E d \in Downloads : \/ StartDownload(d) \/ OpenApk(d) \/ Progress(d)
                          \/ Finish(d) \/ Fail(d) \/ Collect(d)

Spec == Init /\ [][Next]_vars

(* Every request has a time limit and every body an end; the main thread   *)
(* collects.                                                               *)
FairSpec ==
  /\ Spec
  /\ \A force \in BOOLEAN : WF_vars(Answer(force))
  /\ \A d \in Downloads :
       /\ WF_vars(OpenApk(d) \/ Fail(d)) /\ WF_vars(Finish(d) \/ Fail(d))
       /\ WF_vars(CollectProgress(d)) /\ SF_vars(CollectEnd(d))
-----------------------------------------------------------------------------
(* Properties. *)

(* Every variable keeps its type. *)
TypeOK ==
  /\ state \in Modal \cup {"idle", "upToDate", "available", "ready", "error"}
  /\ {offered, dismissed, recent, whole, overlapped} \subseteq BOOLEAN
  /\ checks \in [BOOLEAN -> 0 .. MaxChecks]
  /\ io \in [Downloads -> {"off", "ask", "write", "success", "error"}]
  /\ news \subseteq Downloads /\ writer \in Downloads \cup {Nobody}
  /\ \A d \in news : Live(d)

(* The dialog that cannot be dismissed is there only as long as a check or *)
(* a download will still say something, whatever checks and downloads      *)
(* overwrite each other's states (UpdateManager.kt:49-75, 84-98,           *)
(* UpdateDialog.kt:36-44).                                                 *)
ModalHasWork ==
  /\ state = "checking" => \E force \in BOOLEAN : checks[force] > 0
  /\ state = "downloading" => \E d \in Downloads : Live(d)

(* And it always goes away.                                                *)
ModalEnds == state \in Modal ~> state \notin Modal

(* Once no download is under way, what the dialog offers to install is all *)
(* of it, unless a download was started over another                       *)
(* (UpdateDownloader.kt:47-76).                                            *)
ReadyIsWhole ==
  state = "ready" /\ ~overlapped /\ (\A d \in Downloads : ~Live(d)) => whole

(* The inductive strengthening: a download that runs alone is the writer.  *)
LoneInv ==
  ~overlapped =>
    /\ \A d, e \in Downloads : Live(d) /\ Live(e) => d = e
    /\ \A d \in Downloads : /\ io[d] = "write" => writer = d
                            /\ io[d] = "success" => whole

UpdateInv == TypeOK /\ ModalHasWork /\ LoneInv /\ ReadyIsWhole
=============================================================================
