----------------------------- MODULE DownloadWork -----------------------------
(***************************************************************************)
(* What the download of a model promises to the screen that starts, pauses *)
(* and cancels it: a unique work that runs, is tried again a few times and *)
(* ends.  One that fails, is cancelled or is interrupted leaves alone what *)
(* was installed before; only a deletion, a run at its end and a run that  *)
(* was stopped too late change it.  That its end installs the model can be *)
(* promised only where renames do not fail and nothing less can be taken   *)
(* for the model.                                                          *)
(*                                                                         *)
(* ModelDownload implements this module, and CatalogRows is built on it.   *)
(***************************************************************************)
EXTENDS Integers

CONSTANTS RetryLimit, Reliable

VARIABLES
  work, attempt,  \* the unique work and its runAttemptCount
  installed,      \* a file is there that is offered as the model
  lingering       \* a run that was stopped is not over yet

vars == <<work, attempt, installed, lingering>>

Init == work = "none" /\ attempt = 0 /\ installed \in BOOLEAN /\ lingering = FALSE

(* Whatever runs is stopped, which is not to say that it is over.          *)
StopRun == lingering' = (lingering \/ work = "running")

CountUp == attempt' = IF attempt < RetryLimit THEN attempt + 1 ELSE attempt

(* What the rename leaves. *)
Install == installed' = TRUE \/ (~Reliable /\ installed' = FALSE)

(* The work is replaced by a new one. *)
Enqueue == work' = "enqueued" /\ attempt' = 0 /\ StopRun /\ UNCHANGED installed

Cancel ==
  /\ work' = IF work \in {"enqueued", "running"} THEN "cancelled" ELSE work
  /\ StopRun /\ UNCHANGED <<attempt, installed>>

Delete == installed' = FALSE /\ UNCHANGED <<work, attempt, lingering>>

(* The system takes the run its network or its time.                       *)
Interrupt ==
  /\ work = "running" /\ work' = "enqueued"
  /\ CountUp /\ StopRun /\ UNCHANGED installed

(* The process dies, and every run with it.                                *)
Die ==
  /\ IF work = "running" THEN work' = "enqueued" /\ CountUp ELSE UNCHANGED <<work, attempt>>
  /\ lingering' = FALSE /\ UNCHANGED installed

Run == work = "enqueued" /\ work' = "running" /\ UNCHANGED <<attempt, installed, lingering>>

Retry ==
  /\ work = "running" /\ work' = "enqueued"
  /\ attempt < RetryLimit /\ attempt' = attempt + 1
  /\ UNCHANGED <<installed, lingering>>

Fail == work = "running" /\ work' = "failed" /\ UNCHANGED <<attempt, installed, lingering>>

(* What was installed is removed, to be replaced. *)
Remove ==
  /\ ~Reliable
  /\ work = "running"
  /\ installed' = FALSE /\ UNCHANGED <<work, attempt, lingering>>

Succeed ==
  /\ work = "running" /\ work' = "succeeded"
  /\ Install /\ UNCHANGED <<attempt, lingering>>

(* A run that was stopped goes on or ends, with the model installed if it  *)
(* was already about to.                                                   *)
Linger ==
  /\ lingering
  /\ UNCHANGED installed \/ Install
  /\ lingering' \in BOOLEAN
  /\ UNCHANGED <<work, attempt>>

Next ==
  \/ Enqueue \/ Cancel \/ Delete \/ Interrupt \/ Die
  \/ Run \/ Retry \/ Fail \/ Remove \/ Succeed \/ Linger

Spec == Init /\ [][Next]_vars
=============================================================================
