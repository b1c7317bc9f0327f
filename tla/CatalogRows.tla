----------------------------- MODULE CatalogRows -----------------------------
(***************************************************************************)
(* One row of the model catalog, ModelCatalogViewModel.kt: its buttons, the *)
(* observer of the download's work, and the refresh jobs that list the disk *)
(* on the IO dispatcher and then replace every row.                        *)
(*                                                                         *)
(* What the work does inside is ModelDownload's matter; here it does what  *)
(* DownloadWork says, which ModelDownload is shown to implement.           *)
(***************************************************************************)
EXTENDS Integers, Sequences

CONSTANTS
  MaxRefresh,   \* refresh jobs at once, when the user asks for another
  MaxAttempts   \* retries of a work

ASSUME CatalogAssumption == MaxRefresh \in Nat /\ MaxAttempts \in Nat

VARIABLES
  row,        \* what is shown
  hasUrl,     \* the catalog has a URL for the model
  onDisk,     \* the file is there, with more than 1 MB
  importing,  \* importModel copies to it
  work, attempt, lingering,   \* the unique work, see DownloadWork
  watching,   \* downloadJobs has an observer of the work
  told,       \* the last state the work's flow has read
  post,       \* what it has read and not delivered
  scanning,   \* refresh jobs that have not listed the disk yet
  listed,     \* listings not yet shown, oldest first
  behind      \* history: the row is older than the newest listing, or than
              \* a change of the disk that no refresh follows

(* The rename may fail, and a shorter file be taken for the model. *)
Download == INSTANCE DownloadWork WITH RetryLimit <- MaxAttempts, installed <- onDisk,
                                       Reliable <- FALSE

workVars == <<work, attempt, lingering>>
watchVars == <<watching, told, post>>
refreshVars == <<scanning, listed, behind>>
vars == <<row, hasUrl, onDisk, importing, workVars, watchVars, refreshVars>>

Listings == {"absent", "none", "ready"}
Active == {"enqueued", "running"}

Init ==
  /\ row = "absent" /\ hasUrl \in BOOLEAN
  /\ Download!Init /\ importing = FALSE
  /\ watching = FALSE /\ told = "none" /\ post = "none"
  /\ scanning = 1 /\ listed = <<>> /\ behind = FALSE
-----------------------------------------------------------------------------
(* The buttons. *)

(* Nobody presses a button over too many refresh jobs: a bound. *)
MayRefresh == scanning + Len(listed) < MaxRefresh

Show(status) == row' = IF row = "absent" THEN row ELSE status

(* The unique work is replaced, and its observer. *)
DownloadModel ==
  /\ MayRefresh /\ row # "absent" /\ hasUrl
  /\ Show("downloading")
  /\ Download!Enqueue
  /\ watching' = TRUE /\ told' = "none" /\ post' = "none"
  /\ UNCHANGED <<hasUrl, importing, refreshVars>>

(* The row is set before the URL is looked at. *)
DownloadNothing ==
  /\ row # "absent" /\ ~hasUrl
  /\ Show("downloading")
  /\ UNCHANGED <<hasUrl, onDisk, importing, workVars, watchVars, refreshVars>>

(* Mutant of Unwatch: the observer is forgotten, not cancelled.            *)
KeepWatching == UNCHANGED watchVars

Unwatch == watching' = FALSE /\ told' = "none" /\ post' = "none"

PauseDownload ==
  /\ Download!Cancel /\ Unwatch
  /\ Show("paused")
  /\ UNCHANGED <<hasUrl, importing, refreshVars>>

CancelDownload ==
  /\ Download!Cancel /\ Unwatch
  /\ Show("none")
  /\ UNCHANGED <<hasUrl, importing, refreshVars>>

(* refreshCatalog, by its button or after a model was activated.           *)
RefreshCatalog ==
  /\ MayRefresh
  /\ scanning' = scanning + 1
  /\ UNCHANGED <<row, hasUrl, onDisk, importing, workVars, watchVars, listed, behind>>

(* Mutant of DeleteModel: the list is not refreshed.                       *)
DeleteSilently ==
  /\ MayRefresh /\ row # "absent"
  /\ onDisk' = FALSE
  /\ UNCHANGED <<row, hasUrl, importing, workVars, watchVars, refreshVars>>

DeleteModel ==
  /\ MayRefresh /\ row # "absent"
  /\ Download!Delete
  /\ scanning' = scanning + 1
  /\ UNCHANGED <<row, hasUrl, importing, watchVars, listed, behind>>

(* The copy goes straight to the final name and truncates what is there.   *)
ImportModel ==
  /\ MayRefresh /\ ~importing
  /\ importing' = TRUE /\ onDisk' = FALSE
  /\ UNCHANGED <<row, hasUrl, workVars, watchVars, refreshVars>>

ImportGrows ==
  /\ importing /\ ~onDisk
  /\ onDisk' = TRUE
  /\ UNCHANGED <<row, hasUrl, importing, workVars, watchVars, refreshVars>>

ImportEnds ==
  /\ importing
  /\ importing' = FALSE
  /\ scanning' = scanning + 1
  /\ UNCHANGED <<row, hasUrl, onDisk, workVars, watchVars, listed, behind>>

Outdated(listings) == [i \in 1 .. Len(listings) |-> [listings[i] EXCEPT !.late = TRUE]]

(* What was copied stays, and nobody lists the disk. *)
ImportFails ==
  /\ importing
  /\ importing' = FALSE
  /\ behind' = TRUE /\ listed' = Outdated(listed)
  /\ UNCHANGED <<row, hasUrl, onDisk, workVars, watchVars, scanning>>

(* The screen is left and opened again, or the process dies: the work goes *)
(* on or is enqueued again, and the new ViewModel only refreshes.          *)
Recreate ==
  /\ row' = "absent"
  /\ importing' = FALSE
  /\ UNCHANGED <<workVars, onDisk>> \/ Download!Die
  /\ Unwatch
  /\ scanning' = 1 /\ listed' = <<>> /\ behind' = FALSE
  /\ UNCHANGED hasUrl

User ==
  \/ DownloadModel \/ DownloadNothing \/ PauseDownload \/ CancelDownload
  \/ RefreshCatalog \/ DeleteModel \/ ImportModel \/ Recreate
-----------------------------------------------------------------------------
(* The work and its observer. *)

Elsewhere == UNCHANGED <<row, hasUrl, importing, watchVars, refreshVars>>

(* The model may be replaced, and what is listed as its file may be lost.  *)
Installing ==
  /\ UNCHANGED <<row, hasUrl, importing, watchVars, scanning>>
  /\ IF onDisk /\ ~onDisk'
     THEN behind' = TRUE /\ listed' = Outdated(listed)
     ELSE UNCHANGED <<behind, listed>>

Job ==
  \/ (Download!Run \/ Download!Retry \/ Download!Fail) /\ Elsewhere
  \/ Download!Succeed /\ Installing

Replacing == Download!Remove /\ Installing

(* The system stops the work; a stopped run installs the model all the     *)
(* same, and nobody is told.                                               *)
Interrupted == Download!Interrupt /\ Elsewhere
Overrun == Download!Linger /\ Installing

(* Mutant of Notify: only a work that still runs is read.                  *)
NotifyRunning ==
  /\ watching /\ work = "running"
  /\ told' = work /\ post' = work
  /\ UNCHANGED <<row, hasUrl, onDisk, importing, workVars, watching, refreshVars>>

(* getWorkInfoByIdFlow reads the work when it has changed; the state and   *)
(* the progress of running work change it.                                 *)
Notify ==
  /\ watching /\ (told # work \/ work = "running")
  /\ told' = work /\ post' = work
  /\ UNCHANGED <<row, hasUrl, onDisk, importing, workVars, watching, refreshVars>>

(* Mutant of Shown: a failure leaves the row as it is.                     *)
ShownBusy(state) ==
  CASE state = "running" -> "downloading" [] OTHER -> row

(* What the observer makes of a state; success waits for a refresh. *)
Shown(state) ==
  CASE state = "running" -> "downloading"
    [] state = "failed" -> "failed"
    [] state = "cancelled" -> "none"
    [] OTHER -> row

Deliver ==
  /\ post # "none"
  /\ post' = "none"
  /\ Show(Shown(post))
  /\ scanning' = IF post = "succeeded" THEN scanning + 1 ELSE scanning
  /\ UNCHANGED <<hasUrl, onDisk, importing, workVars, watching, told, listed, behind>>
-----------------------------------------------------------------------------
(* The refresh jobs. *)

(* The model's line in the list: mapSpecsToLocalModels.  The catalog that  *)
(* was fetched may lack it.                                                *)
ListDisk ==
  /\ scanning > 0
  /\ scanning' = scanning - 1
  /\ \E line \in {"absent", IF onDisk THEN "ready" ELSE "none"} :
       listed' = Append(listed, [line |-> line, late |-> FALSE])
  /\ UNCHANGED <<row, hasUrl, onDisk, importing, workVars, watchVars, behind>>

(* The whole list is replaced, whatever it shows by now. *)
Publish ==
  \E i \in 1 .. Len(listed) :
    /\ row' = listed[i].line
    /\ behind' = listed[i].late
    /\ listed' = Outdated(SubSeq(listed, 1, i - 1)) \o SubSeq(listed, i + 1, Len(listed))
    /\ UNCHANGED <<hasUrl, onDisk, importing, workVars, watchVars, scanning>>

Next ==
  \/ User \/ ImportGrows \/ ImportEnds \/ ImportFails
  \/ Job \/ Replacing \/ Interrupted \/ Overrun
  \/ Notify \/ Deliver \/ ListDisk \/ Publish

Spec == Init /\ [][Next]_vars

(* WorkManager runs the work once there is a network and the worker ends   *)
(* (DownloadEnds of ModelDownload); flows and coroutines go on.            *)
FairSpec ==
  /\ Spec
  /\ WF_vars(Job) /\ WF_vars(told # work /\ Notify) /\ WF_vars(Deliver)
  /\ WF_vars(ListDisk) /\ WF_vars(Publish)
-----------------------------------------------------------------------------
(* Properties. *)

(* Every variable keeps its type. *)
TypeOK ==
  /\ row \in Listings \cup {"downloading", "paused", "failed"}
  /\ hasUrl \in BOOLEAN /\ onDisk \in BOOLEAN /\ importing \in BOOLEAN
  /\ work \in Active \cup {"none", "cancelled", "succeeded", "failed"}
  /\ attempt \in Nat /\ lingering \in BOOLEAN
  /\ watching \in BOOLEAN
  /\ told \in Active \cup {"none", "succeeded", "failed"}
  /\ post \in {"none", told}
  /\ scanning \in Nat
  /\ listed \in Seq([line : Listings, late : BOOLEAN])
  /\ behind \in BOOLEAN

(* A row that shows a download has one behind it, or its end is on the way *)
(* to the row, whatever was refreshed, paused, restarted or delivered late *)
(* meanwhile (ModelCatalogViewModel.kt:81-118, 312-316).  Without a URL    *)
(* the row shows one that never was (49-58).                               *)
Refreshing == scanning > 0 \/ listed # <<>>

ShownDownloadIsReal ==
  row = "downloading" /\ hasUrl =>
    /\ watching
    /\ \/ work \in Active \/ told # work \/ post # "none"
       \/ work = "succeeded" /\ Refreshing

(* A row that shows a pause has no work that could still change it         *)
(* (ModelCatalogViewModel.kt:126-131).                                     *)
PausedIsPaused == row = "paused" => work \notin Active /\ ~watching

(* Once all refresh jobs are through, a row that offers a model has the    *)
(* file, unless an older listing was shown last, or an import or a rename  *)
(* failed over the file (ModelCatalogViewModel.kt:99-100, 160-162,         *)
(* 215-222, 316).                                                          *)
ReadyHasFile == row = "ready" /\ ~Refreshing /\ ~importing /\ ~behind => onDisk

(* The inductive strengthening: what an observer has read of an end is     *)
(* true, and the newest listing, once there is no job that has yet to look *)
(* at the disk, does not offer a file that is gone.                        *)
WatchInv ==
  /\ watching => work \notin {"none", "cancelled"}
  /\ ~watching => told = "none"
  /\ told \in {"succeeded", "failed"} => work = told

NewestInv ==
  scanning = 0 /\ ~importing =>
    IF listed = <<>> THEN row = "ready" /\ ~behind => onDisk
    ELSE listed[Len(listed)].line = "ready" /\ ~listed[Len(listed)].late => onDisk

RowInv ==
  /\ TypeOK /\ WatchInv /\ NewestInv
  /\ ShownDownloadIsReal /\ PausedIsPaused /\ ReadyHasFile

(* Once nobody disturbs it any more, a row stops showing a download        *)
(* (ModelCatalogViewModel.kt:96-116).                                      *)
ShownDownloadEnds ==
  hasUrl /\ <>[][~User /\ ~Interrupted]_vars => <>[](row # "downloading")
=============================================================================
