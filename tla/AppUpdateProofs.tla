--------------------------- MODULE AppUpdateProofs ---------------------------
(***************************************************************************)
(* Proofs about AppUpdate for any number of checks and downloads at once.  *)
(***************************************************************************)
EXTENDS AppUpdate, TLAPS

(* Initially the invariant holds.                                          *)
LEMMA UpdateInit == ASSUME Init PROVE UpdateInv
<1>1. checks \in [BOOLEAN -> 0 .. MaxChecks]
  BY UpdateAssumption DEF Init
<1>2. TypeOK
  BY <1>1 DEF Init, TypeOK, Modal, Live
<1>3. ModalHasWork /\ LoneInv /\ ReadyIsWhole
  BY DEF Init, ModalHasWork, LoneInv, ReadyIsWhole, Live
<1>. QED
  BY <1>2, <1>3 DEF UpdateInv

(* The checks and the buttons keep it.                                     *)
LEMMA DialogKeeps ==
  ASSUME UpdateInv,
         \/ \E force \in BOOLEAN : CheckForUpdates(force) \/ Answer(force)
         \/ TimePasses \/ FadeEnds \/ ResetState \/ DismissUpdate
  PROVE  UpdateInv'
<1>. USE DEF UpdateInv, TypeOK, ModalHasWork, LoneInv, ReadyIsWhole, Live, Modal, Set,
             checkVars, fileVars
<1>1. ASSUME NEW force \in BOOLEAN, CheckForUpdates(force) PROVE UpdateInv'
  <2>1. checks' \in [BOOLEAN -> 0 .. MaxChecks] /\ checks'[force] > 0
    BY <1>1, UpdateAssumption DEF CheckForUpdates
  <2>2. TypeOK'
    BY <1>1, <2>1 DEF CheckForUpdates
  <2>3. ModalHasWork' /\ LoneInv' /\ ReadyIsWhole'
    BY <1>1, <2>1 DEF CheckForUpdates
  <2>. QED
    BY <2>2, <2>3
<1>2. ASSUME NEW force \in BOOLEAN, Answer(force) PROVE UpdateInv'
  <2>1. checks' \in [BOOLEAN -> 0 .. MaxChecks]
    BY <1>2, UpdateAssumption DEF Answer
  <2>2. state' \in {"idle", "upToDate", "available", "error"}
    BY <1>2 DEF Answer, Outcomes
  <2>3. TypeOK'
    BY <1>2, <2>1, <2>2 DEF Answer
  <2>4. ModalHasWork' /\ LoneInv' /\ ReadyIsWhole'
    BY <1>2, <2>2 DEF Answer
  <2>. QED
    BY <2>3, <2>4
<1>3. CASE TimePasses
  <2>1. TypeOK'
    BY <1>3 DEF TimePasses
  <2>2. ModalHasWork' /\ LoneInv' /\ ReadyIsWhole'
    BY <1>3 DEF TimePasses
  <2>. QED
    BY <2>1, <2>2
<1>4. CASE FadeEnds
  <2>1. TypeOK'
    BY <1>4 DEF FadeEnds
  <2>2. ModalHasWork' /\ LoneInv' /\ ReadyIsWhole'
    BY <1>4 DEF FadeEnds
  <2>. QED
    BY <2>1, <2>2
<1>5. CASE ResetState
  <2>1. TypeOK'
    BY <1>5 DEF ResetState
  <2>2. ModalHasWork' /\ LoneInv' /\ ReadyIsWhole'
    BY <1>5 DEF ResetState
  <2>. QED
    BY <2>1, <2>2
<1>6. CASE DismissUpdate
  <2>1. TypeOK'
    BY <1>6 DEF DismissUpdate
  <2>2. ModalHasWork' /\ LoneInv' /\ ReadyIsWhole'
    BY <1>6 DEF DismissUpdate
  <2>. QED
    BY <2>1, <2>2
<1>. QED
  BY <1>1, <1>2, <1>3, <1>4, <1>5, <1>6

(* A download keeps it.                                                    *)
LEMMA DownloadKeeps ==
  ASSUME UpdateInv, NEW d \in Downloads,
         \/ StartDownload(d) \/ OpenApk(d) \/ Progress(d)
         \/ Finish(d) \/ Fail(d) \/ Collect(d)
  PROVE  UpdateInv'
<1>. USE DEF UpdateInv, TypeOK, ModalHasWork, LoneInv, ReadyIsWhole, Live, Modal,
             checkVars, fileVars
<1>1. CASE StartDownload(d)
  <2>1. TypeOK'
    BY <1>1 DEF StartDownload
  <2>2. ModalHasWork' /\ ReadyIsWhole'
    BY <1>1 DEF StartDownload
  <2>3. LoneInv'
    BY <1>1 DEF StartDownload
  <2>. QED
    BY <2>1, <2>2, <2>3
<1>2. CASE OpenApk(d)
  <2>1. TypeOK'
    BY <1>2 DEF OpenApk
  <2>2. ModalHasWork' /\ ReadyIsWhole'
    BY <1>2 DEF OpenApk
  <2>3. LoneInv'
    BY <1>2 DEF OpenApk
  <2>. QED
    BY <2>1, <2>2, <2>3
<1>3. CASE Progress(d)
  <2>1. TypeOK'
    BY <1>3 DEF Progress
  <2>2. ModalHasWork' /\ LoneInv' /\ ReadyIsWhole'
    BY <1>3 DEF Progress
  <2>. QED
    BY <2>1, <2>2
<1>4. CASE Finish(d)
  <2>1. TypeOK'
    BY <1>4 DEF Finish
  <2>2. ModalHasWork' /\ ReadyIsWhole'
    BY <1>4 DEF Finish
  <2>3. LoneInv'
    BY <1>4 DEF Finish
  <2>. QED
    BY <2>1, <2>2, <2>3
<1>5. CASE Fail(d)
  <2>1. TypeOK'
    BY <1>5 DEF Fail
  <2>2. ModalHasWork' /\ ReadyIsWhole'
    BY <1>5 DEF Fail
  <2>3. LoneInv'
    BY <1>5 DEF Fail
  <2>. QED
    BY <2>1, <2>2, <2>3
<1>6. CASE CollectProgress(d)
  <2>1. TypeOK'
    BY <1>6 DEF CollectProgress, Set
  <2>2. ModalHasWork' /\ LoneInv' /\ ReadyIsWhole'
    BY <1>6 DEF CollectProgress, Set
  <2>. QED
    BY <2>1, <2>2
<1>7. CASE CollectEnd(d)
  <2>1. TypeOK'
    BY <1>7 DEF CollectEnd, Set
  <2>2. ModalHasWork' /\ LoneInv'
    BY <1>7 DEF CollectEnd, Set
  <2>3. ReadyIsWhole'
    BY <1>7 DEF CollectEnd, Set
  <2>. QED
    BY <2>1, <2>2, <2>3
<1>. QED
  BY <1>1, <1>2, <1>3, <1>4, <1>5, <1>6, <1>7 DEF Collect

(* The invariant holds in every behaviour.                                 *)
THEOREM UpdateInvariant == Spec => []UpdateInv
<1>1. UpdateInv /\ [Next]_vars => UpdateInv'
  <2>. SUFFICES ASSUME UpdateInv, [Next]_vars PROVE UpdateInv'
    OBVIOUS
  <2>1. CASE UNCHANGED vars
    BY <2>1 DEF vars, checkVars, fileVars, UpdateInv, TypeOK, ModalHasWork, LoneInv,
                ReadyIsWhole, Live
  <2>. QED
    BY <2>1, DialogKeeps, DownloadKeeps DEF Next
<1>. QED
  BY <1>1, UpdateInit, PTL DEF Spec

(* Every variable keeps its type.                                          *)
THEOREM TypeCorrect == Spec => []TypeOK
  BY UpdateInvariant, PTL DEF UpdateInv

(* The dialog that cannot be dismissed has a check or a download behind it. *)
THEOREM ModalIsWorking == Spec => []ModalHasWork
  BY UpdateInvariant, PTL DEF UpdateInv

(* Once no download is under way, what is offered to install is whole,     *)
(* unless a download was started over another.                             *)
THEOREM ReadyApkIsWhole == Spec => []ReadyIsWhole
  BY UpdateInvariant, PTL DEF UpdateInv
=============================================================================
