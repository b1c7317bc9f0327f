-------------------------- MODULE CatalogRowsProofs --------------------------
(***************************************************************************)
(* Proofs that what a row of CatalogRows shows is so, for any number of    *)
(* refresh jobs and of retries.                                            *)
(***************************************************************************)
EXTENDS CatalogRows, SequenceTheorems, TLAPS

Lines == [line : Listings, late : BOOLEAN]

(* Outdating listings keeps their number and their lines.                  *)
LEMMA OutdatedLines ==
  ASSUME NEW s \in Seq(Lines)
  PROVE  /\ Outdated(s) \in Seq(Lines)
         /\ Len(Outdated(s)) = Len(s)
         /\ \A i \in 1 .. Len(s) : Outdated(s)[i].late = TRUE
<1>. DEFINE n == Len(s)
<1>1. n \in Nat /\ \A i \in 1 .. n : s[i] \in Lines
  BY LenProperties, ElementOfSeq
<1>2. \A i \in 1 .. n : [s[i] EXCEPT !.late = TRUE] \in Lines
  BY <1>1 DEF Lines
<1>3. Outdated(s) \in [1 .. n -> Lines]
  BY <1>2 DEF Outdated
<1>4. Outdated(s) \in Seq(Lines)
  BY <1>1, <1>3, SeqDef
<1>5. Len(Outdated(s)) = n
  BY <1>1, <1>3, <1>4, LenProperties
<1>6. \A i \in 1 .. n : Outdated(s)[i].late = TRUE
  BY <1>1 DEF Outdated, Lines
<1>. QED
  BY <1>4, <1>5, <1>6

(* What is left when listing i has been shown: its own length, and a last  *)
(* line that is the old one or out of date.                                *)
LEMMA LeftLines ==
  ASSUME NEW s \in Seq(Lines), NEW i \in 1 .. Len(s),
         NEW t, t = Outdated(SubSeq(s, 1, i - 1)) \o SubSeq(s, i + 1, Len(s))
  PROVE  /\ t \in Seq(Lines)
         /\ Len(t) = Len(s) - 1
         /\ i < Len(s) => t[Len(t)] = s[Len(s)]
         /\ i = Len(s) /\ t # <<>> => t[Len(t)].late = TRUE
<1>. DEFINE u == SubSeq(s, 1, i - 1)
            v == SubSeq(s, i + 1, Len(s))
<1>1. u \in Seq(Lines) /\ Len(u) = i - 1
  BY SubSeqProperties
<1>2. /\ v \in Seq(Lines) /\ Len(v) = Len(s) - i
      /\ \A k \in 1 .. Len(s) - i : v[k] = s[i + k]
  <2>1. \A k \in i + 1 .. Len(s) : s[k] \in Lines
    OBVIOUS
  <2>2. /\ v \in Seq(Lines)
        /\ Len(v) = IF i + 1 <= Len(s) THEN Len(s) - (i + 1) + 1 ELSE 0
        /\ \A k \in 1 .. Len(s) - (i + 1) + 1 : v[k] = s[(i + 1) + k - 1]
    BY <2>1, SubSeqProperties
  <2>. QED
    BY <2>2
<1>3. /\ Outdated(u) \in Seq(Lines) /\ Len(Outdated(u)) = i - 1
      /\ \A k \in 1 .. i - 1 : Outdated(u)[k].late = TRUE
  BY <1>1, OutdatedLines
<1>4. t = Outdated(u) \o v
  OBVIOUS
<1>. HIDE DEF u, v
<1>5. /\ t \in Seq(Lines) /\ Len(t) = Len(s) - 1
      /\ \A k \in 1 .. Len(s) - 1 : t[k] = IF k <= i - 1 THEN Outdated(u)[k] ELSE v[k - (i - 1)]
  <2>1. /\ Outdated(u) \o v \in Seq(Lines)
        /\ Len(Outdated(u) \o v) = Len(Outdated(u)) + Len(v)
        /\ \A k \in 1 .. Len(Outdated(u)) + Len(v) : (Outdated(u) \o v)[k] =
               IF k <= Len(Outdated(u)) THEN Outdated(u)[k] ELSE v[k - Len(Outdated(u))]
    BY <1>2, <1>3, ConcatProperties
  <2>2. Len(s) \in Nat /\ i \in Int
    BY LenProperties
  <2>3. Len(Outdated(u)) + Len(v) = Len(s) - 1
    BY <1>2, <1>3, <2>2
  <2>4. \A k \in 1 .. Len(s) - 1 :
          (Outdated(u) \o v)[k] = IF k <= i - 1 THEN Outdated(u)[k] ELSE v[k - (i - 1)]
    BY <1>3, <2>1, <2>3
  <2>. QED
    BY <1>4, <2>1, <2>3, <2>4
<1>6. i < Len(s) => t[Len(t)] = s[Len(s)]
  <2>. SUFFICES ASSUME i < Len(s) PROVE t[Len(t)] = s[Len(s)]
    OBVIOUS
  <2>1. Len(s) \in Nat
    BY LenProperties
  <2>2. t[Len(s) - 1] = v[Len(s) - i]
    <3>1. /\ Len(s) - 1 \in 1 .. Len(s) - 1
          /\ ~(Len(s) - 1 <= i - 1)
          /\ (Len(s) - 1) - (i - 1) = Len(s) - i
      BY <2>1
    <3>. QED
      BY <1>5, <3>1
  <2>3. v[Len(s) - i] = s[Len(s)]
    BY <1>2, <2>1
  <2>. QED
    BY <1>5, <2>2, <2>3
<1>7. i = Len(s) /\ t # <<>> => t[Len(t)].late = TRUE
  BY <1>3, <1>5
<1>. QED
  BY <1>5, <1>6, <1>7

(* Initially the invariant holds.                                          *)
LEMMA RowInit == ASSUME Init PROVE RowInv
<1>1. TypeOK
  BY EmptySeq DEF Init, Download!Init, TypeOK, Listings, Active
<1>2. WatchInv /\ NewestInv /\ ShownDownloadIsReal /\ PausedIsPaused /\ ReadyHasFile
  BY DEF Init, Download!Init, WatchInv, NewestInv, ShownDownloadIsReal, PausedIsPaused, ReadyHasFile
<1>. QED
  BY <1>1, <1>2 DEF RowInv

(* The buttons keep it.                                                    *)
LEMMA UserKeeps == ASSUME RowInv, User PROVE RowInv'
<1>. USE DEF RowInv, TypeOK, WatchInv, NewestInv, ShownDownloadIsReal, PausedIsPaused,
             ReadyHasFile, Refreshing, Listings, Active, workVars, watchVars, refreshVars
<1>1. CASE DownloadModel
  <2>1. TypeOK'
    BY <1>1 DEF DownloadModel, Download!Enqueue, Download!StopRun, Show
  <2>2. WatchInv' /\ NewestInv'
    BY <1>1 DEF DownloadModel, Download!Enqueue, Download!StopRun, Show
  <2>3. ShownDownloadIsReal' /\ PausedIsPaused' /\ ReadyHasFile'
    BY <1>1 DEF DownloadModel, Download!Enqueue, Download!StopRun, Show
  <2>. QED
    BY <2>1, <2>2, <2>3
<1>2. CASE DownloadNothing
  <2>1. TypeOK'
    BY <1>2 DEF DownloadNothing, Show
  <2>2. WatchInv' /\ NewestInv'
    BY <1>2 DEF DownloadNothing, Show
  <2>3. ShownDownloadIsReal' /\ PausedIsPaused' /\ ReadyHasFile'
    BY <1>2 DEF DownloadNothing, Show
  <2>. QED
    BY <2>1, <2>2, <2>3
<1>3. CASE PauseDownload
  <2>1. TypeOK'
    BY <1>3 DEF PauseDownload, Show, Download!Cancel, Download!StopRun, Unwatch
  <2>2. WatchInv' /\ NewestInv'
    BY <1>3 DEF PauseDownload, Show, Download!Cancel, Download!StopRun, Unwatch
  <2>3. ShownDownloadIsReal' /\ PausedIsPaused' /\ ReadyHasFile'
    BY <1>3 DEF PauseDownload, Show, Download!Cancel, Download!StopRun, Unwatch
  <2>. QED
    BY <2>1, <2>2, <2>3
<1>4. CASE CancelDownload
  <2>1. TypeOK'
    BY <1>4 DEF CancelDownload, Show, Download!Cancel, Download!StopRun, Unwatch
  <2>2. WatchInv' /\ NewestInv'
    BY <1>4 DEF CancelDownload, Show, Download!Cancel, Download!StopRun, Unwatch
  <2>3. ShownDownloadIsReal' /\ PausedIsPaused' /\ ReadyHasFile'
    BY <1>4 DEF CancelDownload, Show, Download!Cancel, Download!StopRun, Unwatch
  <2>. QED
    BY <2>1, <2>2, <2>3
<1>5. CASE RefreshCatalog
  <2>1. TypeOK'
    BY <1>5 DEF RefreshCatalog
  <2>2. WatchInv' /\ NewestInv'
    BY <1>5 DEF RefreshCatalog
  <2>3. ShownDownloadIsReal' /\ PausedIsPaused' /\ ReadyHasFile'
    BY <1>5 DEF RefreshCatalog
  <2>. QED
    BY <2>1, <2>2, <2>3
<1>6. CASE DeleteModel
  <2>1. TypeOK'
    <3>1. scanning' \in Nat /\ listed' \in Seq([line : Listings, late : BOOLEAN])
      BY <1>6, EmptySeq DEF DeleteModel, Download!Delete
    <3>. QED
      BY <1>6, <3>1 DEF DeleteModel, Download!Delete
  <2>2. WatchInv' /\ NewestInv'
    BY <1>6 DEF DeleteModel, Download!Delete
  <2>3. ShownDownloadIsReal' /\ PausedIsPaused' /\ ReadyHasFile'
    BY <1>6 DEF DeleteModel, Download!Delete
  <2>. QED
    BY <2>1, <2>2, <2>3
<1>7. CASE ImportModel
  <2>1. TypeOK'
    BY <1>7 DEF ImportModel
  <2>2. WatchInv' /\ NewestInv'
    BY <1>7 DEF ImportModel
  <2>3. ShownDownloadIsReal' /\ PausedIsPaused' /\ ReadyHasFile'
    BY <1>7 DEF ImportModel
  <2>. QED
    BY <2>1, <2>2, <2>3
<1>8. CASE Recreate
  <2>1. TypeOK'
    <3>1. scanning' \in Nat /\ listed' \in Seq([line : Listings, late : BOOLEAN])
      BY <1>8, EmptySeq DEF Recreate
    <3>2. work' \in Active \cup {"none", "cancelled", "succeeded", "failed"}
          /\ attempt' \in Nat
      BY <1>8 DEF Recreate, Download!Die, Download!CountUp
    <3>3. lingering' \in BOOLEAN /\ onDisk' = onDisk
      BY <1>8 DEF Recreate, Download!Die
    <3>. QED
      BY <1>8, <3>1, <3>2, <3>3 DEF Recreate, Unwatch
  <2>2. WatchInv' /\ NewestInv'
    BY <1>8 DEF Recreate, Download!Die, Download!CountUp, Unwatch
  <2>3. ShownDownloadIsReal' /\ PausedIsPaused' /\ ReadyHasFile'
    BY <1>8 DEF Recreate, Download!Die, Download!CountUp, Unwatch
  <2>. QED
    BY <2>1, <2>2, <2>3
<1>. QED
  BY <1>1, <1>2, <1>3, <1>4, <1>5, <1>6, <1>7, <1>8 DEF User

(* A run at its end, or one that lingers, keeps it: a file that goes       *)
(* leaves every listing behind.                                            *)
LEMMA InstallingKeeps ==
  ASSUME RowInv, Installing, onDisk' \in BOOLEAN, lingering' \in BOOLEAN,
         attempt' = attempt, work' = work \/ (work = "running" /\ work' = "succeeded")
  PROVE  RowInv'
<1>. USE DEF RowInv, TypeOK, WatchInv, NewestInv, ShownDownloadIsReal, PausedIsPaused,
             ReadyHasFile, Refreshing, Listings, Active, watchVars
<1>1. UNCHANGED <<row, hasUrl, importing, watchVars, scanning>>
  BY DEF Installing
<1>2. CASE onDisk /\ ~onDisk'
  <2>1. behind' = TRUE /\ listed' = Outdated(listed)
    BY <1>2 DEF Installing
  <2>2. /\ listed' \in Seq([line : Listings, late : BOOLEAN])
        /\ Len(listed') = Len(listed)
        /\ \A i \in 1 .. Len(listed) : listed'[i].late = TRUE
    BY <2>1, OutdatedLines DEF Lines
  <2>3. /\ Len(listed) \in Nat /\ (listed # <<>> <=> Len(listed) > 0)
        /\ (listed' # <<>> <=> Len(listed') > 0)
    BY <2>2, EmptySeq, LenProperties
  <2>4. TypeOK'
    BY <1>1, <2>1, <2>2
  <2>5. WatchInv' /\ NewestInv'
    BY <1>1, <2>1, <2>2, <2>3
  <2>6. ShownDownloadIsReal' /\ PausedIsPaused' /\ ReadyHasFile'
    BY <1>1, <2>1, <2>2, <2>3
  <2>. QED
    BY <2>4, <2>5, <2>6
<1>3. CASE ~(onDisk /\ ~onDisk')
  <2>1. behind' = behind /\ listed' = listed /\ (onDisk => onDisk')
    BY <1>3 DEF Installing
  <2>2. TypeOK'
    BY <1>1, <2>1
  <2>3. WatchInv' /\ NewestInv'
    BY <1>1, <2>1
  <2>4. ShownDownloadIsReal' /\ PausedIsPaused' /\ ReadyHasFile'
    BY <1>1, <2>1
  <2>. QED
    BY <2>2, <2>3, <2>4
<1>. QED
  BY <1>2, <1>3

(* An import, the work and its observer keep it.                           *)
LEMMA BackgroundKeeps ==
  ASSUME RowInv, ImportGrows \/ ImportEnds \/ ImportFails \/ Job
                 \/ Replacing \/ Interrupted \/ Overrun \/ Notify \/ Deliver
  PROVE  RowInv'
<1>. USE DEF RowInv, TypeOK, WatchInv, NewestInv, ShownDownloadIsReal, PausedIsPaused,
             ReadyHasFile, Refreshing, Listings, Active, workVars, watchVars, refreshVars
<1>1. CASE ImportGrows
  BY <1>1 DEF ImportGrows
<1>2. CASE ImportEnds
  <2>1. TypeOK'
    <3>1. scanning' \in Nat
      BY <1>2 DEF ImportEnds
    <3>. QED
      BY <1>2, <3>1 DEF ImportEnds
  <2>2. WatchInv' /\ NewestInv'
    BY <1>2 DEF ImportEnds
  <2>3. ShownDownloadIsReal' /\ PausedIsPaused' /\ ReadyHasFile'
    BY <1>2 DEF ImportEnds
  <2>. QED
    BY <2>1, <2>2, <2>3
<1>3. CASE ImportFails
  <2>1. /\ listed' \in Seq([line : Listings, late : BOOLEAN])
        /\ Len(listed') = Len(listed)
        /\ \A i \in 1 .. Len(listed) : listed'[i].late = TRUE
    BY <1>3, OutdatedLines DEF ImportFails, Lines
  <2>2. Len(listed) \in Nat /\ (listed # <<>> <=> Len(listed) > 0)
        /\ (listed' # <<>> <=> Len(listed') > 0)
    BY <2>1, EmptySeq, LenProperties
  <2>3. TypeOK'
    BY <1>3, <2>1 DEF ImportFails
  <2>4. WatchInv' /\ NewestInv'
    BY <1>3, <2>1, <2>2 DEF ImportFails
  <2>5. ShownDownloadIsReal' /\ PausedIsPaused' /\ ReadyHasFile'
    BY <1>3, <2>1, <2>2 DEF ImportFails
  <2>. QED
    BY <2>3, <2>4, <2>5
<1>4. CASE Download!Run /\ Elsewhere
  <2>1. TypeOK'
    BY <1>4 DEF Download!Run, Elsewhere
  <2>2. WatchInv' /\ NewestInv'
    BY <1>4 DEF Download!Run, Elsewhere
  <2>3. ShownDownloadIsReal' /\ PausedIsPaused' /\ ReadyHasFile'
    BY <1>4 DEF Download!Run, Elsewhere
  <2>. QED
    BY <2>1, <2>2, <2>3
<1>5. CASE Download!Retry /\ Elsewhere
  <2>1. TypeOK'
    BY <1>5 DEF Download!Retry, Elsewhere
  <2>2. WatchInv' /\ NewestInv'
    BY <1>5 DEF Download!Retry, Elsewhere
  <2>3. ShownDownloadIsReal' /\ PausedIsPaused' /\ ReadyHasFile'
    BY <1>5 DEF Download!Retry, Elsewhere
  <2>. QED
    BY <2>1, <2>2, <2>3
<1>6. CASE Download!Fail /\ Elsewhere
  <2>1. TypeOK'
    BY <1>6 DEF Download!Fail, Elsewhere
  <2>2. WatchInv' /\ NewestInv'
    BY <1>6 DEF Download!Fail, Elsewhere
  <2>3. ShownDownloadIsReal' /\ PausedIsPaused' /\ ReadyHasFile'
    BY <1>6 DEF Download!Fail, Elsewhere
  <2>. QED
    BY <2>1, <2>2, <2>3
<1>7. CASE Download!Succeed /\ Installing
  BY <1>7, InstallingKeeps DEF Download!Succeed, Download!Install
<1>8. CASE Notify
  <2>1. TypeOK'
    BY <1>8 DEF Notify
  <2>2. WatchInv' /\ NewestInv'
    BY <1>8 DEF Notify
  <2>3. ShownDownloadIsReal' /\ PausedIsPaused' /\ ReadyHasFile'
    BY <1>8 DEF Notify
  <2>. QED
    BY <2>1, <2>2, <2>3
<1>9. CASE Deliver
  <2>1. TypeOK'
    BY <1>9 DEF Deliver, Show, Shown
  <2>2. WatchInv' /\ NewestInv'
    BY <1>9 DEF Deliver, Show, Shown
  <2>3. ShownDownloadIsReal' /\ PausedIsPaused' /\ ReadyHasFile'
    BY <1>9 DEF Deliver, Show, Shown
  <2>. QED
    BY <2>1, <2>2, <2>3
<1>10. CASE Interrupted
  <2>1. TypeOK'
    BY <1>10 DEF Interrupted, Elsewhere, Download!Interrupt, Download!CountUp, Download!StopRun
  <2>2. WatchInv' /\ NewestInv'
    BY <1>10 DEF Interrupted, Elsewhere, Download!Interrupt, Download!CountUp, Download!StopRun
  <2>3. ShownDownloadIsReal' /\ PausedIsPaused' /\ ReadyHasFile'
    BY <1>10 DEF Interrupted, Elsewhere, Download!Interrupt, Download!CountUp, Download!StopRun
  <2>. QED
    BY <2>1, <2>2, <2>3
<1>11. CASE Overrun
  BY <1>11, InstallingKeeps DEF Overrun, Download!Linger, Download!Install
<1>12. CASE Replacing
  BY <1>12, InstallingKeeps DEF Replacing, Download!Remove
<1>. QED
  BY <1>1, <1>2, <1>3, <1>4, <1>5, <1>6, <1>7, <1>8, <1>9, <1>10, <1>11, <1>12
  DEF Job

(* The refresh jobs keep it.                                               *)
LEMMA RefreshKeeps == ASSUME RowInv, ListDisk \/ Publish PROVE RowInv'
<1>. USE DEF RowInv, TypeOK, WatchInv, NewestInv, ShownDownloadIsReal, PausedIsPaused,
             ReadyHasFile, Refreshing, Listings, Active, workVars, watchVars, refreshVars
<1>1. CASE ListDisk
  <2>1. TypeOK'
    BY <1>1 DEF ListDisk
  <2>2. WatchInv' /\ NewestInv'
    BY <1>1 DEF ListDisk
  <2>3. ShownDownloadIsReal' /\ PausedIsPaused' /\ ReadyHasFile'
    BY <1>1 DEF ListDisk
  <2>. QED
    BY <2>1, <2>2, <2>3
<1>2. CASE Publish
  <2>1. PICK i \in 1 .. Len(listed) :
          /\ row' = listed[i].line
          /\ behind' = listed[i].late
          /\ listed' = Outdated(SubSeq(listed, 1, i - 1)) \o SubSeq(listed, i + 1, Len(listed))
          /\ UNCHANGED <<hasUrl, onDisk, importing, workVars, watchVars, scanning>>
    BY <1>2 DEF Publish
  <2>2. /\ listed' \in Seq(Lines)
        /\ Len(listed') = Len(listed) - 1
        /\ i < Len(listed) => listed'[Len(listed')] = listed[Len(listed)]
        /\ i = Len(listed) /\ listed' # <<>> => listed'[Len(listed')].late = TRUE
    BY <2>1, LeftLines DEF Lines
  <2>3. listed[i].line \in Listings /\ listed[i].late \in BOOLEAN
    <3>1. listed[i] \in Lines
      BY ElementOfSeq DEF Lines
    <3>. QED
      BY <3>1 DEF Lines
  <2>4. /\ Len(listed) \in Nat /\ listed # <<>>
        /\ listed' = <<>> => i = Len(listed)
    <3>1. Len(listed) \in Nat /\ i \in 1 .. Len(listed)
      BY LenProperties
    <3>2. listed = <<>> => Len(listed) = 0
      BY EmptySeq
    <3>3. listed' = <<>> => Len(listed') = 0
      BY EmptySeq
    <3>. QED
      BY <2>2, <3>1, <3>2, <3>3
  <2>5. TypeOK'
    <3>1. row' \in Listings /\ behind' \in BOOLEAN
      BY <2>1, <2>3
    <3>2. listed' \in Seq([line : Listings, late : BOOLEAN])
      BY <2>2 DEF Lines
    <3>3. UNCHANGED <<hasUrl, onDisk, importing, work, attempt, lingering, watching, told,
                      post, scanning>>
      BY <2>1
    <3>. QED
      BY <3>1, <3>2, <3>3
  <2>6. WatchInv' /\ ShownDownloadIsReal' /\ PausedIsPaused'
    BY <2>1, <2>3
  <2>7. NewestInv' /\ ReadyHasFile'
    <3>. SUFFICES ASSUME scanning = 0, ~importing
                  PROVE  NewestInv' /\ ReadyHasFile'
      <4>1. scanning' = scanning /\ importing' = importing
        BY <2>1
      <4>. QED
        BY <4>1
    <3>1. listed[Len(listed)].line = "ready" /\ ~listed[Len(listed)].late => onDisk
      BY <2>4
    <3>2. CASE listed' = <<>>
      BY <2>1, <2>4, <3>1, <3>2
    <3>3. CASE listed' # <<>> /\ i = Len(listed)
      BY <2>1, <2>2, <3>3
    <3>4. CASE listed' # <<>> /\ i # Len(listed)
      <4>1. i < Len(listed) /\ listed'[Len(listed')] = listed[Len(listed)]
        BY <2>2, <2>4, <3>4
      <4>. QED
        BY <2>1, <3>1, <3>4, <4>1
    <3>. QED
      BY <3>2, <3>3, <3>4
  <2>. QED
    BY <2>5, <2>6, <2>7
<1>. QED
  BY <1>1, <1>2

(* The invariant holds in every behaviour.                                 *)
THEOREM RowInvariant == Spec => []RowInv
<1>1. RowInv /\ [Next]_vars => RowInv'
  <2>. SUFFICES ASSUME RowInv, [Next]_vars PROVE RowInv'
    OBVIOUS
  <2>1. CASE UNCHANGED vars
    BY <2>1 DEF vars, workVars, watchVars, refreshVars, RowInv, TypeOK, WatchInv, NewestInv,
                ShownDownloadIsReal, PausedIsPaused, ReadyHasFile, Refreshing
  <2>. QED
    BY <2>1, UserKeeps, BackgroundKeeps, RefreshKeeps DEF Next
<1>. QED
  BY <1>1, RowInit, PTL DEF Spec

(* Every variable keeps its type.                                          *)
THEOREM TypeCorrect == Spec => []TypeOK
  BY RowInvariant, PTL DEF RowInv

(* A row that shows a download has one behind it, or its end is on the way *)
(* to the row.                                                             *)
THEOREM ShownIsReal == Spec => []ShownDownloadIsReal
  BY RowInvariant, PTL DEF RowInv

(* A row that shows a pause stays paused until a button is pressed.        *)
THEOREM PauseHolds == Spec => []PausedIsPaused
  BY RowInvariant, PTL DEF RowInv

(* Once all refresh jobs are through, a row that offers a model has the    *)
(* file, but for an older listing shown last and for an import or a rename *)
(* that failed over the file.                                              *)
THEOREM ReadyIsThere == Spec => []ReadyHasFile
  BY RowInvariant, PTL DEF RowInv
=============================================================================
