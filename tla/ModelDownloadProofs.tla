------------------------- MODULE ModelDownloadProofs -------------------------
(***************************************************************************)
(* Proofs about ModelDownload when a stopped run is over before the next   *)
(* one starts: for every size of the model, number of ranges, server and   *)
(* fault, whatever stops, deaths and buttons come between two steps.       *)
(***************************************************************************)
EXTENDS ModelDownload, TLAPS

(* One run at a time: two that overlap write the same files.               *)
OneRun == \A v, w \in Workers : v = w

-----------------------------------------------------------------------------
(* Ranges: a partition of the file, for every size and number of requests. *)

(* Division rounds down.                                                   *)
LEMMA DivBounds ==
  ASSUME NEW a \in Nat, NEW d \in Nat \ {0}
  PROVE  /\ a \div d \in Nat
         /\ d * (a \div d) <= a
         /\ a < d * (a \div d) + d
  BY SMT

(* The ranges reach the end of what is planned for, and the last one       *)
(* begins in it.                                                           *)
LEMMA SizeBounds ==
  /\ ChunkSize \in Nat \ {0}
  /\ NChunks * ChunkSize >= Planned
  /\ (NChunks - 1) * ChunkSize < Planned
<1>. DEFINE a == Planned + NChunks - 1
<1>1. a \in Nat /\ NChunks \in Nat \ {0}
  BY PlanAssumption
<1>2. /\ ChunkSize \in Nat
      /\ NChunks * ChunkSize <= a
      /\ a < NChunks * ChunkSize + NChunks
  BY <1>1, DivBounds DEF ChunkSize
<1>3. NChunks * ChunkSize >= Planned
  BY <1>2, PlanAssumption
<1>4. Planned > 0
  BY PlanAssumption, SMT
<1>5. ChunkSize # 0
  BY <1>2, <1>3, <1>4, PlanAssumption
<1>6. (NChunks - 1) * ChunkSize < Planned
  <2>. SUFFICES ASSUME (NChunks - 1) * ChunkSize >= Planned PROVE FALSE
    BY <1>2, PlanAssumption
  <2>1. NChunks * ChunkSize = (NChunks - 1) * ChunkSize + ChunkSize
    BY <1>2, PlanAssumption
  <2>2. ChunkSize <= NChunks - 1
    BY <1>2, <2>1, PlanAssumption
  <2>3. (NChunks - 1) * ChunkSize <= (NChunks - 1) * (NChunks - 1)
    BY <1>2, <2>2, PlanAssumption
  <2>. QED
    BY <2>3, <1>2, PlanAssumption
<1>. QED
  BY <1>2, <1>3, <1>5, <1>6

(* Every request asks for at least one byte and for no more than the size  *)
(* the ranges have, and none asks for a byte behind what is planned for.    *)
THEOREM RangesFit ==
  \A i \in Chunks : /\ ChunkLen(i) \in 1 .. ChunkSize
                    /\ ChunkStart(i) \in Nat
                    /\ ChunkBytes(i) \subseteq 1 .. Planned
<1>. SUFFICES ASSUME NEW i \in Chunks
              PROVE  /\ ChunkLen(i) \in 1 .. ChunkSize
                     /\ ChunkStart(i) \in Nat
                     /\ ChunkBytes(i) \subseteq 1 .. Planned
  OBVIOUS
<1>. DEFINE size == ChunkSize
<1>1. size \in Nat \ {0} /\ (NChunks - 1) * size < Planned
  BY SizeBounds
<1>2. i \in Nat /\ i <= NChunks - 1 /\ NChunks \in Nat /\ Planned \in Nat
  BY PlanAssumption DEF Chunks
<1>. HIDE DEF size
<1>3. i * size \in Nat /\ i * size <= (NChunks - 1) * size
  BY <1>1, <1>2
<1>4. ChunkStart(i) \in Nat /\ ChunkStart(i) < Planned
  BY <1>1, <1>2, <1>3 DEF ChunkStart, size
<1>. QED
  BY <1>1, <1>2, <1>4 DEF ChunkLen, ChunkBytes, size

(* No byte is asked for twice.                                             *)
THEOREM RangesDisjoint ==
  \A i, j \in Chunks : i # j => ChunkBytes(i) \cap ChunkBytes(j) = {}
<1>1. ASSUME NEW i \in Chunks, NEW j \in Chunks, i < j
      PROVE  ChunkBytes(i) \cap ChunkBytes(j) = {}
  <2>. DEFINE size == ChunkSize
  <2>1. size \in Nat \ {0} /\ i \in Nat /\ j \in Nat
    BY SizeBounds, PlanAssumption DEF Chunks
  <2>. HIDE DEF size
  <2>2. (i + 1) * size <= j * size
    BY <1>1, <2>1
  <2>3. i * size + size <= j * size
    BY <2>1, <2>2
  <2>4. ChunkStart(i) + ChunkLen(i) <= ChunkStart(j)
    BY <2>1, <2>3, RangesFit DEF ChunkStart, size
  <2>. QED
    BY <2>4, RangesFit DEF ChunkBytes
<1>. QED
  BY <1>1 DEF Chunks

(* Every byte planned for is asked for: with the parts appended in order,  *)
(* the .tmp file has them all.                                             *)
THEOREM RangesCover == \A b \in 1 .. Planned : \E i \in Chunks : b \in ChunkBytes(i)
<1>. SUFFICES ASSUME NEW b \in 1 .. Planned
              PROVE  \E i \in Chunks : b \in ChunkBytes(i)
  OBVIOUS
<1>. DEFINE size == ChunkSize
            i == (b - 1) \div size
<1>1. size \in Nat \ {0} /\ NChunks * size >= Planned /\ NChunks \in Nat /\ Planned \in Nat
  BY SizeBounds, PlanAssumption
<1>2. i \in Nat /\ size * i <= b - 1 /\ b - 1 < size * i + size
  BY <1>1, DivBounds
<1>. HIDE DEF size, i
<1>3. i < NChunks
  <2>. SUFFICES ASSUME i >= NChunks PROVE FALSE
    BY <1>1, <1>2
  <2>1. size * i >= size * NChunks
    BY <1>1, <1>2
  <2>2. size * NChunks >= Planned
    BY <1>1
  <2>. QED
    BY <1>1, <1>2, <2>1, <2>2
<1>4. i \in Chunks
  BY <1>1, <1>2, <1>3 DEF Chunks
<1>5. ChunkStart(i) + 1 <= b /\ b <= ChunkStart(i) + size
  BY <1>1, <1>2 DEF ChunkStart, size
<1>6. b \in ChunkBytes(i)
  BY <1>1, <1>2, <1>5 DEF ChunkBytes, ChunkLen, ChunkStart, size
<1>. QED
  BY <1>4, <1>6

-----------------------------------------------------------------------------
(* Files. *)

(* The first n blocks of the model, and of range i.                        *)
Upto(n) == [k \in 1 .. n |-> k]
PartUpto(i, n) == [k \in 1 .. n |-> ChunkStart(i) + k]

(* The plan, as far as the proofs need it.                                 *)
LEMMA Plan ==
  /\ NChunks \in Nat \ {0} /\ ChunkSize \in Nat \ {0} /\ ChunkStart(0) = 0
  /\ Planned \in Nat \ {0} /\ Total \in Nat \ {0} /\ Planned <= Total
  /\ \A i \in Chunks : /\ ChunkStart(i) \in Nat /\ ChunkLen(i) \in 1 .. ChunkSize
                       /\ ChunkStart(i) + ChunkLen(i) <= Planned
                       /\ i + 1 \in Chunks => ChunkStart(i + 1) = ChunkStart(i) + ChunkLen(i)
                       /\ i + 1 = NChunks => ChunkStart(i) + ChunkLen(i) = Planned
<1>. DEFINE size == ChunkSize
<1>1. /\ size \in Nat \ {0} /\ NChunks * size >= Planned
      /\ NChunks \in Nat \ {0} /\ Planned \in Nat \ {0}
  BY SizeBounds, PlanAssumption
<1>. HIDE DEF size
<1>2. ASSUME NEW i \in Chunks
      PROVE  /\ ChunkStart(i) \in Nat /\ ChunkLen(i) \in 1 .. size
             /\ ChunkStart(i) + ChunkLen(i) <= Planned
  BY <1>1, RangesFit DEF ChunkBytes, size
<1>3. ASSUME NEW i \in Chunks, i + 1 \in Chunks
      PROVE  ChunkStart(i + 1) = ChunkStart(i) + ChunkLen(i)
  <2>1. i \in Nat
    BY <1>1 DEF Chunks
  <2>2. ChunkStart(i + 1) = ChunkStart(i) + size
    BY <1>1, <2>1 DEF ChunkStart, size
  <2>3. ChunkStart(i + 1) < Planned
    BY <1>1, <1>2, <1>3
  <2>. QED
    BY <1>1, <1>2, <2>2, <2>3 DEF ChunkLen, size
<1>4. ASSUME NEW i \in Chunks, i + 1 = NChunks
      PROVE  ChunkStart(i) + ChunkLen(i) = Planned
  <2>1. i \in Nat
    BY <1>1 DEF Chunks
  <2>2. ChunkStart(i) + size >= Planned
    BY <1>1, <1>4, <2>1 DEF ChunkStart, size
  <2>. QED
    BY <1>1, <1>2, <2>2 DEF ChunkLen, size
<1>5. ChunkStart(0) = 0
  BY <1>1 DEF ChunkStart, size
<1>6. Total \in Nat \ {0} /\ Planned <= Total
  BY <1>1, SizeAssumption
<1>. QED
  BY <1>1, <1>2, <1>3, <1>4, <1>5, <1>6 DEF size

(* The whole model and nothing, as such prefixes.                          *)
LEMMA UptoFacts ==
  /\ Upto(0) = <<>> /\ Upto(Total) = Model
  /\ \A n \in Nat : Len(Upto(n)) = n
<1>1. Upto(0) = <<>>
  BY SMT DEF Upto
<1>2. \A n \in Nat : Len(Upto(n)) = n
  BY SMT DEF Upto
<1>. QED
  BY <1>1, <1>2 DEF Upto, Model

(* A prefix of the model is not a missing file.                            *)
LEMMA UptoIsFile == \A n \in 0 .. Total : Upto(n) \in Contents(Total) /\ Upto(n) # NoFile
<1>. SUFFICES ASSUME NEW n \in 0 .. Total PROVE Upto(n) \in Contents(Total)
  BY NoFileAssumption
<1>1. Upto(n) \in [1 .. n -> 0 .. Total]
  BY SizeAssumption DEF Upto
<1>. QED
  BY <1>1 DEF Contents

(* The same for the parts.                                                 *)
LEMMA PartFacts ==
  \A i \in Chunks : /\ PartUpto(i, 0) = <<>> /\ PartUpto(i, ChunkLen(i)) = ChunkData(i)
                    /\ \A n \in Nat : Len(PartUpto(i, n)) = n
<1>. SUFFICES ASSUME NEW i \in Chunks
              PROVE  /\ PartUpto(i, 0) = <<>> /\ PartUpto(i, ChunkLen(i)) = ChunkData(i)
                     /\ \A n \in Nat : Len(PartUpto(i, n)) = n
  OBVIOUS
<1>1. PartUpto(i, 0) = <<>>
  BY SMT DEF PartUpto
<1>2. \A n \in Nat : Len(PartUpto(i, n)) = n
  BY SMT DEF PartUpto
<1>3. PartUpto(i, ChunkLen(i)) = ChunkData(i)
  <2>. DEFINE s == ChunkStart(i)
              l == ChunkLen(i)
  <2>1. s \in Nat /\ l \in Nat /\ Total \in Nat /\ s + l <= Total
    BY Plan
  <2>. HIDE DEF s, l
  <2>2. SubSeq(Model, s + 1, s + l) = [k \in 1 .. l |-> s + k]
    BY <2>1 DEF Model
  <2>. QED
    BY <2>2 DEF PartUpto, ChunkData, s, l
<1>. QED
  BY <1>1, <1>2, <1>3

(* Nothing to write leaves a file alone.                                   *)
LEMMA OverwriteNothing ==
  ASSUME NEW n \in Nat, NEW p \in Int
  PROVE  Overwrite(Upto(n), p, <<>>) = Upto(n)
<1>1. Len(Upto(n)) = n /\ Len(<<>>) = 0
  BY UptoFacts
<1>. QED
  BY <1>1 DEF Overwrite, Upto

(* The next block, written where the file ends, continues it.              *)
LEMMA OverwriteNext ==
  ASSUME NEW n \in Nat
  PROVE  Overwrite(Upto(n), n, <<n + 1>>) = Upto(n + 1)
<1>1. Len(Upto(n)) = n
  BY UptoFacts
<1>2. Len(<<n + 1>>) = 1 /\ <<n + 1>> # <<>> /\ <<n + 1>>[1] = n + 1
  OBVIOUS
<1>3. (IF <<n + 1>> = <<>> THEN Len(Upto(n))
       ELSE Longer(Len(Upto(n)), n + Len(<<n + 1>>))) = n + 1
  BY <1>1, <1>2 DEF Longer
<1>. QED
  BY <1>1, <1>2, <1>3 DEF Overwrite, Upto

(* The same for a part.                                                    *)
LEMMA OverwriteBlock ==
  ASSUME NEW i \in Chunks, NEW n \in Nat, n < ChunkLen(i)
  PROVE  Overwrite(PartUpto(i, n), n, <<ChunkData(i)[n + 1]>>) = PartUpto(i, n + 1)
<1>. DEFINE e == ChunkData(i)[n + 1]
<1>1. ChunkStart(i) \in Nat /\ ChunkLen(i) \in Nat /\ Len(PartUpto(i, n)) = n
  BY Plan, PartFacts
<1>2. e = ChunkStart(i) + n + 1
  BY <1>1, PartFacts DEF PartUpto
<1>. HIDE DEF e
<1>3. Len(<<e>>) = 1 /\ <<e>> # <<>> /\ <<e>>[1] = e
  OBVIOUS
<1>4. (IF <<e>> = <<>> THEN Len(PartUpto(i, n))
       ELSE Longer(Len(PartUpto(i, n)), n + Len(<<e>>))) = n + 1
  BY <1>1, <1>3 DEF Longer
<1>5. Overwrite(PartUpto(i, n), n, <<e>>) = PartUpto(i, n + 1)
  BY <1>1, <1>2, <1>3, <1>4 DEF Overwrite, PartUpto
<1>. QED
  BY <1>5 DEF e

(* The beginning of a part, or all of it, continues the parts before it.   *)
LEMMA OverwritePart ==
  ASSUME NEW i \in Chunks, NEW n \in 0 .. ChunkLen(i)
  PROVE  Overwrite(Upto(ChunkStart(i)), ChunkStart(i), PartUpto(i, n))
           = Upto(ChunkStart(i) + n)
<1>. DEFINE s == ChunkStart(i)
            d == PartUpto(i, n)
<1>1. s \in Nat /\ n \in Nat
  BY Plan
<1>2. Len(d) = n /\ \A k \in 1 .. n : d[k] = s + k
  BY <1>1, PartFacts DEF PartUpto
<1>3. (d = <<>>) <=> (n = 0)
  <2>1. n = 0 => d = <<>>
    BY PartFacts
  <2>2. d = <<>> => Len(d) = 0
    OBVIOUS
  <2>. QED
    BY <1>2, <2>1, <2>2
<1>. HIDE DEF d, s
<1>4. Len(Upto(s)) = s
  BY <1>1, UptoFacts
<1>5. (IF d = <<>> THEN Len(Upto(s)) ELSE Longer(Len(Upto(s)), s + Len(d))) = s + n
  BY <1>1, <1>2, <1>3, <1>4 DEF Longer
<1>6. Overwrite(Upto(s), s, d) = Upto(s + n)
  BY <1>1, <1>2, <1>4, <1>5 DEF Overwrite, Upto
<1>. QED
  BY <1>6 DEF s, d

(* What fits of a part is the beginning of it.                             *)
LEMMA PartBegins ==
  ASSUME NEW i \in Chunks, NEW n \in 0 .. ChunkLen(i)
  PROVE  SubSeq(PartUpto(i, ChunkLen(i)), 1, n) = PartUpto(i, n)
<1>1. /\ n \in Nat /\ ChunkLen(i) \in Nat /\ n <= ChunkLen(i) /\ ChunkStart(i) \in Nat
      /\ Len(PartUpto(i, n)) = n
  BY Plan, PartFacts
<1>. QED
  BY <1>1 DEF PartUpto

-----------------------------------------------------------------------------
(* The inductive invariant. *)

(* Every variable but the files keeps its type.                            *)
Control ==
  /\ work \in {"none", "enqueued", "running", "succeeded", "failed", "cancelled"}
  /\ attempt \in 0 .. RetryLimit
  /\ pc \in [Workers -> Phases]
  /\ isStopped \in [Workers -> BOOLEAN]
  /\ existing \in [Workers -> 0 .. Total]
  /\ src \in [Workers -> 0 .. Total]
  /\ buf \in [Workers -> {<<>>} \cup {<<n>> : n \in 1 .. Total}]
  /\ out \in [Workers -> {"none", "tmp", "dest", "gone"}]
  /\ chunk \in [Workers -> [Chunks -> {"none", "ask", "write", "lost", "done"}]]
  /\ off \in [Workers -> [Chunks -> 0 .. ChunkSize]]
  /\ failed \in [Workers -> BOOLEAN]
  /\ merged \in [Workers -> 0 .. NChunks]
  /\ unsure \in [Workers -> BOOLEAN]

(* What a part can be, anywhere in the file.                               *)
PartValues == {NoFile} \cup {PartUpto(i, n) : i \in Chunks, n \in 0 .. ChunkSize}
PartType == [Chunks -> PartValues]

(* Each file is missing or a prefix of what it is to become, and what is   *)
(* installed is the model where a checksum or a length would tell.         *)
Files ==
  /\ tmp = NoFile \/ \E n \in 0 .. Total : tmp = Upto(n)
  /\ part \in PartType
  /\ \A i \in Chunks :
       part[i] = NoFile \/ \E n \in 0 .. ChunkLen(i) : part[i] = PartUpto(i, n)
  /\ dest = NoFile \/ \E n \in 0 .. Total : dest = Upto(n)
  /\ Checksummed \/ Announced => dest \in {NoFile, Model}

(* What a run has not begun to use is as it was at the start.              *)
FreshInv(w) ==
  /\ pc[w] \in {"off", "start", "probe", "ask", "plan", "join"}
       => src[w] = 0 /\ merged[w] = 0
  /\ pc[w] = "probe" => existing[w] = 0
  /\ pc[w] = "off" => ~isStopped[w]
  /\ pc[w] # "single" => buf[w] = <<>>
  /\ pc[w] # "join" => chunk[w] = NoChunks /\ off[w] = NoOffset /\ ~failed[w]
  /\ pc[w] \notin {"check", "rename", "again"} => ~unsure[w]

(* An output stream leads to the .tmp file until that is deleted, which    *)
(* stops the run.                                                          *)
OutInv(w) ==
  /\ IF pc[w] \in {"single", "merge", "unlink"}
     THEN out[w] \in {"tmp", "gone"} ELSE out[w] = "none"
  /\ out[w] = "gone" => isStopped[w]

(* The offset asked for is the length of the file, and the stream is at    *)
(* its end, unless the file was deleted under a stopped run.               *)
SingleInv(w) ==
  /\ pc[w] = "ask" => \/ existing[w] = 0
                      \/ tmp = Upto(existing[w])
                      \/ isStopped[w] /\ tmp = NoFile
  /\ pc[w] = "single" => \/ buf[w] = <<>>
                         \/ buf[w] = <<src[w]>> /\ src[w] > 0
  /\ pc[w] = "single" /\ out[w] = "tmp" =>
       \/ buf[w] = <<>> /\ tmp = Upto(src[w])
       \/ buf[w] # <<>> /\ tmp = Upto(src[w] - 1)
       \/ buf[w] = <<>> /\ isStopped[w] /\ tmp = Upto(0)

Whole(i) == part[i] = PartUpto(i, ChunkLen(i))

(* A coroutine that is over has left a whole part, or the run gives up.    *)
JoinInv(w) ==
  pc[w] = "join" =>
    \A i \in Chunks :
      /\ chunk[w][i] # "lost"
      /\ chunk[w][i] = "ask" => part[i] = NoFile /\ off[w][i] = 0
      /\ chunk[w][i] = "write" =>
           part[i] = PartUpto(i, off[w][i]) /\ off[w][i] <= ChunkLen(i)
      /\ chunk[w][i] \in {"none", "done"} => failed[w] \/ isStopped[w] \/ Whole(i)

MergedTo(n) == IF n < NChunks THEN ChunkStart(n) ELSE Planned

(* The merge has copied whole ranges, and the parts to come are whole.     *)
MergeInv(w) ==
  /\ pc[w] \in {"merge", "unlink"} =>
       /\ out[w] = "tmp" => tmp = Upto(src[w])
       /\ \A i \in Chunks : i > merged[w] => Whole(i)
  /\ pc[w] = "merge" => /\ src[w] = MergedTo(merged[w])
                        /\ merged[w] < NChunks => Whole(merged[w])
  /\ pc[w] = "unlink" => merged[w] < NChunks /\ src[w] = MergedTo(merged[w] + 1)

(* What a run that was not stopped is about to install is the model, or    *)
(* less where nothing tells.                                               *)
EndInv(w) ==
  /\ unsure[w] => ~Announced
  /\ pc[w] = "check" => isStopped[w] \/ tmp = Model \/ (unsure[w] /\ tmp # NoFile)
  /\ pc[w] \in {"rename", "again"} =>
       \/ tmp = Model
       \/ unsure[w] /\ ~Checksummed /\ tmp # NoFile
       \/ isStopped[w] /\ tmp = NoFile

WorkerInv(w) ==
  FreshInv(w) /\ OutInv(w) /\ SingleInv(w) /\ JoinInv(w) /\ MergeInv(w) /\ EndInv(w)

RunInv == Control /\ Files /\ \A w \in Workers : WorkerInv(w)

-----------------------------------------------------------------------------
(* Every step keeps it. *)

(* A missing part is a part.                                               *)
LEMMA MissingPart == NoFile \in PartValues
  BY DEF PartValues

(* The invariant holds at the start.                                       *)
LEMMA RunInit == Init => RunInv
  BY Plan, DownloadAssumption, MissingPart
  DEF Init, RunInv, Control, Files, PartType, WorkerInv, FreshInv, OutInv, SingleInv,
      JoinInv, MergeInv, EndInv, Phases, NoChunks, NoOffset

(* A run that returns leaves nothing behind but the files.                 *)
LEMMA SettleStep ==
  ASSUME OneRun, RunInv, NEW w \in Workers, Files',
         NEW r \in {"enqueued", "succeeded", "failed"}, Settle(w, r),
         out' \in [Workers -> {"none", "tmp", "dest", "gone"}], out'[w] = "none"
  PROVE  RunInv'
<1>1. Control'
  <2>1. NextAttempt \in 0 .. RetryLimit
    BY DownloadAssumption DEF RunInv, Control, NextAttempt
  <2>2. work' \in {"none", "enqueued", "running", "succeeded", "failed", "cancelled"}
        /\ attempt' \in 0 .. RetryLimit
    BY <2>1 DEF RunInv, Control, Settle
  <2>3. NoChunks \in [Chunks -> {"none", "ask", "write", "lost", "done"}]
        /\ NoOffset \in [Chunks -> 0 .. ChunkSize]
    BY Plan DEF NoChunks, NoOffset
  <2>4. /\ pc' \in [Workers -> Phases] /\ isStopped' \in [Workers -> BOOLEAN]
        /\ failed' \in [Workers -> BOOLEAN] /\ unsure' \in [Workers -> BOOLEAN]
        /\ chunk' \in [Workers -> [Chunks -> {"none", "ask", "write", "lost", "done"}]]
        /\ off' \in [Workers -> [Chunks -> 0 .. ChunkSize]]
    BY <2>3 DEF RunInv, Control, Settle, Phases
  <2>5. /\ existing' \in [Workers -> 0 .. Total] /\ src' \in [Workers -> 0 .. Total]
        /\ merged' \in [Workers -> 0 .. NChunks]
    BY Plan DEF RunInv, Control, Settle
  <2>6. buf' \in [Workers -> {<<>>} \cup {<<n>> : n \in 1 .. Total}]
    BY DEF RunInv, Control, Settle
  <2>. QED
    BY <2>2, <2>4, <2>5, <2>6 DEF Control
<1>2. WorkerInv(w)'
  BY Plan, DownloadAssumption
  DEF RunInv, Control, Settle, Phases, NoChunks, NoOffset, WorkerInv, FreshInv, OutInv, SingleInv,
      JoinInv, MergeInv, EndInv, Whole
<1>. QED
  BY <1>1, <1>2 DEF RunInv, OneRun

(* Stops, from wherever they come, and the deletion of the .tmp file.      *)
LEMMA StopStep ==
  ASSUME OneRun, RunInv, DownloadModel \/ PauseDownload \/ CancelDownload \/ Interrupt
  PROVE  RunInv'
<1>1. /\ isStopped' = [w \in Workers |-> pc[w] # "off"]
      /\ UNCHANGED <<part, dest, pc, existing, src, buf, chunk, off, failed, merged, unsure>>
      /\ \/ UNCHANGED <<tmp, out>>
         \/ tmp' = NoFile /\ out' = Follow("tmp", "gone")
  BY DEF DownloadModel, PauseDownload, CancelDownload, Interrupt, CancelUniqueWork, StopAll,
         fileVars, workVars, ioVars, chunkVars
<1>2. Control'
  <2>1. NextAttempt \in 0 .. RetryLimit
    BY DownloadAssumption DEF RunInv, Control, NextAttempt
  <2>2. work' \in {"none", "enqueued", "running", "succeeded", "failed", "cancelled"}
        /\ attempt' \in 0 .. RetryLimit
    BY <2>1, DownloadAssumption
    DEF RunInv, Control, DownloadModel, PauseDownload, CancelDownload, Interrupt,
       CancelUniqueWork
  <2>3. isStopped' \in [Workers -> BOOLEAN]
    BY <1>1
  <2>4. out' \in [Workers -> {"none", "tmp", "dest", "gone"}]
    BY <1>1 DEF RunInv, Control, Follow
  <2>. QED
    BY <1>1, <2>2, <2>3, <2>4 DEF RunInv, Control
<1>3. Files'
  BY <1>1 DEF RunInv, Files
<1>4. ASSUME NEW w \in Workers PROVE WorkerInv(w)'
  <2>1. isStopped'[w] <=> pc[w] # "off"
    BY <1>1
  <2>2. \/ tmp' = tmp /\ out'[w] = out[w]
        \/ tmp' = NoFile /\ out'[w] = IF out[w] = "tmp" THEN "gone" ELSE out[w]
    BY <1>1 DEF Follow
  <2>. QED
    BY <1>1, <2>1, <2>2
    DEF RunInv, WorkerInv, FreshInv, OutInv, SingleInv, JoinInv, MergeInv, EndInv, Whole
<1>. QED
  BY <1>2, <1>3, <1>4 DEF RunInv

(* A deletion of the final file closes no stream of this run.              *)
LEMMA DeleteStep == ASSUME OneRun, RunInv, DeleteModel PROVE RunInv'
  BY DEF DeleteModel, Follow, workVars, chunkVars, RunInv, Control, Files, WorkerInv,
         FreshInv, OutInv, SingleInv, JoinInv, MergeInv, EndInv, Whole

(* A death leaves the files and the queue.                                 *)
LEMMA DeathStep == ASSUME OneRun, RunInv, ProcessDeath PROVE RunInv'
  BY Plan, DownloadAssumption
  DEF ProcessDeath, NextAttempt, fileVars, RunInv, Control, Files, WorkerInv, FreshInv,
      OutInv, SingleInv, JoinInv, MergeInv, EndInv, NoChunks, NoOffset, Phases

(* A run begins with nothing.                                              *)
LEMMA StartStep == ASSUME OneRun, RunInv, NEW w \in Workers, Start(w) PROVE RunInv'
  BY DEF Start, fileVars, ioVars, chunkVars, RunInv, Control, Files, WorkerInv, FreshInv,
      OutInv, SingleInv, JoinInv, MergeInv, EndInv, Phases, OneRun

-----------------------------------------------------------------------------
(* The steps of one run that leave the files alone or write the .tmp file. *)

(* The offset asked for is the length of the file.                         *)
LEMMA ReadLengthStep == ASSUME OneRun, RunInv, NEW w \in Workers, ReadLength(w) PROVE RunInv'
<1>. USE DEF ReadLength, Go, fileVars, workVars, chunkVars
<1>1. Length(tmp) \in 0 .. Total /\ (Length(tmp) > 0 => tmp = Upto(Length(tmp)))
  BY UptoFacts, Plan DEF RunInv, Files, Length
<1>2. Control'
  BY <1>1 DEF RunInv, Control, Phases
<1>3. WorkerInv(w)'
  <2>1. /\ existing'[w] = Length(tmp)
        /\ pc'[w] = IF Length(tmp) > 0 THEN "ask" ELSE "probe"
    BY DEF RunInv, Control
  <2>2. SingleInv(w)' /\ (pc'[w] = "probe" => existing'[w] = 0)
    BY <1>1, <2>1 DEF SingleInv
  <2>. QED
    BY <2>1, <2>2 DEF RunInv, WorkerInv, FreshInv, OutInv, JoinInv, MergeInv, EndInv
<1>. QED
  BY <1>2, <1>3 DEF RunInv, OneRun, Files

(* 206: the stream begins where the file ends.                             *)
LEMMA AppendStep == ASSUME OneRun, RunInv, NEW w \in Workers, AppendFrom(w) PROVE RunInv'
<1>. USE DEF AppendFrom, OpenTmp, Go, workVars, chunkVars
<1>1. Control'
  BY Plan DEF RunInv, Control, Phases
<1>2. \/ tmp' = Upto(existing[w])
      \/ isStopped[w] /\ tmp' = Upto(0)
  <2>1. existing[w] \in 0 .. Total /\ existing[w] > 0
    BY DEF RunInv, Control
  <2>2. tmp = Upto(existing[w]) \/ (isStopped[w] /\ tmp = NoFile)
    BY <2>1 DEF RunInv, WorkerInv, SingleInv
  <2>. QED
    BY <2>1, <2>2, UptoFacts, UptoIsFile
<1>3. Files'
  BY <1>2, Plan DEF RunInv, Control, Files
<1>4. WorkerInv(w)'
  BY <1>2
  DEF RunInv, Control, WorkerInv, FreshInv, OutInv, SingleInv, JoinInv, MergeInv,
      EndInv, Whole
<1>. QED
  BY <1>1, <1>3, <1>4 DEF RunInv, OneRun

(* 200: the stream begins with an empty file.                              *)
LEMMA StartOverStep == ASSUME OneRun, RunInv, NEW w \in Workers, StartOver(w) PROVE RunInv'
<1>. USE DEF StartOver, OpenTmp, Go, workVars, chunkVars
<1>1. Control'
  BY Plan DEF RunInv, Control, Phases
<1>2. tmp' = Upto(0)
  BY UptoFacts
<1>3. Files'
  BY <1>2, Plan DEF RunInv, Control, Files
<1>4. WorkerInv(w)'
  BY <1>2
  DEF RunInv, Control, WorkerInv, FreshInv, OutInv, SingleInv, JoinInv, MergeInv,
      EndInv, Whole
<1>. QED
  BY <1>1, <1>3, <1>4 DEF RunInv, OneRun

(* A block is read and not yet written.                                    *)
LEMMA SingleReadStep == ASSUME OneRun, RunInv, NEW w \in Workers, SingleRead(w) PROVE RunInv'
<1>. USE DEF SingleRead, fileVars, workVars, chunkVars
<1>1. /\ src[w] \in Nat /\ src[w] < Total /\ Model[src[w] + 1] = src[w] + 1
      /\ src' = [src EXCEPT ![w] = src[w] + 1] /\ buf' = [buf EXCEPT ![w] = <<src[w] + 1>>]
  <2>1. src[w] \in 0 .. Total /\ src[w] < Total /\ Total \in Nat
    BY Plan DEF RunInv, Control
  <2>2. Model[src[w] + 1] = src[w] + 1
    BY <2>1 DEF Model
  <2>. QED
    BY <2>1, <2>2
<1>2. Control'
  <2>1. src[w] + 1 \in 1 .. Total
    BY <1>1, Plan
  <2>2. src' \in [Workers -> 0 .. Total]
    BY <1>1, <2>1 DEF RunInv, Control
  <2>3. buf' \in [Workers -> {<<>>} \cup {<<n>> : n \in 1 .. Total}]
    BY <1>1, <2>1 DEF RunInv, Control
  <2>. QED
    BY <2>2, <2>3 DEF RunInv, Control
<1>3. src'[w] = src[w] + 1 /\ buf'[w] = <<src'[w]>> /\ buf'[w] # <<>>
  BY <1>1 DEF RunInv, Control
<1>4. WorkerInv(w)'
  <2>1. SingleInv(w)'
    BY <1>1, <1>3 DEF RunInv, WorkerInv, SingleInv
  <2>. QED
    BY <1>3, <2>1 DEF RunInv, WorkerInv, FreshInv, OutInv, JoinInv, MergeInv, EndInv, Whole
<1>. QED
  BY <1>2, <1>4 DEF RunInv, OneRun, Files

(* What a flush of the single stream leaves.                               *)
LEMMA FlushedFile ==
  ASSUME RunInv, NEW w \in Workers, pc[w] = "single", out[w] = "tmp"
  PROVE  \/ Flushed(w) = Upto(src[w])
         \/ isStopped[w] /\ Flushed(w) = Upto(0)
<1>1. src[w] \in 0 .. Total /\ existing[w] \in 0 .. Total /\ Total \in Nat
  BY Plan DEF RunInv, Control
<1>2. OutFile(w) = tmp
  BY DEF OutFile
<1>3. CASE buf[w] = <<>>
  <2>1. PICK n \in Nat : tmp = Upto(n) /\ (n = src[w] \/ (n = 0 /\ isStopped[w]))
    <3>1. tmp = Upto(src[w]) \/ (isStopped[w] /\ tmp = Upto(0))
      BY <1>3 DEF RunInv, WorkerInv, SingleInv
    <3>. QED
      BY <1>1, <3>1
  <2>2. Len(buf[w]) = 0 /\ Len(tmp) = n
    BY <1>3, <2>1, UptoFacts
  <2>3. (IF existing[w] > 0 THEN Len(tmp) ELSE src[w] - Len(buf[w])) \in Int
    BY <1>1, <2>2
  <2>4. Flushed(w) = tmp
    BY <1>2, <1>3, <2>1, <2>3, OverwriteNothing DEF Flushed
  <2>. QED
    BY <2>1, <2>4
<1>4. CASE buf[w] # <<>>
  <2>1. buf[w] = <<src[w]>> /\ src[w] > 0 /\ tmp = Upto(src[w] - 1)
    BY <1>4 DEF RunInv, WorkerInv, SingleInv
  <2>2. Len(buf[w]) = 1 /\ Len(tmp) = src[w] - 1
    BY <1>1, <2>1, UptoFacts
  <2>3. (IF existing[w] > 0 THEN Len(tmp) ELSE src[w] - Len(buf[w])) = src[w] - 1
    BY <1>1, <2>2
  <2>4. PICK n \in Nat : n = src[w] - 1
    BY <1>1, <2>1
  <2>5. Overwrite(Upto(n), n, <<n + 1>>) = Upto(n + 1) /\ src[w] = n + 1
    BY <1>1, <2>4, OverwriteNext
  <2>. QED
    BY <1>2, <2>1, <2>3, <2>4, <2>5 DEF Flushed
<1>. QED
  BY <1>3, <1>4

(* The file after such a write.                                            *)
LEMMA WrittenFiles ==
  ASSUME OneRun, RunInv, NEW w \in Workers, pc[w] = "single", Write(w, Flushed(w)),
         UNCHANGED part
  PROVE  Files' /\ (~isStopped[w] => tmp' = Upto(src[w]))
                /\ (out[w] = "tmp" => tmp' = Flushed(w))
<1>1. src[w] \in 0 .. Total /\ Total \in Nat /\ 0 \in 0 .. Total
  BY Plan DEF RunInv, Control
<1>2. out[w] = "tmp" \/ (out[w] = "gone" /\ isStopped[w])
  BY DEF RunInv, WorkerInv, OutInv
<1>3. dest' = dest /\ tmp' = IF out[w] = "tmp" THEN Flushed(w) ELSE tmp
  BY <1>2 DEF Write
<1>4. tmp' = NoFile \/ \E n \in 0 .. Total : tmp' = Upto(n)
  <2>1. CASE out[w] = "tmp"
    BY <1>1, <1>3, <2>1, FlushedFile
  <2>2. CASE out[w] # "tmp"
    BY <1>3, <2>2 DEF RunInv, Files
  <2>. QED
    BY <2>1, <2>2
<1>5. Files'
  BY <1>3, <1>4 DEF RunInv, Files
<1>. QED
  BY <1>2, <1>3, <1>5, FlushedFile

(* A flush brings the file up to what was read.                            *)
LEMMA SingleFlushStep == ASSUME OneRun, RunInv, NEW w \in Workers, SingleFlush(w) PROVE RunInv'
<1>. USE DEF SingleFlush, workVars, chunkVars
<1>1. Control'
  BY DEF RunInv, Control
<1>2. Files' /\ (out[w] = "tmp" => tmp' = Flushed(w))
  BY WrittenFiles
<1>3. src[w] > 0 /\ src[w] \in Nat /\ buf[w] = <<src[w]>>
  BY DEF RunInv, Control, WorkerInv, SingleInv
<1>4. out[w] = "tmp" => tmp' = Upto(src[w])
  <2>. SUFFICES ASSUME out[w] = "tmp" PROVE Flushed(w) = Upto(src[w])
    BY <1>2
  <2>1. OutFile(w) = Upto(src[w] - 1)
    BY DEF OutFile, RunInv, WorkerInv, SingleInv
  <2>2. Len(OutFile(w)) = src[w] - 1 /\ Len(buf[w]) = 1
    BY <1>3, <2>1, UptoFacts
  <2>3. existing[w] \in Nat
    BY Plan DEF RunInv, Control
  <2>4. (IF existing[w] > 0 THEN Len(OutFile(w)) ELSE src[w] - Len(buf[w])) = src[w] - 1
    BY <1>3, <2>2, <2>3
  <2>5. PICK n \in Nat : n = src[w] - 1
    BY <1>3
  <2>6. Overwrite(Upto(n), n, <<n + 1>>) = Upto(n + 1) /\ src[w] = n + 1
    BY <1>3, <2>5, OverwriteNext
  <2>. QED
    BY <1>3, <2>1, <2>4, <2>5, <2>6 DEF Flushed
<1>5. WorkerInv(w)'
  BY <1>4
  DEF RunInv, Control, WorkerInv, FreshInv, OutInv, SingleInv, JoinInv, MergeInv, EndInv
<1>. QED
  BY <1>1, <1>2, <1>5 DEF RunInv, OneRun

(* A last flush that is lost leaves a shorter prefix.                      *)
LEMMA LostFiles ==
  ASSUME OneRun, RunInv, NEW w \in Workers, pc[w] = "single", FlushLost(w), UNCHANGED part
  PROVE  Files' /\ (~isStopped[w] => tmp' # NoFile)
<1>1. UNCHANGED <<tmp, dest>>
  BY DEF FlushLost
<1>2. ~isStopped[w] => tmp # NoFile
  <2>. SUFFICES ASSUME ~isStopped[w] PROVE tmp # NoFile
    OBVIOUS
  <2>1. out[w] = "tmp"
    BY DEF RunInv, WorkerInv, OutInv
  <2>2. /\ src[w] \in 0 .. Total /\ Total \in Nat
        /\ \/ tmp = Upto(src[w])
           \/ src[w] > 0 /\ tmp = Upto(src[w] - 1)
    BY <2>1, Plan DEF RunInv, Control, WorkerInv, SingleInv
  <2>3. PICK n \in 0 .. Total : tmp = Upto(n)
    BY <2>2
  <2>. QED
    BY <2>3, UptoIsFile
<1>. QED
  BY <1>1, <1>2 DEF RunInv, Files

(* What a body that has ended leaves is the model, or less where nothing   *)
(* tells.                                                                  *)
LEMMA SingleEndStep == ASSUME OneRun, RunInv, NEW w \in Workers, SingleEnd(w) PROVE RunInv'
<1>. USE DEF SingleEnd, BodyOver, Go, Close, workVars, chunkVars
<1>1. unsure' \in [Workers -> BOOLEAN]
  BY DEF RunInv, Control
<1>2. Control'
  BY <1>1 DEF RunInv, Control, Phases
<1>3. src[w] \in 0 .. Total /\ Total \in Nat
  BY Plan DEF RunInv, Control
<1>4. Files' /\ (isStopped[w] \/ tmp' = Model \/ (unsure'[w] /\ tmp' # NoFile))
  <2>1. CASE LastFlush(w) /\ unsure' = [unsure EXCEPT ![w] = src[w] < Total /\ ~isStopped[w]]
    <3>1. Files' /\ (~isStopped[w] => tmp' = Upto(src[w]))
      BY <2>1, WrittenFiles DEF LastFlush
    <3>2. unsure'[w] <=> src[w] < Total /\ ~isStopped[w]
      BY <2>1 DEF RunInv, Control
    <3>. QED
      BY <1>3, <3>1, <3>2, UptoFacts, UptoIsFile
  <2>2. CASE FlushLost(w) /\ unsure' = [unsure EXCEPT ![w] = ~isStopped[w]]
    <3>1. unsure'[w] <=> ~isStopped[w]
      BY <2>2 DEF RunInv, Control
    <3>. QED
      BY <2>2, <3>1, LostFiles
  <2>. QED
    BY <2>1, <2>2
<1>5. unsure'[w] => ~Announced
  <2>1. CASE unsure' = [unsure EXCEPT ![w] = src[w] < Total /\ ~isStopped[w]]
    <3>1. unsure'[w] => src[w] < Total /\ ~isStopped[w]
      BY <2>1 DEF RunInv, Control
    <3>2. unsure'[w] => "short" \in Faults
      BY <1>3, <3>1
    <3>. QED
      BY <3>2 DEF Announced
  <2>2. CASE FlushLost(w)
    BY <2>2 DEF FlushLost, Announced
  <2>. QED
    BY <2>1, <2>2
<1>6. WorkerInv(w)'
  BY <1>4, <1>5
  DEF RunInv, Control, WorkerInv, FreshInv, OutInv, SingleInv, JoinInv, MergeInv, EndInv
<1>. QED
  BY <1>2, <1>4, <1>6 DEF RunInv, OneRun

(* A body that breaks off leaves a prefix.                                 *)
LEMMA BodyBreaksStep == ASSUME OneRun, RunInv, NEW w \in Workers, BodyBreaks(w) PROVE RunInv'
<1>1. Files'
  BY WrittenFiles, LostFiles DEF BodyBreaks, LastFlush
<1>2. out' \in [Workers -> {"none", "tmp", "dest", "gone"}] /\ out'[w] = "none"
  BY DEF BodyBreaks, Close, RunInv, Control
<1>. QED
  BY <1>1, <1>2, SettleStep DEF BodyBreaks, ThrowIO

(* The runs that end without writing.                                      *)
LEMMA SettleUnwritten ==
  ASSUME OneRun, RunInv, NEW w \in Workers,
         RangeRefused(w) \/ AskFails(w) \/ ProbeFails(w) \/ GiveUp(w) \/ MergeMissing(w) \/ Stopped(w)
  PROVE  RunInv'
<1>1. Files'
  BY DEF RangeRefused, AskFails, ProbeFails, RequestFails, GiveUp, MergeMissing,
         Stopped, fileVars, RunInv, Files
<1>2. out' \in [Workers -> {"none", "tmp", "dest", "gone"}] /\ out'[w] = "none"
  BY DEF RangeRefused, AskFails, ProbeFails, RequestFails, GiveUp, Joined,
         MergeMissing, Stopped, Close,
         RunInv, Control, WorkerInv, OutInv
<1>3. \E r \in {"enqueued", "succeeded", "failed"} : Settle(w, r)
  BY DEF RangeRefused, AskFails, ProbeFails, RequestFails, GiveUp, MergeMissing,
         Stopped, Throw, ThrowIO
<1>. QED
  BY <1>1, <1>2, <1>3, SettleStep

(* The probe touches no file.                                              *)
LEMMA ProbeStep == ASSUME OneRun, RunInv, NEW w \in Workers, ProbeRange(w) PROVE RunInv'
<1>1. Control'
  BY DEF ProbeRange, Go, workVars, ioVars, chunkVars, RunInv, Control, Phases
<1>2. WorkerInv(w)'
  BY DEF ProbeRange, Go, fileVars, ioVars, chunkVars, RunInv, Control, WorkerInv,
         FreshInv, OutInv, SingleInv, JoinInv, MergeInv, EndInv
<1>. QED
  BY <1>1, <1>2 DEF RunInv, OneRun, Files, ProbeRange, fileVars

(* The same for a checksum that is right.                                  *)
LEMMA VerifyStep == ASSUME OneRun, RunInv, NEW w \in Workers, Verify(w) PROVE RunInv'
<1>1. Control'
  BY DEF Verify, Go, workVars, ioVars, chunkVars, RunInv, Control, Phases
<1>2. pc[w] = "check" /\ pc'[w] = "rename" /\ ~isStopped[w] /\ (Checksummed => tmp = Model)
  BY DEF Verify, Verified, Go, RunInv, Control
<1>3. UNCHANGED <<fileVars, workVars, isStopped, ioVars, chunkVars>>
  BY DEF Verify
<1>4. EndInv(w)'
  BY <1>2, <1>3 DEF fileVars, chunkVars, RunInv, WorkerInv, EndInv
<1>5. WorkerInv(w)'
  BY <1>2, <1>3, <1>4
  DEF fileVars, ioVars, chunkVars, RunInv, WorkerInv, FreshInv, OutInv, SingleInv,
      JoinInv, MergeInv
<1>. QED
  BY <1>1, <1>5 DEF RunInv, OneRun, Files, Verify, fileVars

(* A file with a wrong checksum goes.                                      *)
LEMMA RejectStep == ASSUME OneRun, RunInv, NEW w \in Workers, Reject(w) PROVE RunInv'
<1>1. Files'
  BY DEF Reject, RunInv, Files
<1>2. out' \in [Workers -> {"none", "tmp", "dest", "gone"}] /\ out'[w] = "none"
  BY DEF Reject, Follow, RunInv, Control, WorkerInv, OutInv
<1>. QED
  BY <1>1, <1>2, SettleStep DEF Reject, Throw

(* The old file goes where the first rename fails.                         *)
LEMMA RemoveOldStep == ASSUME OneRun, RunInv, NEW w \in Workers, RemoveOld(w) PROVE RunInv'
<1>1. out[w] = "none"
  BY DEF RemoveOld, RunInv, WorkerInv, OutInv
<1>2. out' = out
  BY <1>1 DEF RemoveOld, Follow, RunInv, Control, OneRun
<1>3. Control'
  BY <1>2 DEF RemoveOld, Go, workVars, chunkVars, RunInv, Control, Phases
<1>4. Files'
  BY DEF RemoveOld, RunInv, Files
<1>5. pc[w] = "rename" /\ pc'[w] = "again"
  BY DEF RemoveOld, Go, RunInv, Control
<1>6. UNCHANGED <<tmp, part, workVars, isStopped, existing, src, buf, chunkVars>>
  BY DEF RemoveOld
<1>7. WorkerInv(w)'
  BY <1>2, <1>5, <1>6
  DEF chunkVars, RunInv, WorkerInv, FreshInv, OutInv, SingleInv, JoinInv, MergeInv, EndInv
<1>. QED
  BY <1>3, <1>4, <1>7 DEF RunInv, OneRun

(* What a file that gets its final name is.                                *)
LEMMA MovedFile ==
  ASSUME RunInv, NEW w \in Workers, pc[w] \in {"rename", "again"}, tmp # NoFile
  PROVE  /\ \E n \in 0 .. Total : tmp = Upto(n)
         /\ tmp = Model \/ (unsure[w] /\ ~Checksummed /\ ~Announced)
  BY DEF RunInv, Files, WorkerInv, EndInv

(* What is renamed is the model, or what nothing tells from it, or nothing *)
(* any more.                                                               *)
LEMMA RenameStep == ASSUME OneRun, RunInv, NEW w \in Workers, Rename(w) PROVE RunInv'
<1>1. pc[w] \in {"rename", "again"} /\ out[w] = "none"
  BY DEF Rename, RunInv, WorkerInv, OutInv
<1>2. part' = part /\ (Move \/ UNCHANGED <<tmp, dest, out>>)
  BY DEF Rename
<1>3. Files'
  <2>1. CASE Move
    <3>1. dest' = tmp /\ tmp' = NoFile /\ tmp # NoFile
      BY <2>1 DEF Move
    <3>2. /\ \E n \in 0 .. Total : tmp = Upto(n)
          /\ Checksummed \/ Announced => tmp = Model
      BY <1>1, <3>1, MovedFile
    <3>. QED
      BY <1>2, <3>1, <3>2 DEF RunInv, Files
  <2>2. CASE UNCHANGED <<tmp, dest, out>>
    BY <1>2, <2>2 DEF RunInv, Files
  <2>. QED
    BY <1>2, <2>1, <2>2
<1>4. out' \in [Workers -> {"none", "tmp", "dest", "gone"}] /\ out'[w] = "none"
  BY <1>1, <1>2 DEF Move, RunInv, Control
<1>. QED
  BY <1>3, <1>4, SettleStep DEF Rename

-----------------------------------------------------------------------------
(* The steps of the coroutines of one run, and the merge.                  *)

(* Complete parts are kept, the others begin again.                        *)
LEMMA PlanStep == ASSUME OneRun, RunInv, NEW w \in Workers, PlanChunks(w) PROVE RunInv'
<1>1. part' = [i \in Chunks |-> IF i \in Pending THEN NoFile ELSE part[i]]
  BY DEF PlanChunks
<1>2. chunk' = [v \in Workers |-> [i \in Chunks |-> IF i \in Pending /\ ~isStopped[w]
                                                   THEN "ask" ELSE "none"]]
  BY DEF PlanChunks, OneRun
<1>3. \A i \in Chunks : i \notin Pending => Whole(i)
  <2>. SUFFICES ASSUME NEW i \in Chunks, Length(part[i]) = ChunkLen(i) PROVE Whole(i)
    BY DEF Pending
  <2>1. part[i] # NoFile
    BY Plan DEF Length
  <2>2. PICK n \in 0 .. ChunkLen(i) : part[i] = PartUpto(i, n)
    BY <2>1 DEF RunInv, Files
  <2>3. n = ChunkLen(i)
    BY <2>1, <2>2, PartFacts, Plan DEF Length
  <2>. QED
    BY <2>2, <2>3 DEF Whole
<1>4. Files'
  BY <1>1, MissingPart DEF PlanChunks, RunInv, Files, PartType
<1>5. Control'
  BY <1>2 DEF PlanChunks, Go, workVars, ioVars, RunInv, Control, Phases
<1>6. JoinInv(w)'
  <2>1. \A i \in Chunks : i \notin Pending => Whole(i)'
    BY <1>1, <1>3 DEF Whole
  <2>2. off[w] = NoOffset
    BY DEF PlanChunks, RunInv, WorkerInv, FreshInv
  <2>. QED
    BY <1>1, <1>2, <2>1, <2>2 DEF PlanChunks, JoinInv, NoOffset
<1>7. WorkerInv(w)'
  BY <1>6
  DEF PlanChunks, Go, ioVars, RunInv, Control, WorkerInv, FreshInv, OutInv, SingleInv,
      MergeInv, EndInv
<1>. QED
  BY <1>4, <1>5, <1>7 DEF RunInv, OneRun

(* What a part and its coroutine may be while the run waits for them.      *)
PartInv(w, i) ==
  /\ part[i] = NoFile \/ \E n \in 0 .. ChunkLen(i) : part[i] = PartUpto(i, n)
  /\ off[w][i] \in 0 .. ChunkLen(i)
  /\ chunk[w][i] = "ask" => part[i] = NoFile /\ off[w][i] = 0
  /\ chunk[w][i] = "write" => part[i] = PartUpto(i, off[w][i])
  /\ chunk[w][i] = "done" => failed[w] \/ isStopped[w] \/ Whole(i)

(* A coroutine moves on at one part; the others stay as they are.          *)
LEMMA ChunkMoves ==
  ASSUME OneRun, RunInv, NEW w \in Workers, NEW i \in Chunks, pc[w] = "join",
         UNCHANGED <<tmp, dest, workVars, pc, isStopped, ioVars, merged, unsure>>,
         NEW f, part' = [part EXCEPT ![i] = f],
         NEW s \in {"ask", "write", "done"}, chunk' = [chunk EXCEPT ![w][i] = s],
         NEW o, off' = [off EXCEPT ![w][i] = o],
         failed' \in [Workers -> BOOLEAN], failed[w] => failed'[w],
         PartInv(w, i)'
  PROVE  RunInv'
<1>1. /\ part'[i] = f /\ chunk'[w][i] = s /\ off'[w][i] = o
      /\ \A j \in Chunks \ {i} : part'[j] = part[j] /\ chunk'[w][j] = chunk[w][j]
                                 /\ off'[w][j] = off[w][j]
  BY DEF RunInv, Control, Files, PartType
<1>2. Files'
  <2>1. f \in PartValues
    BY <1>1, Plan DEF PartInv, PartValues
  <2>2. part' \in PartType
    BY <2>1 DEF RunInv, Files, PartType
  <2>. QED
    BY <1>1, <2>2 DEF RunInv, Files, PartInv
<1>3. Control'
  <2>1. o \in 0 .. ChunkSize
    BY <1>1, Plan DEF PartInv
  <2>2. off' \in [Workers -> [Chunks -> 0 .. ChunkSize]]
    BY <2>1 DEF RunInv, Control
  <2>3. chunk' \in [Workers -> [Chunks -> {"none", "ask", "write", "lost", "done"}]]
    BY DEF RunInv, Control
  <2>. QED
    BY <2>2, <2>3 DEF workVars, ioVars, RunInv, Control
<1>4. JoinInv(w)'
  <2>. SUFFICES ASSUME NEW j \in Chunks
                PROVE  /\ chunk'[w][j] # "lost"
                       /\ chunk'[w][j] = "ask" => part'[j] = NoFile /\ off'[w][j] = 0
                       /\ chunk'[w][j] = "write" =>
                            part'[j] = PartUpto(j, off'[w][j]) /\ off'[w][j] <= ChunkLen(j)
                       /\ chunk'[w][j] \in {"none", "done"} =>
                            failed'[w] \/ isStopped[w] \/ part'[j] = PartUpto(j, ChunkLen(j))
    BY DEF JoinInv, Whole
  <2>1. CASE j = i
    BY <1>1, <2>1, Plan DEF PartInv, Whole
  <2>2. CASE j # i
    BY <1>1, <2>2 DEF RunInv, WorkerInv, JoinInv, Whole
  <2>. QED
    BY <2>1, <2>2
<1>5. WorkerInv(w)'
  BY <1>4
  DEF ioVars, RunInv, Control, WorkerInv, FreshInv, OutInv, SingleInv, MergeInv, EndInv
<1>. QED
  BY <1>2, <1>3, <1>5 DEF RunInv, OneRun

(* The steps of one coroutine of the join.                                 *)
LEMMA ChunkStepInv ==
  ASSUME OneRun, RunInv, NEW w \in Workers, NEW i \in Chunks, ChunkStep(w, i)
  PROVE  RunInv'
<1>1. pc[w] = "join" /\ chunk[w][i] \in {"ask", "write"} /\ PartInv(w, i)
  <2>1. chunk[w][i] \in {"ask", "write", "lost"}
    BY DEF ChunkStep, OpenPart, WriteBlock, EndPart, ChunkFails, SkipChunk
  <2>2. pc[w] = "join"
    BY <2>1 DEF RunInv, WorkerInv, FreshInv, NoChunks
  <2>. QED
    BY <2>1, <2>2, Plan DEF RunInv, Control, Files, WorkerInv, JoinInv, PartInv
<1>2. /\ UNCHANGED <<tmp, dest, workVars, pc, isStopped, ioVars, merged, unsure>>
  BY DEF ChunkStep, OpenPart, WriteBlock, EndPart, ChunkFails, SkipChunk, fileVars
<1>3. /\ part = [part EXCEPT ![i] = part[i]] /\ off = [off EXCEPT ![w][i] = off[w][i]]
      /\ part \in [Chunks -> {part[k] : k \in Chunks}]
      /\ chunk \in [Workers -> [Chunks -> {"none", "ask", "write", "lost", "done"}]]
      /\ off \in [Workers -> [Chunks -> 0 .. ChunkSize]]
      /\ failed \in [Workers -> BOOLEAN]
  BY DEF RunInv, Control, Files, PartType
<1>4. CASE OpenPart(w, i)
  <2>1. /\ part' = [part EXCEPT ![i] = <<>>] /\ chunk' = [chunk EXCEPT ![w][i] = "write"]
        /\ off' = [off EXCEPT ![w][i] = off[w][i]] /\ failed' = failed
    BY <1>3, <1>4 DEF OpenPart, SetChunk
  <2>2. part'[i] = PartUpto(i, 0) /\ off'[w][i] = 0 /\ chunk'[w][i] = "write"
    BY <1>1, <1>3, <1>4, <2>1, PartFacts DEF OpenPart, PartInv
  <2>3. PartInv(w, i)'
    BY <2>2, Plan DEF PartInv
  <2>. QED
    BY <1>1, <1>2, <1>3, <2>1, <2>3, ChunkMoves
<1>5. CASE WriteBlock(w, i)
  <2>1. chunk[w][i] = "write" /\ off[w][i] < ChunkLen(i) /\ off[w][i] \in Nat
        /\ part[i] = PartUpto(i, off[w][i])
    BY <1>1, <1>5 DEF WriteBlock, PartInv
  <2>2. /\ part' = [part EXCEPT ![i] = PartUpto(i, off[w][i] + 1)]
        /\ chunk' = [chunk EXCEPT ![w][i] = "write"]
        /\ off' = [off EXCEPT ![w][i] = off[w][i] + 1] /\ failed' = failed
    <3>1. Overwrite(part[i], off[w][i], <<ChunkData(i)[off[w][i] + 1]>>)
            = PartUpto(i, off[w][i] + 1)
      BY <2>1, OverwriteBlock
    <3>2. part' = [part EXCEPT ![i] = PartUpto(i, off[w][i] + 1)]
      BY <1>5, <2>1, <3>1 DEF WriteBlock
    <3>3. /\ chunk' = [chunk EXCEPT ![w][i] = "write"]
          /\ off' = [off EXCEPT ![w][i] = off[w][i] + 1] /\ failed' = failed
      BY <1>3, <1>5, <2>1 DEF WriteBlock
    <3>. QED
      BY <3>2, <3>3
  <2>3. part'[i] = PartUpto(i, off'[w][i]) /\ off'[w][i] \in 0 .. ChunkLen(i) /\ chunk'[w][i] = "write"
    BY <1>3, <2>1, <2>2, Plan
  <2>4. PartInv(w, i)'
    BY <2>3, Plan DEF PartInv
  <2>. QED
    BY <1>1, <1>2, <1>3, <2>2, <2>4, ChunkMoves
<1>6. CASE EndPart(w, i) /\ (isStopped[w] \/ Length(part[i]) = ChunkLen(i))
  <2>1. /\ part' = [part EXCEPT ![i] = part[i]] /\ chunk' = [chunk EXCEPT ![w][i] = "done"]
        /\ off' = [off EXCEPT ![w][i] = off[w][i]] /\ failed' = failed
    BY <1>3, <1>6 DEF EndPart, SetChunk
  <2>2. isStopped[w] \/ Whole(i)
    <3>. SUFFICES ASSUME ~isStopped[w] PROVE Whole(i)
      OBVIOUS
    <3>1. Length(part[i]) = ChunkLen(i) /\ ChunkLen(i) \in Nat /\ ChunkLen(i) > 0
      BY <1>6, Plan
    <3>2. part[i] = PartUpto(i, off[w][i]) /\ off[w][i] \in Nat
      BY <1>1, <1>6 DEF EndPart, PartInv
    <3>3. Length(part[i]) = off[w][i]
      BY <3>1, <3>2, PartFacts DEF Length
    <3>. QED
      BY <3>1, <3>2, <3>3 DEF Whole
  <2>3. part'[i] = part[i] /\ off'[w][i] = off[w][i] /\ chunk'[w][i] = "done"
    BY <1>3, <2>1
  <2>4. PartInv(w, i)'
    BY <1>1, <1>2, <2>2, <2>3 DEF PartInv, Whole
  <2>. QED
    BY <1>1, <1>2, <1>3, <2>1, <2>4, ChunkMoves
<1>7. CASE EndPart(w, i) /\ ~(isStopped[w] \/ Length(part[i]) = ChunkLen(i))
  <2>1. /\ part' = [part EXCEPT ![i] = NoFile] /\ chunk' = [chunk EXCEPT ![w][i] = "done"]
        /\ off' = [off EXCEPT ![w][i] = off[w][i]]
        /\ failed'[w] = TRUE /\ failed' \in [Workers -> BOOLEAN]
    <3>. DEFINE u == Unlinked(i)
    <3>1. /\ u \in [Workers -> [Chunks -> {"none", "ask", "write", "lost", "done"}]]
          /\ \A j \in Chunks \ {i} : u[w][j] = chunk[w][j]
      BY <1>3 DEF Unlinked
    <3>2. chunk' = [u EXCEPT ![w][i] = "done"]
      BY <1>7 DEF EndPart
    <3>. HIDE DEF u
    <3>3. chunk'[w] = [chunk[w] EXCEPT ![i] = "done"]
      BY <1>3, <3>1, <3>2
    <3>4. chunk' = [chunk EXCEPT ![w][i] = "done"]
      BY <1>3, <3>1, <3>2, <3>3 DEF OneRun
    <3>. QED
      BY <1>3, <1>7, <3>4 DEF EndPart
  <2>2. part'[i] = NoFile /\ off'[w][i] = off[w][i] /\ chunk'[w][i] = "done"
    BY <1>3, <2>1
  <2>3. PartInv(w, i)'
    BY <1>1, <2>1, <2>2 DEF PartInv
  <2>. QED
    BY <1>1, <1>2, <2>1, <2>3, ChunkMoves
<1>8. CASE ChunkFails(w, i) \/ SkipChunk(w, i)
  <2>1. /\ part' = [part EXCEPT ![i] = part[i]] /\ chunk' = [chunk EXCEPT ![w][i] = "done"]
        /\ off' = [off EXCEPT ![w][i] = off[w][i]]
    BY <1>3, <1>8 DEF ChunkFails, SkipChunk, SetChunk, fileVars
  <2>2. /\ failed' \in [Workers -> BOOLEAN] /\ (failed[w] => failed'[w])
        /\ failed'[w] \/ isStopped[w]
    BY <1>3, <1>8 DEF ChunkFails, SkipChunk
  <2>3. part'[i] = part[i] /\ off'[w][i] = off[w][i] /\ chunk'[w][i] = "done"
    BY <1>3, <2>1
  <2>4. PartInv(w, i)'
    BY <1>1, <1>2, <2>2, <2>3 DEF PartInv
  <2>. QED
    BY <1>1, <1>2, <2>1, <2>2, <2>4, ChunkMoves
<1>. QED
  BY <1>4, <1>5, <1>6, <1>7, <1>8 DEF ChunkStep

(* Every part is whole when the merge starts.                              *)
LEMMA StartMergeStep == ASSUME OneRun, RunInv, NEW w \in Workers, StartMerge(w) PROVE RunInv'
<1>1. /\ pc[w] = "join" /\ ~failed[w] /\ ~isStopped[w] /\ src[w] = 0 /\ merged[w] = 0
      /\ \A i \in Chunks : Whole(i)
  BY DEF StartMerge, Joined, RunInv, WorkerInv, FreshInv, JoinInv
<1>2. tmp' = Upto(0) /\ 0 \in Chunks /\ MergedTo(0) = 0
  BY UptoFacts, Plan DEF StartMerge, Chunks, MergedTo
<1>3. Files'
  BY <1>2, Plan DEF StartMerge, RunInv, Files
<1>4. Control'
  <2>1. NoChunks \in [Chunks -> {"none", "ask", "write", "lost", "done"}]
        /\ NoOffset \in [Chunks -> 0 .. ChunkSize]
    BY Plan DEF NoChunks, NoOffset
  <2>. QED
    BY <2>1 DEF StartMerge, Go, workVars, RunInv, Control, Phases
<1>5. /\ pc'[w] = "merge" /\ out'[w] = "tmp" /\ chunk'[w] = NoChunks /\ off'[w] = NoOffset
      /\ UNCHANGED <<part, isStopped, existing, src, buf, failed, merged, unsure>>
  BY DEF StartMerge, Go, RunInv, Control
<1>6. MergeInv(w)'
  BY <1>1, <1>2, <1>5, Plan DEF MergeInv, Whole
<1>7. WorkerInv(w)'
  BY <1>1, <1>5, <1>6 DEF RunInv, WorkerInv, FreshInv, OutInv, SingleInv, JoinInv, EndInv
<1>. QED
  BY <1>3, <1>4, <1>7 DEF RunInv, OneRun

(* Where the merge is, in blocks.                                          *)
LEMMA MergedFacts ==
  \A n \in 0 .. NChunks :
    /\ MergedTo(n) \in 0 .. Total
    /\ n < NChunks => /\ n \in Chunks /\ MergedTo(n) = ChunkStart(n)
                      /\ MergedTo(n + 1) = ChunkStart(n) + ChunkLen(n)
    /\ n = NChunks => MergedTo(n) = Planned
<1>1. \A n \in 0 .. NChunks : n < NChunks => n \in Chunks
  BY Plan DEF Chunks
<1>2. \A i \in Chunks : ChunkStart(i) \in 0 .. Total
  BY Plan
<1>3. ASSUME NEW n \in 0 .. NChunks, n < NChunks
      PROVE  MergedTo(n + 1) = ChunkStart(n) + ChunkLen(n)
  <2>1. n \in Chunks /\ n \in Nat /\ NChunks \in Nat
    BY <1>1, <1>3, Plan
  <2>2. CASE n + 1 < NChunks
    <3>1. n + 1 \in Chunks
      BY <2>1, <2>2 DEF Chunks
    <3>. QED
      BY <2>1, <2>2, <3>1, Plan DEF MergedTo
  <2>3. CASE n + 1 = NChunks
    BY <2>1, <2>3, Plan DEF MergedTo
  <2>. QED
    BY <1>3, <2>1, <2>2, <2>3
<1>. QED
  BY <1>1, <1>2, <1>3, Plan DEF MergedTo

(* The next part continues the file.                                       *)
LEMMA MergeCopyStep == ASSUME OneRun, RunInv, NEW w \in Workers, MergeCopy(w) PROVE RunInv'
<1>. DEFINE i == merged[w]
<1>1. /\ i \in Chunks /\ i \in 0 .. NChunks /\ i < NChunks /\ part[i] = PartUpto(i, ChunkLen(i))
      /\ src[w] = ChunkStart(i) /\ (out[w] = "tmp" => tmp = Upto(ChunkStart(i)))
      /\ MergedTo(i + 1) = ChunkStart(i) + ChunkLen(i)
  BY MergedFacts DEF MergeCopy, RunInv, Control, WorkerInv, MergeInv, Whole
<1>2. Len(part[i]) = ChunkLen(i)
  BY <1>1, PartFacts, Plan
<1>3. ChunkStart(i) + ChunkLen(i) \in 0 .. Total /\ ChunkLen(i) \in 0 .. ChunkLen(i)
  BY <1>1, Plan
<1>4. src' = [src EXCEPT ![w] = ChunkStart(i) + ChunkLen(i)]
  BY <1>1, <1>2 DEF MergeCopy
<1>5. /\ out[w] \in {"tmp", "gone"} /\ dest' = dest
      /\ IF out[w] = "tmp" THEN tmp' = Upto(ChunkStart(i) + ChunkLen(i)) ELSE tmp' = tmp
  <2>1. out[w] \in {"tmp", "gone"}
    BY DEF MergeCopy, RunInv, WorkerInv, OutInv
  <2>2. CASE out[w] = "tmp"
    BY <1>1, <1>3, <2>2, OverwritePart DEF MergeCopy, Write, OutFile
  <2>3. CASE out[w] = "gone"
    BY <2>3 DEF MergeCopy, Write
  <2>. QED
    BY <2>1, <2>2, <2>3
<1>6. Files'
  BY <1>3, <1>5 DEF MergeCopy, RunInv, Files
<1>7. Control'
  BY <1>3, <1>4 DEF MergeCopy, Go, workVars, chunkVars, RunInv, Control, Phases
<1>8. MergeInv(w)'
  <2>1. /\ src'[w] = ChunkStart(i) + ChunkLen(i) /\ pc'[w] = "unlink" /\ merged' = merged
        /\ part' = part /\ out' = out
    BY <1>4 DEF MergeCopy, Go, chunkVars, RunInv, Control
  <2>2. \A j \in Chunks : j > i => Whole(j)
    BY DEF MergeCopy, RunInv, WorkerInv, MergeInv
  <2>. QED
    BY <1>1, <1>5, <2>1, <2>2 DEF MergeInv, Whole
<1>9. WorkerInv(w)'
  BY <1>8
  DEF MergeCopy, Go, chunkVars, RunInv, Control, WorkerInv, FreshInv, OutInv, SingleInv,
     JoinInv, EndInv
<1>. QED
  BY <1>6, <1>7, <1>9 DEF RunInv, OneRun

(* The part that was copied goes.                                          *)
LEMMA MergeDeleteStep == ASSUME OneRun, RunInv, NEW w \in Workers, MergeDelete(w) PROVE RunInv'
<1>. DEFINE i == merged[w]
<1>1. /\ i \in Chunks /\ i \in 0 .. NChunks /\ i < NChunks /\ NChunks \in Nat
      /\ src[w] = MergedTo(i + 1) /\ (out[w] = "tmp" => tmp = Upto(src[w]))
      /\ \A j \in Chunks : j > i => Whole(j)
  BY MergedFacts, Plan DEF MergeDelete, RunInv, Control, WorkerInv, MergeInv
<1>2. chunk[w] = NoChunks /\ chunk' = chunk
  <2>1. chunk[w] = NoChunks
    BY DEF MergeDelete, RunInv, WorkerInv, FreshInv
  <2>2. \A v \in Workers : Unlinked(i)[v] = chunk[v]
    BY <1>1, <2>1 DEF Unlinked, NoChunks, OneRun
  <2>3. Unlinked(i) = chunk
    BY <2>2 DEF Unlinked, RunInv, Control
  <2>. QED
    BY <2>1, <2>3 DEF MergeDelete
<1>3. part' = [part EXCEPT ![i] = NoFile] /\ merged' = [merged EXCEPT ![w] = i + 1]
  BY DEF MergeDelete
<1>4. Files'
  <2>1. part' \in PartType
    BY <1>3, MissingPart DEF RunInv, Files, PartType
  <2>2. \A j \in Chunks : part'[j] = NoFile \/ part'[j] = part[j]
    BY <1>3 DEF RunInv, Files, PartType
  <2>. QED
    BY <2>1, <2>2 DEF MergeDelete, RunInv, Files
<1>5. Control'
  <2>1. merged' \in [Workers -> 0 .. NChunks]
    BY <1>1, <1>3 DEF RunInv, Control
  <2>. QED
    BY <1>2, <2>1 DEF MergeDelete, Go, workVars, ioVars, RunInv, Control, Phases
<1>6. MergeInv(w)'
  <2>1. merged'[w] = i + 1 /\ pc'[w] = "merge"
    BY <1>3 DEF MergeDelete, Go, RunInv, Control
  <2>2. \A j \in Chunks : j >= i + 1 => Whole(j)'
    BY <1>1, <1>3 DEF Whole, RunInv, Files, PartType, Chunks
  <2>3. i + 1 < NChunks => i + 1 \in Chunks
    BY <1>1 DEF Chunks
  <2>. QED
    BY <1>1, <2>1, <2>2, <2>3 DEF MergeDelete, ioVars, MergeInv, Chunks
<1>7. WorkerInv(w)'
  BY <1>2, <1>6
  DEF MergeDelete, Go, ioVars, RunInv, Control, WorkerInv, FreshInv, OutInv, SingleInv,
     JoinInv, EndInv
<1>. QED
  BY <1>4, <1>5, <1>7 DEF RunInv, OneRun

(* What a merge that fails leaves is a prefix, too.                        *)
LEMMA MergeBreaksStep == ASSUME OneRun, RunInv, NEW w \in Workers, MergeBreaks(w) PROVE RunInv'
<1>. DEFINE i == merged[w]
<1>1. PICK n \in 0 .. Len(part[i]) :
        Write(w, Overwrite(OutFile(w), src[w], SubSeq(part[i], 1, n)))
  BY DEF MergeBreaks
<1>2. /\ i \in Chunks /\ part[i] = PartUpto(i, ChunkLen(i))
      /\ src[w] = ChunkStart(i) /\ (out[w] = "tmp" => tmp = Upto(ChunkStart(i)))
  BY MergedFacts DEF MergeBreaks, RunInv, Control, WorkerInv, MergeInv, Whole
<1>3. n \in 0 .. ChunkLen(i) /\ ChunkStart(i) + n \in 0 .. Total
  <2>1. Len(part[i]) = ChunkLen(i)
    BY <1>2, PartFacts, Plan
  <2>. QED
    BY <1>2, <2>1, Plan
<1>4. dest' = dest /\ (tmp' = tmp \/ tmp' = Upto(ChunkStart(i) + n))
  <2>1. out[w] \in {"tmp", "gone"}
    BY DEF MergeBreaks, RunInv, WorkerInv, OutInv
  <2>2. CASE out[w] = "tmp"
    <3>1. SubSeq(part[i], 1, n) = PartUpto(i, n)
      BY <1>2, <1>3, PartBegins
    <3>2. OutFile(w) = Upto(ChunkStart(i))
      BY <1>2, <2>2 DEF OutFile
    <3>3. Overwrite(OutFile(w), src[w], SubSeq(part[i], 1, n)) = Upto(ChunkStart(i) + n)
      BY <1>2, <1>3, <3>1, <3>2, OverwritePart
    <3>. QED
      BY <1>1, <2>2, <3>3 DEF Write
  <2>3. CASE out[w] = "gone"
    BY <1>1, <2>3 DEF Write
  <2>. QED
    BY <2>1, <2>2, <2>3
<1>5. Files'
  BY <1>3, <1>4 DEF MergeBreaks, RunInv, Files
<1>6. out' \in [Workers -> {"none", "tmp", "dest", "gone"}] /\ out'[w] = "none"
  BY DEF MergeBreaks, Close, RunInv, Control
<1>. QED
  BY <1>5, <1>6, SettleStep DEF MergeBreaks, ThrowIO

(* With the last part the file has all bytes planned for.                  *)
LEMMA MergeEndStep == ASSUME OneRun, RunInv, NEW w \in Workers, MergeEnd(w) PROVE RunInv'
<1>1. /\ src[w] = Planned /\ out[w] \in {"tmp", "gone"}
      /\ out[w] = "tmp" => tmp = Upto(src[w])
  BY MergedFacts, Plan DEF MergeEnd, RunInv, Control, WorkerInv, OutInv, MergeInv
<1>2. (unsure'[w] <=> Planned < Total) /\ unsure' \in [Workers -> BOOLEAN]
  <2>. DEFINE less == Planned < Total
  <2>1. unsure \in [Workers -> BOOLEAN] /\ unsure' = [unsure EXCEPT ![w] = less]
    BY DEF MergeEnd, RunInv, Control
  <2>2. less \in BOOLEAN
    BY Plan
  <2>. HIDE DEF less
  <2>3. unsure'[w] = less /\ unsure' \in [Workers -> BOOLEAN]
    BY <2>1, <2>2
  <2>. QED
    BY <2>3, Zenon DEF less
<1>3. isStopped[w] \/ tmp = Model \/ (unsure'[w] /\ tmp # NoFile)
  <2>1. isStopped[w] \/ tmp = Upto(Planned)
    BY <1>1 DEF RunInv, WorkerInv, OutInv
  <2>2. Planned = Total \/ Planned < Total
    BY Plan
  <2>3. Upto(Planned) # NoFile
    BY UptoIsFile, Plan
  <2>. QED
    BY <1>2, <2>1, <2>2, <2>3, UptoFacts
<1>4. unsure'[w] => ~Announced
  BY <1>2, Plan DEF Announced
<1>5. Control'
  BY <1>2 DEF MergeEnd, Close, Go, workVars, RunInv, Control, Phases
<1>6. WorkerInv(w)'
  BY <1>3, <1>4
  DEF MergeEnd, Close, Go, fileVars, RunInv, Control, WorkerInv, FreshInv, OutInv,
      SingleInv, JoinInv, MergeInv, EndInv
<1>. QED
  BY <1>5, <1>6 DEF RunInv, OneRun, Files, MergeEnd, fileVars

(* The step lemmas together.                                               *)
LEMMA RunStep == ASSUME OneRun, RunInv, [Next]_vars PROVE RunInv'
<1>1. CASE Disturbance
  BY <1>1, StopStep, DeleteStep, DeathStep DEF Disturbance
<1>2. ASSUME NEW w \in Workers, Start(w) PROVE RunInv'
  BY <1>2, StartStep
<1>3. ASSUME NEW w \in Workers, WorkerStep(w) PROVE RunInv'
  BY <1>3, ReadLengthStep, AppendStep, StartOverStep, SettleUnwritten, SingleReadStep,
     SingleFlushStep, SingleEndStep, BodyBreaksStep, ProbeStep, PlanStep, ChunkStepInv,
     StartMergeStep, MergeCopyStep, MergeBreaksStep, MergeDeleteStep, MergeEndStep,
     VerifyStep, RejectStep, RemoveOldStep, RenameStep DEF WorkerStep
<1>4. CASE UNCHANGED vars
  BY <1>4
  DEF vars, fileVars, workVars, ioVars, chunkVars, RunInv, Control, Files, WorkerInv,
      FreshInv,
     OutInv, SingleInv, JoinInv, MergeInv, EndInv, Whole
<1>. QED
  BY <1>1, <1>2, <1>3, <1>4 DEF Next

-----------------------------------------------------------------------------
(* The theorems. *)

(* A prefix, in the words of the module.                                   *)
LEMMA PrefixFacts ==
  /\ \A n \in 0 .. Total : IsPrefix(Upto(n), Model)
  /\ \A i \in Chunks : \A n \in 0 .. ChunkLen(i) :
       IsPrefix(PartUpto(i, n), ChunkData(i)) /\ PartUpto(i, n) \in Contents(ChunkSize)
<1>1. ASSUME NEW n \in 0 .. Total PROVE IsPrefix(Upto(n), Upto(Total))
  <2>1. Len(Upto(n)) = n /\ Len(Upto(Total)) = Total /\ n <= Total /\ n \in Nat
    BY UptoFacts, Plan
  <2>2. SubSeq(Upto(n), 1, n) = Upto(n)
    BY <2>1 DEF Upto
  <2>3. SubSeq(Upto(Total), 1, n) = Upto(n)
    <3>1. Upto(Total) \in Seq(Nat) /\ \A k \in 1 .. n : Upto(Total)[k] = k
      BY <2>1, Plan DEF Upto
    <3>. QED
      BY <2>1, <3>1 DEF Upto
  <2>. QED
    BY <2>1, <2>2, <2>3 DEF IsPrefix
<1>2. ASSUME NEW i \in Chunks, NEW n \in 0 .. ChunkLen(i)
      PROVE  /\ IsPrefix(PartUpto(i, n), PartUpto(i, ChunkLen(i)))
             /\ PartUpto(i, n) \in Contents(ChunkSize)
  <2>1. /\ n \in Nat /\ ChunkLen(i) \in Nat /\ n <= ChunkLen(i) /\ n \in 0 .. ChunkSize
        /\ ChunkStart(i) \in Nat /\ ChunkStart(i) + n <= Total
    BY Plan
  <2>2. Len(PartUpto(i, n)) = n /\ Len(PartUpto(i, ChunkLen(i))) = ChunkLen(i)
    BY <2>1, PartFacts
  <2>3. SubSeq(PartUpto(i, n), 1, n) = SubSeq(PartUpto(i, ChunkLen(i)), 1, n)
    BY <2>1 DEF PartUpto
  <2>4. PartUpto(i, n) \in [1 .. n -> 0 .. Total]
    BY <2>1, Plan DEF PartUpto
  <2>. QED
    BY <2>1, <2>2, <2>3, <2>4 DEF IsPrefix, Contents
<1>. QED
  BY <1>1, <1>2, UptoFacts, PartFacts

(* The invariant implies the types,                                        *)
LEMMA RunTypes == ASSUME RunInv PROVE TypeOK
<1>1. tmp \in {NoFile} \cup Contents(Total) /\ dest \in {NoFile} \cup Contents(Total)
  BY UptoIsFile, UptoFacts, Plan DEF RunInv, Files
<1>2. part \in [Chunks -> {NoFile} \cup Contents(ChunkSize)]
  <2>1. \A i \in Chunks : part[i] \in {NoFile} \cup Contents(ChunkSize)
    BY PrefixFacts DEF RunInv, Files
  <2>. QED
    BY <2>1 DEF RunInv, Files, PartType
<1>3. buf \in [Workers -> Contents(1)]
  <2>1. <<>> \in Contents(1) /\ \A n \in 1 .. Total : <<n>> \in Contents(1)
    <3>1. <<>> \in [1 .. 0 -> 0 .. Total]
      OBVIOUS
    <3>2. \A n \in 1 .. Total : <<n>> \in [1 .. 1 -> 0 .. Total]
      BY Plan
    <3>. QED
      BY <3>1, <3>2 DEF Contents
  <2>2. \A w \in Workers : buf[w] \in Contents(1)
    <3>1. \A w \in Workers : buf[w] = <<>> \/ \E n \in 1 .. Total : buf[w] = <<n>>
      BY DEF RunInv, Control
    <3>. QED
      BY <2>1, <3>1
  <2>. QED
    BY <2>2 DEF RunInv, Control
<1>. QED
  BY <1>1, <1>2, <1>3 DEF TypeOK, RunInv, Control

(* and that the files are sound.                                           *)
LEMMA RunSound == ASSUME RunInv PROVE PartialFilesSound
<1>1. tmp # NoFile => IsPrefix(tmp, Model)
  BY PrefixFacts DEF RunInv, Files
<1>2. \A i \in Chunks : part[i] # NoFile => IsPrefix(part[i], ChunkData(i))
  BY PrefixFacts DEF RunInv, Files
<1>. QED
  BY <1>1, <1>2 DEF PartialFilesSound

(* Only the rename installs a file: the one that run has made.             *)
LEMMA InstallStep ==
  ASSUME OneRun, RunInv, [Next]_vars, dest' # dest, dest' # NoFile
  PROVE  \E w \in Workers : Rename(w) /\ Move
<1>1. \A w \in Workers : out[w] # "dest"
  BY DEF RunInv, WorkerInv, OutInv
<1>2. ~Disturbance /\ ~UNCHANGED vars
  BY DEF Disturbance, DownloadModel, PauseDownload, CancelDownload, CancelUniqueWork,
         DeleteModel, Interrupt, ProcessDeath, vars, fileVars
<1>3. PICK w \in Workers : Start(w) \/ WorkerStep(w)
  BY <1>2 DEF Next
<1>4. ~Start(w)
  BY DEF Start, fileVars
<1>5. ~(RangeRefused(w) \/ AskFails(w) \/ ProbeFails(w) \/ BodyBreaks(w) \/ GiveUp(w)
        \/ MergeMissing(w) \/ MergeBreaks(w) \/ Stopped(w) \/ Reject(w))
  BY <1>1 DEF RangeRefused, AskFails, RequestFails, ProbeFails, BodyBreaks, LastFlush,
         FlushLost, Write, GiveUp, MergeMissing, MergeBreaks, Stopped, Reject, fileVars
<1>6. ~(ReadLength(w) \/ AppendFrom(w) \/ StartOver(w) \/ SingleRead(w) \/ SingleFlush(w)
        \/ SingleEnd(w) \/ ProbeRange(w) \/ PlanChunks(w) \/ StartMerge(w) \/ MergeCopy(w)
        \/ MergeDelete(w) \/ MergeEnd(w) \/ Verify(w) \/ RemoveOld(w))
  BY <1>1 DEF ReadLength, AppendFrom, StartOver, OpenTmp, SingleRead, SingleFlush,
         SingleEnd, LastFlush, FlushLost, Write, ProbeRange, PlanChunks, StartMerge,
         MergeCopy, MergeDelete, MergeEnd, Verify, RemoveOld, fileVars
<1>7. \A i \in Chunks : ~ChunkStep(w, i)
  BY DEF ChunkStep, OpenPart, WriteBlock, EndPart, ChunkFails, SkipChunk, fileVars
<1>8. Rename(w)
  BY <1>3, <1>4, <1>5, <1>6, <1>7 DEF WorkerStep
<1>. QED
  BY <1>8 DEF Rename

(* Only the rename reports success, and it finds what it is to install.    *)
LEMMA SuccessStep ==
  ASSUME OneRun, RunInv, [Next]_vars, work # "succeeded", work' = "succeeded"
  PROVE  /\ tmp # NoFile /\ (Checksummed \/ Announced => tmp = Model)
         /\ dest' = tmp \/ ("rename" \in Faults /\ tmp' = tmp)
<1>1. PICK w \in Workers : Rename(w)
  <2>1. ~Disturbance /\ ~UNCHANGED vars
    BY DEF Disturbance, DownloadModel, PauseDownload, CancelDownload, CancelUniqueWork,
           DeleteModel, Interrupt, ProcessDeath, vars, workVars
  <2>2. PICK w \in Workers : Start(w) \/ WorkerStep(w)
    BY <2>1 DEF Next
  <2>3. ~Start(w)
    BY DEF Start
  <2>4. ~(RangeRefused(w) \/ AskFails(w) \/ ProbeFails(w) \/ BodyBreaks(w) \/ GiveUp(w)
          \/ MergeMissing(w) \/ MergeBreaks(w) \/ Stopped(w) \/ Reject(w))
    BY DEF RangeRefused, AskFails, RequestFails, ProbeFails, BodyBreaks, GiveUp,
           MergeMissing, MergeBreaks, Stopped, Reject, Throw, ThrowIO, Settle
  <2>5. ~(ReadLength(w) \/ AppendFrom(w) \/ StartOver(w) \/ SingleRead(w) \/ SingleFlush(w)
          \/ SingleEnd(w) \/ ProbeRange(w) \/ PlanChunks(w) \/ StartMerge(w) \/ MergeCopy(w)
          \/ MergeDelete(w) \/ MergeEnd(w) \/ Verify(w) \/ RemoveOld(w))
    BY DEF ReadLength, AppendFrom, StartOver, OpenTmp, SingleRead, SingleFlush, SingleEnd,
           BodyOver, ProbeRange, PlanChunks, StartMerge, MergeCopy, MergeDelete, MergeEnd,
           Verify, RemoveOld, workVars
  <2>6. \A i \in Chunks : ~ChunkStep(w, i)
    BY DEF ChunkStep, OpenPart, WriteBlock, EndPart, ChunkFails, SkipChunk, workVars
  <2>. QED
    BY <2>2, <2>3, <2>4, <2>5, <2>6 DEF WorkerStep
<1>2. ~isStopped[w]
  BY <1>1 DEF Rename, Settle
<1>3. tmp # NoFile /\ (Checksummed \/ Announced => tmp = Model)
  BY <1>1, <1>2, UptoIsFile, UptoFacts, Plan DEF Rename, RunInv, WorkerInv, EndInv
<1>. QED
  BY <1>1, <1>3 DEF Rename, Move

(* A whole part goes only once it is merged.                               *)
LEMMA KeptStep ==
  ASSUME OneRun, RunInv, [Next]_vars, NEW i \in Chunks,
         part[i] = ChunkData(i), part'[i] # part[i]
  PROVE  InTmp(i) \/ \E w \in Workers : out[w] = "gone"
<1>1. Length(part[i]) = ChunkLen(i)
  <2>1. Len(part[i]) = ChunkLen(i) /\ ChunkLen(i) \in Nat
    BY PartFacts, Plan
  <2>2. part[i] # NoFile
    <3>1. ChunkData(i) \in Contents(Total)
      <4>1. PartUpto(i, ChunkLen(i)) \in [1 .. ChunkLen(i) -> 0 .. Total]
        BY Plan DEF PartUpto
      <4>2. ChunkLen(i) \in 0 .. Total
        BY Plan
      <4>3. PartUpto(i, ChunkLen(i)) \in Contents(Total)
        BY <4>1, <4>2 DEF Contents
      <4>. QED
        BY <4>3, PartFacts
    <3>. QED
      BY <3>1, NoFileAssumption
  <2>. QED
    BY <2>1, <2>2 DEF Length
<1>2. PICK w \in Workers : \/ PlanChunks(w) \/ MergeDelete(w)
                          \/ \E j \in Chunks : OpenPart(w, j) \/ WriteBlock(w, j) \/ EndPart(w, j)
  BY DEF Next, Disturbance, DownloadModel, PauseDownload, CancelDownload, CancelUniqueWork,
         DeleteModel, Interrupt, ProcessDeath, Start, WorkerStep, ReadLength, AppendFrom,
         StartOver, OpenTmp, RangeRefused, AskFails, RequestFails, SingleRead, SingleFlush,
         SingleEnd, BodyOver, BodyBreaks, ProbeRange, ProbeFails, ChunkStep,
         ChunkFails, SkipChunk, StartMerge, GiveUp, MergeCopy, MergeMissing,
         MergeBreaks, MergeEnd, Stopped, Verify, Reject, RemoveOld, Rename,
         vars, fileVars
<1>3. ~PlanChunks(w)
  BY <1>1 DEF PlanChunks, Pending
<1>4. \A j \in Chunks : ~(OpenPart(w, j) \/ WriteBlock(w, j) \/ EndPart(w, j))
  <2>. SUFFICES ASSUME NEW j \in Chunks, OpenPart(w, j) \/ WriteBlock(w, j) \/ EndPart(w, j)
                PROVE  FALSE
    OBVIOUS
  <2>1. j = i
    BY DEF OpenPart, WriteBlock, EndPart, RunInv, Files, PartType
  <2>2. pc[w] = "join"
    BY DEF OpenPart, WriteBlock, EndPart, RunInv, WorkerInv, FreshInv, NoChunks
  <2>3. ~OpenPart(w, i)
    BY <1>1, <2>2, Plan DEF OpenPart, RunInv, WorkerInv, JoinInv, Length
  <2>4. ~EndPart(w, i)
    BY <1>1 DEF EndPart
  <2>5. ~WriteBlock(w, i)
    <3>. SUFFICES ASSUME WriteBlock(w, i) PROVE FALSE
      OBVIOUS
    <3>1. off[w][i] < ChunkLen(i) /\ off[w][i] \in Nat /\ part[i] = PartUpto(i, off[w][i])
      BY <2>2, Plan DEF WriteBlock, RunInv, Control, WorkerInv, JoinInv
    <3>2. Len(part[i]) = off[w][i]
      BY <3>1, PartFacts
    <3>. QED
      BY <1>1, <3>1, <3>2, Plan DEF Length
  <2>. QED
    BY <2>1, <2>3, <2>4, <2>5
<1>5. /\ MergeDelete(w) /\ merged[w] = i /\ src[w] = ChunkStart(i) + ChunkLen(i)
      /\ out[w] \in {"tmp", "gone"} /\ (out[w] = "tmp" => tmp = Upto(src[w]))
  <2>1. MergeDelete(w)
    BY <1>2, <1>3, <1>4
  <2>2. merged[w] = i
    BY <2>1 DEF MergeDelete, RunInv, Files, PartType
  <2>. QED
    BY <2>1, <2>2, MergedFacts, Plan
    DEF MergeDelete, RunInv, Control, WorkerInv, OutInv, MergeInv
<1>6. CASE out[w] = "tmp"
  <2>. DEFINE s == ChunkStart(i)
              l == ChunkLen(i)
  <2>1. s \in Nat /\ l \in Nat /\ s + l <= Total /\ Total \in Nat
    BY Plan
  <2>. HIDE DEF s, l
  <2>2. Len(Upto(s + l)) = s + l
    BY <2>1, UptoFacts
  <2>3. SubSeq(Upto(s + l), s + 1, s + l) = SubSeq(Model, s + 1, s + l)
    BY <2>1, <2>2 DEF Upto, Model
  <2>4. Upto(s + l) # NoFile
    BY <2>1, UptoIsFile
  <2>5. tmp = Upto(s + l)
    BY <1>5, <1>6 DEF s, l
  <2>6. tmp # NoFile
    BY <2>4, <2>5
  <2>7. Len(tmp) >= s + l
    <3>1. Len(tmp) = s + l /\ s + l \in Nat
      BY <2>1, <2>2, <2>5
    <3>. QED
      BY <3>1
  <2>8. SubSeq(tmp, s + 1, s + l) = SubSeq(Model, s + 1, s + l)
    BY <2>3, <2>5, Zenon
  <2>9. InTmp(i) <=>
          Len(tmp) >= s + l /\ SubSeq(tmp, s + 1, s + l) = SubSeq(Model, s + 1, s + l)
    BY <2>6, Zenon DEF InTmp, ChunkData, s, l
  <2>. QED
    BY <2>7, <2>8, <2>9, Zenon
<1>. QED
  BY <1>5, <1>6

-----------------------------------------------------------------------------
(* The work as the screen knows it: ModelDownload implements DownloadWork. *)

(* The work runs if and only if a run is under way that was not stopped.   *)
WorkInv == work = "running" <=> \E w \in Workers : pc[w] # "off" /\ ~isStopped[w]

Lingering == \E w \in Workers : isStopped[w]

(* The model is large enough to be offered, and not a missing file.        *)
LEMMA ModelIsOffered == Model # NoFile /\ Len(Model) >= OfferedSize
<1>1. Model # NoFile /\ Len(Model) = Total
  BY UptoIsFile, UptoFacts, Plan
<1>2. Total >= OfferedSize
  BY SizeAssumption
<1>. QED
  BY <1>1, <1>2

(* It is offered once it is installed, a missing file is not.              *)
LEMMA OfferedFacts ==
  /\ Offered \in BOOLEAN
  /\ dest = Model => Offered
  /\ dest = NoFile => ~Offered
BY ModelIsOffered, Zenon DEF Offered

(* The same after a step.                                                  *)
LEMMA OfferedNext ==
  /\ Offered' \in BOOLEAN
  /\ dest' = Model => Offered'
  /\ dest' = NoFile => ~Offered'
  /\ dest' = dest => Offered' = Offered
BY ModelIsOffered, Zenon DEF Offered

(* Initially there is no work and nothing runs.                            *)
LEMMA WorkInit == Init => WorkInv /\ Promised!Init
<1>. SUFFICES ASSUME Init PROVE WorkInv /\ Promised!Init
  OBVIOUS
<1>1. WorkInv
  BY DEF Init, WorkInv
<1>2. work = "none" /\ attempt = 0 /\ Offered \in BOOLEAN /\ Lingering = FALSE
  BY OfferedFacts DEF Init, Lingering
<1>. QED
  BY <1>1, <1>2 DEF Promised!Init, Lingering

(* To stop all runs is to stop the one that runs, if one does.             *)
LEMMA StopWork ==
  ASSUME RunInv, WorkInv, StopAll, pc' = pc, work' # "running"
  PROVE  WorkInv' /\ Promised!StopRun
<1>1. Lingering' <=> \E w \in Workers : pc[w] # "off"
  BY DEF StopAll, Lingering
<1>2. \A w \in Workers : isStopped[w] => pc[w] # "off"
  BY DEF RunInv, WorkerInv, FreshInv
<1>3. Lingering' <=> Lingering \/ work = "running"
  BY <1>1, <1>2 DEF WorkInv, Lingering
<1>4. WorkInv'
  BY DEF WorkInv, StopAll
<1>. QED
  BY <1>3, <1>4 DEF Promised!StopRun, Lingering

(* The buttons, the system and death.                                      *)
LEMMA DisturbanceWork ==
  ASSUME RunInv, WorkInv, Disturbance
  PROVE  WorkInv' /\ [Promised!Next]_(Promised!vars)
<1>1. CASE DownloadModel
  <2>1. WorkInv' /\ Promised!StopRun
    BY <1>1, StopWork DEF DownloadModel
  <2>2. Promised!Enqueue
    BY <1>1, <2>1, OfferedNext DEF DownloadModel, fileVars, Promised!Enqueue
  <2>. QED
    BY <2>1, <2>2 DEF Promised!Next
<1>2. CASE PauseDownload \/ CancelDownload
  <2>1. /\ work' = (IF work \in {"enqueued", "running"} THEN "cancelled" ELSE work)
        /\ StopAll /\ attempt' = attempt /\ dest' = dest /\ pc' = pc
    BY <1>2 DEF PauseDownload, CancelDownload, CancelUniqueWork, fileVars
  <2>2. WorkInv' /\ Promised!StopRun
    BY <2>1, StopWork
  <2>3. Promised!Cancel
    BY <2>1, <2>2, OfferedNext DEF Promised!Cancel
  <2>. QED
    BY <2>2, <2>3 DEF Promised!Next
<1>3. CASE DeleteModel
  <2>1. WorkInv' /\ UNCHANGED <<work, attempt, isStopped>> /\ dest' = NoFile
    BY <1>3 DEF DeleteModel, workVars, WorkInv
  <2>2. Promised!Delete
    BY <2>1, OfferedNext DEF Promised!Delete
  <2>. QED
    BY <2>1, <2>2 DEF Promised!Next
<1>4. CASE Interrupt
  <2>1. WorkInv' /\ Promised!StopRun
    BY <1>4, StopWork DEF Interrupt
  <2>2. Promised!CountUp
    BY <1>4 DEF Interrupt, NextAttempt, Promised!CountUp
  <2>3. Promised!Interrupt
    BY <1>4, <2>1, <2>2, OfferedNext DEF Interrupt, fileVars, Promised!Interrupt
  <2>. QED
    BY <2>1, <2>3 DEF Promised!Next
<1>5. CASE ProcessDeath
  <2>1. /\ \A w \in Workers : pc'[w] = "off" /\ isStopped'[w] = FALSE
        /\ dest' = dest /\ work' # "running"
    BY <1>5 DEF ProcessDeath, fileVars
  <2>2. WorkInv' /\ ~Lingering'
    BY <2>1 DEF WorkInv, Lingering
  <2>3. IF work = "running" THEN work' = "enqueued" /\ Promised!CountUp
                            ELSE UNCHANGED <<work, attempt>>
    BY <1>5 DEF ProcessDeath, NextAttempt, Promised!CountUp
  <2>4. Promised!Die
    BY <2>1, <2>2, <2>3, OfferedNext DEF Promised!Die, Lingering
  <2>. QED
    BY <2>2, <2>4 DEF Promised!Next
<1>. QED
  BY <1>1, <1>2, <1>3, <1>4, <1>5 DEF Disturbance

(* A run that returns without success, from wherever.                      *)
LEMMA SettleWork ==
  ASSUME OneRun, RunInv, WorkInv, NEW w \in Workers, pc[w] # "off",
         NEW r \in {"enqueued", "failed"}, Settle(w, r), dest' = dest,
         r = "enqueued" => isStopped[w] \/ attempt < RetryLimit
  PROVE  WorkInv' /\ [Promised!Next]_(Promised!vars)
<1>1. /\ pc'[w] = "off" /\ isStopped'[w] = FALSE
      /\ work' = (IF isStopped[w] THEN work ELSE r)
      /\ attempt' = (IF ~isStopped[w] /\ r = "enqueued" THEN NextAttempt ELSE attempt)
  BY DEF Settle, RunInv, Control
<1>2. work = "running" <=> ~isStopped[w]
  BY DEF WorkInv, OneRun
<1>3. WorkInv' /\ ~Lingering'
  BY <1>1, <1>2 DEF WorkInv, OneRun, Lingering
<1>4. CASE isStopped[w]
  <2>1. Promised!Linger
    BY <1>1, <1>3, <1>4, OfferedNext DEF Promised!Linger, Lingering
  <2>. QED
    BY <1>3, <2>1 DEF Promised!Next
<1>5. CASE ~isStopped[w]
  <2>1. ~Lingering
    BY <1>5 DEF OneRun, Lingering
  <2>2. CASE r = "enqueued"
    <3>1. attempt < RetryLimit /\ attempt' = attempt + 1
      BY <1>1, <1>5, <2>2 DEF NextAttempt
    <3>2. Promised!Retry
      BY <1>1, <1>2, <1>3, <1>5, <2>1, <2>2, <3>1, OfferedNext DEF Promised!Retry, Lingering
    <3>. QED
      BY <1>3, <3>2 DEF Promised!Next
  <2>3. CASE r = "failed"
    <3>1. attempt' = attempt
      BY <1>1, <2>3
    <3>2. Promised!Fail
      BY <1>1, <1>2, <1>3, <1>5, <2>1, <2>3, <3>1, OfferedNext DEF Promised!Fail, Lingering
    <3>. QED
      BY <1>3, <3>2 DEF Promised!Next
  <2>. QED
    BY <2>2, <2>3
<1>. QED
  BY <1>4, <1>5

(* Every way to return without success is of that kind.                    *)
LEMMA ReturnWork ==
  ASSUME OneRun, RunInv, WorkInv, NEW w \in Workers,
         \/ RangeRefused(w) \/ AskFails(w) \/ ProbeFails(w) \/ BodyBreaks(w) \/ GiveUp(w)
         \/ MergeMissing(w) \/ MergeBreaks(w) \/ Stopped(w) \/ Reject(w)
  PROVE  WorkInv' /\ [Promised!Next]_(Promised!vars)
<1>1. pc[w] # "off"
  BY DEF RangeRefused, AskFails, ProbeFails, BodyBreaks, GiveUp, Joined, MergeMissing,
         MergeBreaks, Stopped, Reject
<1>2. dest' = dest
  <2>1. out[w] # "dest"
    BY DEF RunInv, WorkerInv, OutInv
  <2>. QED
    BY <2>1 DEF RangeRefused, AskFails, RequestFails, ProbeFails, BodyBreaks, LastFlush,
       FlushLost, Write, GiveUp, MergeMissing, MergeBreaks, Stopped, Reject, fileVars
<1>3. ThrowIO(w) \/ Throw(w) \/ (isStopped[w] /\ Settle(w, "enqueued"))
  BY DEF RangeRefused, AskFails, RequestFails, ProbeFails, BodyBreaks, GiveUp,
         MergeMissing, MergeBreaks, Stopped, Reject
<1>4. CASE ThrowIO(w)
  BY <1>1, <1>2, <1>4, SettleWork DEF ThrowIO
<1>5. CASE Throw(w)
  BY <1>1, <1>2, <1>5, SettleWork DEF Throw
<1>6. CASE isStopped[w] /\ Settle(w, "enqueued")
  BY <1>1, <1>2, <1>6, SettleWork
<1>. QED
  BY <1>3, <1>4, <1>5, <1>6

(* A file that gets its final name is offered, where that can be relied on. *)
LEMMA RenameInstalls ==
  ASSUME RunInv, NEW w \in Workers, Rename(w), Move
  PROVE  Offered' \/ ~Dependable
<1>1. tmp # NoFile /\ dest' = tmp /\ pc[w] \in {"rename", "again"}
  BY DEF Move, Rename
<1>2. tmp = Model \/ (~Checksummed /\ ~Announced)
  BY <1>1, MovedFile
<1>. QED
  BY <1>1, <1>2, OfferedNext DEF Dependable

(* The rename: a success, or a stopped run that came too far.              *)
LEMMA RenameWork ==
  ASSUME OneRun, RunInv, WorkInv, NEW w \in Workers, Rename(w)
  PROVE  WorkInv' /\ [Promised!Next]_(Promised!vars)
<1>1. /\ pc[w] # "off" /\ pc'[w] = "off" /\ isStopped'[w] = FALSE
      /\ work' = (IF isStopped[w] THEN work ELSE "succeeded") /\ attempt' = attempt
  BY DEF Rename, Settle, RunInv, Control
<1>2. work = "running" <=> ~isStopped[w]
  BY <1>1 DEF WorkInv, OneRun
<1>3. WorkInv' /\ ~Lingering'
  BY <1>1, <1>2 DEF WorkInv, OneRun, Lingering
<1>4. CASE isStopped[w]
  <2>1. Offered' = Offered \/ Promised!Install
    <3>1. Move \/ dest' = dest
      BY DEF Rename
    <3>. QED
      BY <3>1, RenameInstalls, OfferedNext DEF Promised!Install
  <2>2. Promised!Linger
    BY <1>1, <1>3, <1>4, <2>1 DEF Promised!Linger, Lingering
  <2>. QED
    BY <1>3, <2>2 DEF Promised!Next
<1>5. CASE ~isStopped[w]
  <2>1. ~Lingering
    BY <1>5 DEF OneRun, Lingering
  <2>2. Move \/ "rename" \in Faults
    BY <1>5, ModelIsOffered DEF Rename, RunInv, WorkerInv, EndInv
  <2>3. Offered' \/ ~Dependable
    BY <2>2, RenameInstalls DEF Dependable
  <2>4. Promised!Install
    BY <2>3, OfferedNext DEF Promised!Install
  <2>5. Promised!Succeed
    BY <1>1, <1>2, <1>3, <1>5, <2>1, <2>4 DEF Promised!Succeed, Lingering
  <2>. QED
    BY <1>3, <2>5 DEF Promised!Next
<1>. QED
  BY <1>4, <1>5

(* The old file goes, from a run or one that was stopped too late.         *)
LEMMA RemoveOldWork ==
  ASSUME OneRun, RunInv, WorkInv, NEW w \in Workers, RemoveOld(w)
  PROVE  WorkInv' /\ [Promised!Next]_(Promised!vars)
<1>1. /\ pc[w] # "off" /\ pc'[w] # "off"
      /\ UNCHANGED <<work, attempt, isStopped>> /\ dest' = NoFile /\ ~Dependable
  BY DEF RemoveOld, Go, workVars, Dependable, RunInv, Control
<1>2. WorkInv' /\ ~Offered' /\ Offered' \in BOOLEAN
  BY <1>1, OfferedNext DEF WorkInv, OneRun
<1>3. CASE isStopped[w]
  <2>1. Promised!Install
    BY <1>1, <1>2 DEF Promised!Install
  <2>2. Promised!Linger
    BY <1>1, <1>3, <2>1 DEF Promised!Linger
  <2>. QED
    BY <1>2, <2>2 DEF Promised!Next
<1>4. CASE ~isStopped[w]
  <2>1. work = "running"
    BY <1>1, <1>4 DEF WorkInv
  <2>2. Promised!Remove
    BY <1>1, <1>2, <2>1 DEF Promised!Remove
  <2>. QED
    BY <1>2, <2>2 DEF Promised!Next
<1>. QED
  BY <1>3, <1>4

(* Inside a run the screen sees nothing.                                   *)
LEMMA InnerWork ==
  ASSUME OneRun, RunInv, WorkInv, NEW w \in Workers,
         UNCHANGED <<workVars, isStopped>>, dest' = dest,
         pc[w] # "off", pc'[w] # "off"
  PROVE  WorkInv' /\ [Promised!Next]_(Promised!vars)
<1>1. WorkInv'
  BY DEF WorkInv, workVars, OneRun
<1>2. UNCHANGED Promised!vars
  BY OfferedNext DEF Promised!vars, workVars
<1>. QED
  BY <1>1, <1>2

(* A run starts, and does what it does.                                    *)
LEMMA WorkerWork ==
  ASSUME OneRun, RunInv, WorkInv, NEW w \in Workers, Start(w) \/ WorkerStep(w)
  PROVE  WorkInv' /\ [Promised!Next]_(Promised!vars)
<1>1. CASE Start(w)
  <2>1. /\ pc'[w] = "start" /\ ~isStopped[w] /\ isStopped'[w] = FALSE
        /\ work = "enqueued" /\ work' = "running"
        /\ dest' = dest /\ attempt' = attempt
    BY <1>1 DEF Start, fileVars, RunInv, Control, WorkerInv, FreshInv
  <2>2. WorkInv' /\ ~Lingering /\ ~Lingering'
    BY <2>1 DEF WorkInv, OneRun, Lingering
  <2>3. Promised!Run
    BY <2>1, <2>2, OfferedNext DEF Promised!Run, Lingering
  <2>. QED
    BY <2>2, <2>3 DEF Promised!Next
<1>2. CASE \/ ReadLength(w) \/ AppendFrom(w) \/ StartOver(w) \/ SingleRead(w)
           \/ SingleFlush(w) \/ SingleEnd(w) \/ ProbeRange(w) \/ PlanChunks(w)
           \/ StartMerge(w) \/ MergeCopy(w) \/ MergeDelete(w) \/ MergeEnd(w) \/ Verify(w)
  <2>1. UNCHANGED <<workVars, isStopped>>
    BY <1>2 DEF ReadLength, AppendFrom, StartOver, OpenTmp, SingleRead, SingleFlush,
         SingleEnd, BodyOver, ProbeRange, PlanChunks, StartMerge, MergeCopy, MergeDelete, MergeEnd,
         Verify
  <2>2. pc[w] \notin {"off"}
    BY <1>2 DEF ReadLength, AppendFrom, StartOver, SingleRead, SingleFlush, SingleEnd,
         ProbeRange, PlanChunks, StartMerge, Joined, MergeCopy, MergeDelete, MergeEnd, Verify
  <2>3. pc'[w] # "off"
    BY <1>2, <2>2
    DEF ReadLength, AppendFrom, StartOver, OpenTmp, SingleRead, SingleFlush, SingleEnd,
        BodyOver, ProbeRange, PlanChunks, StartMerge, MergeCopy, MergeDelete, MergeEnd,
        Verify, Go,
        RunInv, Control
  <2>4. dest' = dest
    BY <1>2
    DEF ReadLength, AppendFrom, StartOver, OpenTmp, SingleRead, SingleFlush, SingleEnd,
        ProbeRange, PlanChunks, StartMerge, MergeCopy, MergeDelete, MergeEnd, Verify,
        LastFlush, FlushLost, Write, fileVars, RunInv, WorkerInv, OutInv
  <2>. QED
    BY <2>1, <2>2, <2>3, <2>4, InnerWork
<1>3. ASSUME NEW i \in Chunks, ChunkStep(w, i)
      PROVE  WorkInv' /\ [Promised!Next]_(Promised!vars)
  <2>1. pc[w] = "join"
    BY <1>3 DEF ChunkStep, OpenPart, WriteBlock, EndPart, ChunkFails, SkipChunk, RunInv,
         WorkerInv, FreshInv, NoChunks
  <2>2. UNCHANGED <<workVars, isStopped, pc>> /\ dest' = dest
    BY <1>3 DEF ChunkStep, OpenPart, WriteBlock, EndPart, ChunkFails, SkipChunk, fileVars
  <2>. QED
    BY <2>1, <2>2, InnerWork
<1>. QED
  BY <1>1, <1>2, <1>3, ReturnWork, RemoveOldWork, RenameWork DEF WorkerStep

-----------------------------------------------------------------------------
(* The inductive invariant, for every model, plan, server and disturbance. *)
THEOREM DownloadCorrect == ASSUME OneRun PROVE Spec => []RunInv
<1>1. RunInv /\ [Next]_vars => RunInv'
  BY RunStep
<1>. QED
  BY RunInit, <1>1, PTL DEF Spec

(* Every variable keeps its type: no file grows past the model and no run  *)
(* merges more parts than there are.                                       *)
THEOREM TypeCorrect == ASSUME OneRun PROVE Spec => []TypeOK
  BY DownloadCorrect, RunTypes, PTL

(* What is on disk can be resumed, whatever interrupted the run that left  *)
(* it (ModelDownloadWorker.kt:119-131, 354-363).                           *)
THEOREM PartialFilesSoundCorrect == ASSUME OneRun PROVE Spec => []PartialFilesSound
<1>1. RunInv => PartialFilesSound
  BY RunSound
<1>. QED
  BY DownloadCorrect, <1>1, PTL

(* What a run installs is the whole model; less only without a checksum,   *)
(* by a run that nobody told the size or whose last flush failed           *)
(* (ModelDownloadWorker.kt:138-150, 265-306, 324-330).                     *)
THEOREM InstalledWholeCorrect == ASSUME OneRun PROVE Spec => InstalledWhole
<1>1. ASSUME RunInv, [Next]_vars
      PROVE  \A w \in Workers :
               pc[w] \in {"rename", "again"} /\ dest' # dest /\ dest' # NoFile
                 => dest' = Model \/ (unsure[w] /\ ~Checksummed)
  <2>. SUFFICES ASSUME NEW w \in Workers, dest' # dest, dest' # NoFile
                PROVE  dest' = Model \/ (unsure[w] /\ ~Checksummed)
    OBVIOUS
  <2>1. PICK v \in Workers : Rename(v) /\ Move
    BY <1>1, InstallStep
  <2>2. v = w
    BY DEF OneRun
  <2>3. pc[w] \in {"rename", "again"} /\ tmp # NoFile /\ dest' = tmp
    BY <2>1, <2>2 DEF Rename, Move
  <2>. QED
    BY <1>1, <2>3, MovedFile
<1>. QED
  BY DownloadCorrect, <1>1, PTL DEF Spec, InstalledWhole

(* With a checksum, or when every size is stated and no failing flush goes *)
(* unnoticed, nothing but the whole model ever has the final name          *)
(* (ModelDownloadWorker.kt:139-150).                                       *)
THEOREM NothingElseInstalledCorrect ==
  ASSUME OneRun, Checksummed \/ Announced PROVE Spec => []NothingElseInstalled
<1>1. RunInv => NothingElseInstalled
  BY DEF RunInv, Files, NothingElseInstalled
<1>. QED
  BY DownloadCorrect, <1>1, PTL

(* Success is reported only for a file that is there, the whole model if   *)
(* something tells.  Its renames may have failed: then it has its          *)
(* temporary name still (ModelDownloadWorker.kt:139-153).                  *)
THEOREM SuccessInstallsCorrect == ASSUME OneRun PROVE Spec => SuccessInstalls
<1>1. RunInv /\ [Next]_vars =>
        (work # "succeeded" /\ work' = "succeeded" =>
           /\ tmp # NoFile /\ (Checksummed \/ Announced => tmp = Model)
           /\ dest' = tmp \/ ("rename" \in Faults /\ tmp' = tmp))
  BY SuccessStep
<1>. QED
  BY DownloadCorrect, <1>1, PTL DEF Spec, SuccessInstalls

(* A complete part outlives stops, deaths and the failure of others        *)
(* (ModelDownloadWorker.kt:134, 354-363).                                  *)
THEOREM CompletePartsKeptCorrect == ASSUME OneRun PROVE Spec => CompletePartsKept
<1>1. RunInv /\ [Next]_vars =>
        \A i \in Chunks : part[i] = ChunkData(i) /\ part'[i] # part[i]
                            => InTmp(i) \/ \E w \in Workers : out[w] = "gone"
  BY KeptStep
<1>. QED
  BY DownloadCorrect, <1>1, PTL DEF Spec, CompletePartsKept

(* To the screen a download is DownloadWork: it fails or is tried again    *)
(* without touching what was installed, and outlives a stop only as a run  *)
(* that lingers.  Its success means that a model is offered if renames do  *)
(* not fail and there is a checksum or all sizes are stated; otherwise     *)
(* the old model may be gone instead (ModelDownloadWorker.kt:133-171).     *)
THEOREM WorkRefinement == ASSUME OneRun PROVE Spec => WorkSpec
<1>1. RunInv /\ WorkInv /\ [Next]_vars
        => WorkInv' /\ [Promised!Next]_(Promised!vars)
  <2>. SUFFICES ASSUME RunInv, WorkInv, [Next]_vars
                PROVE  WorkInv' /\ [Promised!Next]_(Promised!vars)
    OBVIOUS
  <2>1. CASE UNCHANGED vars
    BY <2>1, OfferedNext DEF vars, fileVars, workVars, WorkInv, Promised!vars
  <2>2. CASE Next
    BY <2>2, DisturbanceWork, WorkerWork DEF Next
  <2>. QED
    BY <2>1, <2>2
<1>. QED
  BY DownloadCorrect, WorkInit, <1>1, PTL DEF Spec, WorkSpec, Promised!Spec
=============================================================================
