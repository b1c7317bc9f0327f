---------------------------- MODULE ModelDownload ----------------------------
(***************************************************************************)
(* The download of one model: ModelDownloadWorker.kt, the WorkManager job  *)
(* that runs it, and the buttons of ModelCatalogViewModel.kt that start,   *)
(* pause and cancel it.                                                    *)
(*                                                                         *)
(* Stopping a worker only raises isStopped: its blocking calls go on until *)
(* the next check.  Workers is the set of runs that can be under way at    *)
(* once: with one, a stopped run is over before the next one starts; with  *)
(* two, it may still be writing.                                           *)
(***************************************************************************)
EXTENDS ChunkPlan, Sequences, SequencesExt

CONSTANTS
  Workers,      \* runs of doWork that may overlap
  Total,        \* blocks of the model
  Responses,    \* answers to a ranged request: "range" (206, 416), "whole"
                \* (200), "sizeless" (206, 416, the model's size not stated)
  Faults,       \* what can go wrong: "http" (another code), "io", "short" (a
                \* body of unstated length ends early), "flush", "rename"
  Checksummed,  \* the catalog has a SHA-256 for the model
  OfferedSize,  \* blocks a file must have for the catalog to offer it (1 MB)
  RetryLimit,   \* runs that may end in Result.retry (5)
  Events,       \* the disturbances that can happen, see Disturbance
  NoFile

(* The server states the size of the model always or never.  When it does  *)
(* not, the plan is made for the length of the probe's own body.           *)
ASSUME SizeAssumption ==
  /\ Total \in Nat /\ Planned <= Total /\ OfferedSize \in 1 .. Total
  /\ "range" \in Responses => "sizeless" \notin Responses /\ Planned = Total

ASSUME DownloadAssumption ==
  /\ RetryLimit \in Nat
  /\ Responses \subseteq {"range", "whole", "sizeless"}
  /\ Faults \subseteq {"http", "io", "short", "flush", "rename"}
  /\ Checksummed \in BOOLEAN
  /\ Events \subseteq {"download", "pause", "cancel", "delete", "interrupt", "death"}

(* What a file of at most n blocks can hold.  A missing file is none.      *)
Contents(n) == UNION {[1 .. k -> 0 .. Total] : k \in 0 .. n}

ASSUME NoFileAssumption == NoFile \notin Contents(Total)

(* A byte stands for a block. *)
Model == [k \in 1 .. Total |-> k]
Hole == 0
ChunkData(i) == SubSeq(Model, ChunkStart(i) + 1, ChunkStart(i) + ChunkLen(i))

VARIABLES
  tmp, part, dest,    \* the .tmp, .tmp.partNNN and final files
  work, attempt,      \* the unique work and its runAttemptCount
  pc, isStopped,      \* per run: where doWork is, whether it was stopped
  existing,           \* existingBytes; 0 once the server sends the whole file
  src,                \* blocks of the model read from the body or the parts
  buf,                \* blocks read and not yet written to the file
  out,                \* the file the run's output stream leads to
  chunk, off,         \* per run and byte range: downloadChunk, blocks written
  failed,             \* a downloadChunk of the run has thrown
  merged,             \* parts copied into the .tmp file and deleted
  unsure              \* history: the run, not stopped, may have less than the
                      \* model, and nothing it looked at says so

fileVars == <<tmp, part, dest>>
workVars == <<work, attempt>>
ioVars   == <<existing, src, buf, out>>
chunkVars == <<chunk, off, failed, merged, unsure>>
vars == <<fileVars, workVars, pc, isStopped, ioVars, chunkVars>>

Phases == {"off", "start", "probe", "ask", "single", "plan", "join", "merge",
           "unlink", "check", "rename", "again"}

NoChunks == [i \in Chunks |-> "none"]
NoOffset == [i \in Chunks |-> 0]

Init ==
  /\ tmp = NoFile /\ part = [i \in Chunks |-> NoFile] /\ dest = NoFile
  /\ work = "none" /\ attempt = 0
  /\ pc = [w \in Workers |-> "off"]
  /\ isStopped = [w \in Workers |-> FALSE]
  /\ existing = [w \in Workers |-> 0]
  /\ src = [w \in Workers |-> 0]
  /\ buf = [w \in Workers |-> <<>>]
  /\ out = [w \in Workers |-> "none"]
  /\ chunk = [w \in Workers |-> NoChunks]
  /\ off = [w \in Workers |-> NoOffset]
  /\ failed = [w \in Workers |-> FALSE]
  /\ merged = [w \in Workers |-> 0]
  /\ unsure = [w \in Workers |-> FALSE]

-----------------------------------------------------------------------------
(* Files.  A stream stays on its file when the file is renamed or deleted. *)

Length(f) == IF f = NoFile THEN 0 ELSE Len(f)

Longer(m, n) == IF m > n THEN m ELSE n

(* File f after data was written at offset p: past the end it leaves a     *)
(* hole.                                                                   *)
Overwrite(f, p, data) ==
  [k \in 1 .. (IF data = <<>> THEN Len(f) ELSE Longer(Len(f), p + Len(data))) |->
     IF k > p /\ k <= p + Len(data) THEN data[k - p]
     ELSE IF k <= Len(f) THEN f[k] ELSE Hole]

OutFile(w) ==
  IF out[w] = "tmp" THEN tmp ELSE IF out[w] = "dest" THEN dest ELSE <<>>

Write(w, content) ==
  /\ tmp' = IF out[w] = "tmp" THEN content ELSE tmp
  /\ dest' = IF out[w] = "dest" THEN content ELSE dest

Follow(name, new) ==
  [v \in Workers |-> IF out[v] = name THEN new ELSE out[v]]

(* Streams of other runs on part i, once it is deleted. *)
Unlinked(i) ==
  [v \in Workers |-> IF chunk[v][i] = "write"
                     THEN [chunk[v] EXCEPT ![i] = "lost"] ELSE chunk[v]]

-----------------------------------------------------------------------------
(* The unique work. *)

StopAll == isStopped' = [w \in Workers |-> pc[w] # "off"]

(* downloadModel: enqueueUniqueWork with REPLACE. *)
DownloadModel ==
  /\ work' = "enqueued"
  /\ attempt' = 0
  /\ StopAll
  /\ UNCHANGED <<fileVars, pc, ioVars, chunkVars>>

CancelUniqueWork ==
  /\ work' = IF work \in {"enqueued", "running"} THEN "cancelled" ELSE work
  /\ StopAll
  /\ UNCHANGED attempt

PauseDownload ==
  /\ CancelUniqueWork
  /\ UNCHANGED <<fileVars, pc, ioVars, chunkVars>>

(* Mutant of CancelDownload: the installed model is deleted with the .tmp   *)
(* file that was to replace it.                                            *)
CancelAll ==
  /\ CancelUniqueWork
  /\ tmp' = NoFile /\ dest' = NoFile
  /\ out' = [v \in Workers |-> IF out[v] = "none" THEN "none" ELSE "gone"]
  /\ UNCHANGED <<part, pc, existing, src, buf, chunkVars>>

(* cancelDownload also deletes the .tmp file, but no part.                 *)
CancelDownload ==
  /\ CancelUniqueWork
  /\ tmp' = NoFile
  /\ out' = Follow("tmp", "gone")
  /\ UNCHANGED <<part, dest, pc, existing, src, buf, chunkVars>>

DeleteModel ==
  /\ dest' = NoFile
  /\ out' = Follow("dest", "gone")
  /\ UNCHANGED <<tmp, part, workVars, pc, isStopped, existing, src, buf, chunkVars>>

NextAttempt == IF attempt < RetryLimit THEN attempt + 1 ELSE attempt

(* The network constraint is no longer met, or the system stops the job.   *)
Interrupt ==
  /\ work = "running"
  /\ work' = "enqueued"
  /\ attempt' = NextAttempt
  /\ StopAll
  /\ UNCHANGED <<fileVars, pc, ioVars, chunkVars>>

Start(w) ==
  /\ work = "enqueued"
  /\ pc[w] = "off"
  /\ work' = "running"
  /\ pc' = [pc EXCEPT ![w] = "start"]
  /\ isStopped' = [isStopped EXCEPT ![w] = FALSE]
  /\ UNCHANGED <<fileVars, attempt, ioVars, chunkVars>>

(* doWork returns.  The result of a stopped run is not looked at.          *)
Settle(w, result) ==
  /\ pc' = [pc EXCEPT ![w] = "off"]
  /\ work' = IF isStopped[w] THEN work ELSE result
  /\ attempt' = IF ~isStopped[w] /\ result = "enqueued" THEN NextAttempt ELSE attempt
  /\ isStopped' = [isStopped EXCEPT ![w] = FALSE]
  /\ existing' = [existing EXCEPT ![w] = 0]
  /\ src' = [src EXCEPT ![w] = 0]
  /\ buf' = [buf EXCEPT ![w] = <<>>]
  /\ chunk' = [chunk EXCEPT ![w] = NoChunks]
  /\ off' = [off EXCEPT ![w] = NoOffset]
  /\ failed' = [failed EXCEPT ![w] = FALSE]
  /\ merged' = [merged EXCEPT ![w] = 0]
  /\ unsure' = [unsure EXCEPT ![w] = FALSE]

Close(w) == out' = [out EXCEPT ![w] = "none"]

(* Mutant of ThrowIO: runAttemptCount is not looked at.                     *)
AlwaysRetry(w) == Settle(w, "enqueued")

(* An IOException is retried a few times, any other exception is final.    *)
ThrowIO(w) == Settle(w, IF attempt < RetryLimit THEN "enqueued" ELSE "failed")
Throw(w)   == Settle(w, "failed")

Go(w, phase) == pc' = [pc EXCEPT ![w] = phase]

RequestFails(w) ==
  /\ \/ "io" \in Faults /\ ThrowIO(w)
     \/ "http" \in Faults /\ Throw(w)
  /\ UNCHANGED <<fileVars, out>>

-----------------------------------------------------------------------------
(* downloadSingleStream. *)

(* 206 for a range of the file, with or without its size. *)
Ranged == Responses \cap {"range", "sizeless"} # {}

(* A .tmp file that exists is finished with one stream.                    *)
ReadLength(w) ==
  /\ pc[w] = "start"
  /\ existing' = [existing EXCEPT ![w] = Length(tmp)]
  /\ Go(w, IF Length(tmp) > 0 THEN "ask" ELSE "probe")
  /\ UNCHANGED <<fileVars, workVars, isStopped, src, buf, out, chunkVars>>

OpenTmp(w, content, position) ==
  /\ tmp' = content
  /\ existing' = [existing EXCEPT ![w] = position]
  /\ src' = [src EXCEPT ![w] = position]
  /\ out' = [out EXCEPT ![w] = "tmp"]
  /\ Go(w, "single")
  /\ UNCHANGED <<part, dest, workVars, isStopped, buf, chunkVars>>

(* 206: append what is missing. *)
AppendFrom(w) ==
  /\ pc[w] = "ask"
  /\ Ranged
  /\ 0 < existing[w] /\ existing[w] < Total
  /\ OpenTmp(w, IF tmp = NoFile THEN <<>> ELSE tmp, existing[w])

(* Mutant of StartOver: the whole file is appended to what is there.       *)
AppendWhole(w) ==
  /\ pc[w] = "ask"
  /\ "whole" \in Responses \/ existing[w] = 0
  /\ tmp' = IF tmp = NoFile THEN <<>> ELSE tmp
  /\ src' = [src EXCEPT ![w] = 0]
  /\ out' = [out EXCEPT ![w] = "tmp"]
  /\ Go(w, "single")
  /\ UNCHANGED <<part, dest, workVars, isStopped, existing, buf, chunkVars>>

(* 200: the whole file again. *)
StartOver(w) ==
  /\ pc[w] = "ask"
  /\ "whole" \in Responses \/ existing[w] = 0
  /\ OpenTmp(w, <<>>, 0)

(* 416: nothing lies behind the offset asked for. *)
RangeRefused(w) ==
  /\ pc[w] = "ask"
  /\ Ranged
  /\ existing[w] >= Total
  /\ Throw(w)
  /\ UNCHANGED <<fileVars, out>>

AskFails(w) == pc[w] = "ask" /\ RequestFails(w)

(* The output is buffered: it follows what was read.                       *)
SingleRead(w) ==
  /\ pc[w] = "single"
  /\ ~isStopped[w]
  /\ src[w] < Total
  /\ buf[w] = <<>>
  /\ buf' = [buf EXCEPT ![w] = <<Model[src[w] + 1]>>]
  /\ src' = [src EXCEPT ![w] = @ + 1]
  /\ UNCHANGED <<fileVars, workVars, pc, isStopped, existing, out, chunkVars>>

(* Where the buffer goes: to the end of the file in append mode, else to   *)
(* the stream's own position.                                              *)
Flushed(w) ==
  LET f == OutFile(w)
  IN  Overwrite(f, IF existing[w] > 0 THEN Len(f) ELSE src[w] - Len(buf[w]), buf[w])

SingleFlush(w) ==
  /\ pc[w] = "single"
  /\ buf[w] # <<>>
  /\ Write(w, Flushed(w))
  /\ buf' = [buf EXCEPT ![w] = <<>>]
  /\ UNCHANGED <<part, workVars, pc, isStopped, existing, src, out, chunkVars>>

(* The last flush, before the file is closed: nobody looks at its failure. *)
LastFlush(w) == Write(w, Flushed(w))
FlushLost(w) == "flush" \in Faults /\ buf[w] # <<>> /\ UNCHANGED <<tmp, dest>>

BodyOver(w) ==
  /\ buf' = [buf EXCEPT ![w] = <<>>]
  /\ Close(w)
  /\ Go(w, "check")
  /\ UNCHANGED <<part, workVars, isStopped, existing, src, chunk, off, failed, merged>>

(* The body has ended, or the run was stopped.  What was read is compared  *)
(* with no length: an end that comes early is an end.                      *)
SingleEnd(w) ==
  /\ pc[w] = "single"
  /\ src[w] = Total \/ isStopped[w] \/ "short" \in Faults
  /\ \/ /\ LastFlush(w)
        /\ unsure' = [unsure EXCEPT ![w] = src[w] < Total /\ ~isStopped[w]]
     \/ /\ FlushLost(w)
        /\ unsure' = [unsure EXCEPT ![w] = ~isStopped[w]]
  /\ BodyOver(w)

(* A body of stated length that breaks off, or a write that fails.         *)
BodyBreaks(w) ==
  /\ pc[w] = "single"
  /\ "io" \in Faults
  /\ LastFlush(w) \/ FlushLost(w)
  /\ Close(w)
  /\ ThrowIO(w)
  /\ UNCHANGED part

-----------------------------------------------------------------------------
(* downloadParallelChunked. *)

(* An answer that is not 206. *)
RangeIgnored == "whole" \in Responses \/ "http" \in Faults

(* A 206 is planned for with the size it states, else with the length of   *)
(* its own body; of unstated length too, it is taken for a 200.            *)
ProbeRange(w) ==
  /\ pc[w] = "probe"
  /\ \/ Ranged /\ Go(w, "plan")
     \/ (RangeIgnored \/ "sizeless" \in Responses) /\ Go(w, "ask")
  /\ UNCHANGED <<fileVars, workVars, isStopped, ioVars, chunkVars>>

ProbeFails(w) ==
  /\ pc[w] = "probe"
  /\ "io" \in Faults
  /\ ThrowIO(w)
  /\ UNCHANGED <<fileVars, out>>

(* Mutant of Pending: no part is kept.                                     *)
RestartAll == Chunks

Pending == {i \in Chunks : Length(part[i]) # ChunkLen(i)}

(* Complete parts are kept, the others deleted and asked for again.  A     *)
(* stopped run starts no coroutine.                                        *)
PlanChunks(w) ==
  /\ pc[w] = "plan"
  /\ part' = [i \in Chunks |-> IF i \in Pending THEN NoFile ELSE part[i]]
  /\ chunk' = [v \in Workers |->
                 IF v = w
                 THEN [i \in Chunks |-> IF i \in Pending /\ ~isStopped[w]
                                        THEN "ask" ELSE "none"]
                 ELSE [i \in Chunks |-> IF i \in Pending /\ chunk[v][i] = "write"
                                        THEN "lost" ELSE chunk[v][i]]]
  /\ Go(w, "join")
  /\ UNCHANGED <<tmp, dest, workVars, isStopped, ioVars, off, failed, merged, unsure>>

SetChunk(w, i, s) == chunk' = [chunk EXCEPT ![w][i] = s]

(* The part is truncated once the response is there, stopped or not.       *)
OpenPart(w, i) ==
  /\ chunk[w][i] = "ask"
  /\ Ranged
  /\ part' = [part EXCEPT ![i] = <<>>]
  /\ SetChunk(w, i, "write")
  /\ UNCHANGED <<tmp, dest, workVars, pc, isStopped, ioVars, off, failed, merged, unsure>>

WriteBlock(w, i) ==
  /\ chunk[w][i] \in {"write", "lost"}
  /\ ~isStopped[w]
  /\ off[w][i] < ChunkLen(i)
  /\ part' = IF chunk[w][i] = "write"
             THEN [part EXCEPT ![i] =
                     Overwrite(@, off[w][i], <<ChunkData(i)[off[w][i] + 1]>>)]
             ELSE part
  /\ off' = [off EXCEPT ![w][i] = @ + 1]
  /\ UNCHANGED <<tmp, dest, workVars, pc, isStopped, ioVars, chunk, failed, merged, unsure>>

(* A stopped run keeps what it has; another one checks the length.         *)
EndPart(w, i) ==
  /\ chunk[w][i] \in {"write", "lost"}
  /\ off[w][i] = ChunkLen(i) \/ isStopped[w] \/ "short" \in Faults
  /\ IF isStopped[w] \/ Length(part[i]) = ChunkLen(i)
     THEN SetChunk(w, i, "done") /\ UNCHANGED <<part, failed>>
     ELSE /\ part' = [part EXCEPT ![i] = NoFile]
          /\ chunk' = [Unlinked(i) EXCEPT ![w][i] = "done"]
          /\ failed' = [failed EXCEPT ![w] = TRUE]
  /\ UNCHANGED <<tmp, dest, workVars, pc, isStopped, ioVars, off, merged, unsure>>

(* Its IOException cancels the siblings, which only keeps those that have  *)
(* not begun from beginning.                                               *)
ChunkFails(w, i) ==
  /\ chunk[w][i] \in {"ask", "write", "lost"}
  /\ \/ "io" \in Faults
     \/ chunk[w][i] = "ask" /\ RangeIgnored
  /\ SetChunk(w, i, "done")
  /\ failed' = [failed EXCEPT ![w] = TRUE]
  /\ UNCHANGED <<fileVars, workVars, pc, isStopped, ioVars, off, merged, unsure>>

SkipChunk(w, i) ==
  /\ chunk[w][i] = "ask"
  /\ failed[w] \/ isStopped[w]
  /\ SetChunk(w, i, "done")
  /\ UNCHANGED <<fileVars, workVars, pc, isStopped, ioVars, off, failed, merged, unsure>>

Joined(w) == pc[w] = "join" /\ \A i \in Chunks : chunk[w][i] \in {"none", "done"}

(* mergeParts truncates the .tmp file and appends part after part.         *)
StartMerge(w) ==
  /\ Joined(w)
  /\ ~failed[w]
  /\ ~isStopped[w]
  /\ tmp' = <<>>
  /\ out' = [out EXCEPT ![w] = "tmp"]
  /\ off' = [off EXCEPT ![w] = NoOffset]
  /\ chunk' = [chunk EXCEPT ![w] = NoChunks]
  /\ Go(w, "merge")
  /\ UNCHANGED <<part, dest, workVars, isStopped, existing, src, buf, failed, merged, unsure>>

(* Mutant of GiveUp: the stop is not looked at after the join.             *)
GiveUpFailed(w) ==
  /\ Joined(w)
  /\ failed[w]
  /\ ThrowIO(w)
  /\ UNCHANGED <<fileVars, out>>

GiveUp(w) ==
  /\ Joined(w)
  /\ failed[w] \/ isStopped[w]
  /\ ThrowIO(w)
  /\ UNCHANGED <<fileVars, out>>

MergeCopy(w) ==
  /\ pc[w] = "merge"
  /\ merged[w] < NChunks
  /\ part[merged[w]] # NoFile
  /\ Write(w, Overwrite(OutFile(w), src[w], part[merged[w]]))
  /\ src' = [src EXCEPT ![w] = @ + Len(part[merged[w]])]
  /\ Go(w, "unlink")
  /\ UNCHANGED <<part, workVars, isStopped, existing, buf, out, chunkVars>>

MergeMissing(w) ==
  /\ pc[w] = "merge"
  /\ merged[w] < NChunks
  /\ part[merged[w]] = NoFile
  /\ Close(w)
  /\ ThrowIO(w)
  /\ UNCHANGED fileVars

(* A write fails on a full disk: what fitted stays, and so does the part.  *)
MergeBreaks(w) ==
  /\ pc[w] = "merge"
  /\ "io" \in Faults
  /\ merged[w] < NChunks
  /\ part[merged[w]] # NoFile
  /\ \E n \in 0 .. Len(part[merged[w]]) :
       Write(w, Overwrite(OutFile(w), src[w], SubSeq(part[merged[w]], 1, n)))
  /\ Close(w)
  /\ ThrowIO(w)
  /\ UNCHANGED part

MergeDelete(w) ==
  /\ pc[w] = "unlink"
  /\ part' = [part EXCEPT ![merged[w]] = NoFile]
  /\ chunk' = Unlinked(merged[w])
  /\ merged' = [merged EXCEPT ![w] = @ + 1]
  /\ Go(w, "merge")
  /\ UNCHANGED <<tmp, dest, workVars, isStopped, ioVars, off, failed, unsure>>

MergeEnd(w) ==
  /\ pc[w] = "merge"
  /\ merged[w] = NChunks
  /\ Close(w)
  /\ Go(w, "check")
  /\ unsure' = [unsure EXCEPT ![w] = Planned < Total]
  /\ UNCHANGED <<fileVars, workVars, isStopped, existing, src, buf>>
  /\ UNCHANGED <<chunk, off, failed, merged>>

-----------------------------------------------------------------------------
(* The end of doWork. *)

Stopped(w) ==
  /\ pc[w] = "check"
  /\ isStopped[w]
  /\ Settle(w, "enqueued")
  /\ UNCHANGED <<fileVars, out>>

Verified == Checksummed => tmp = Model

(* Mutant of Verify: a stopped run goes on to install what it has.         *)
VerifyStopped(w) ==
  /\ pc[w] = "check"
  /\ Verified
  /\ Go(w, "rename")
  /\ UNCHANGED <<fileVars, workVars, isStopped, ioVars, chunkVars>>

Verify(w) ==
  /\ pc[w] = "check"
  /\ ~isStopped[w]
  /\ Verified
  /\ Go(w, "rename")
  /\ UNCHANGED <<fileVars, workVars, isStopped, ioVars, chunkVars>>

Reject(w) ==
  /\ pc[w] = "check"
  /\ ~isStopped[w]
  /\ ~Verified
  /\ tmp' = NoFile
  /\ out' = Follow("tmp", "gone")
  /\ Throw(w)
  /\ UNCHANGED <<part, dest>>

Move ==
  /\ tmp # NoFile
  /\ dest' = tmp
  /\ tmp' = NoFile
  /\ out' = [v \in Workers |-> CASE out[v] = "tmp" -> "dest"
                                 [] out[v] = "dest" -> "gone"
                                 [] OTHER -> out[v]]

(* A first rename that fails over an existing file: that file is deleted.  *)
RemoveOld(w) ==
  /\ pc[w] = "rename"
  /\ "rename" \in Faults
  /\ tmp # NoFile /\ dest # NoFile
  /\ dest' = NoFile
  /\ out' = Follow("dest", "gone")
  /\ Go(w, "again")
  /\ UNCHANGED <<tmp, part, workVars, isStopped, existing, src, buf, chunkVars>>

(* Mutant of Rename: the .tmp file is tidied up, whatever the renames did. *)
RenameTidy(w) ==
  /\ pc[w] \in {"rename", "again"}
  /\ \/ Move
     \/ /\ tmp = NoFile \/ "rename" \in Faults
        /\ tmp' = NoFile /\ dest' = dest /\ out' = Follow("tmp", "gone")
  /\ Settle(w, "succeeded")
  /\ UNCHANGED part

(* The only rename, or the last: one that fails, because the disk does or  *)
(* the .tmp file is gone, is a success too.                                *)
Rename(w) ==
  /\ pc[w] \in {"rename", "again"}
  /\ \/ Move
     \/ (tmp = NoFile \/ "rename" \in Faults) /\ UNCHANGED <<tmp, dest, out>>
  /\ Settle(w, "succeeded")
  /\ UNCHANGED part

(* The process dies: buffers are lost, files and the work stay.            *)
ProcessDeath ==
  /\ pc' = [w \in Workers |-> "off"]
  /\ isStopped' = [w \in Workers |-> FALSE]
  /\ existing' = [w \in Workers |-> 0]
  /\ src' = [w \in Workers |-> 0]
  /\ buf' = [w \in Workers |-> <<>>]
  /\ out' = [w \in Workers |-> "none"]
  /\ chunk' = [w \in Workers |-> NoChunks]
  /\ off' = [w \in Workers |-> NoOffset]
  /\ failed' = [w \in Workers |-> FALSE]
  /\ merged' = [w \in Workers |-> 0]
  /\ unsure' = [w \in Workers |-> FALSE]
  /\ work' = IF work = "running" THEN "enqueued" ELSE work
  /\ attempt' = IF work = "running" THEN NextAttempt ELSE attempt
  /\ UNCHANGED fileVars

ChunkStep(w, i) ==
  \/ OpenPart(w, i) \/ WriteBlock(w, i) \/ EndPart(w, i)
  \/ ChunkFails(w, i) \/ SkipChunk(w, i)

WorkerStep(w) ==
  \/ ReadLength(w) \/ AppendFrom(w) \/ StartOver(w) \/ RangeRefused(w) \/ AskFails(w)
  \/ SingleRead(w) \/ SingleFlush(w) \/ SingleEnd(w) \/ BodyBreaks(w)
  \/ ProbeRange(w) \/ ProbeFails(w) \/ PlanChunks(w)
  \/ \E i \in Chunks : ChunkStep(w, i)
  \/ StartMerge(w) \/ GiveUp(w)
  \/ MergeCopy(w) \/ MergeMissing(w) \/ MergeBreaks(w) \/ MergeDelete(w) \/ MergeEnd(w)
  \/ Stopped(w) \/ Verify(w) \/ Reject(w) \/ RemoveOld(w) \/ Rename(w)

(* What the user, the system and the battery do. *)
Disturbance ==
  \/ "download" \in Events /\ DownloadModel
  \/ "pause" \in Events /\ PauseDownload
  \/ "cancel" \in Events /\ CancelDownload
  \/ "delete" \in Events /\ DeleteModel
  \/ "interrupt" \in Events /\ Interrupt
  \/ "death" \in Events /\ ProcessDeath

Next == Disturbance \/ \E w \in Workers : Start(w) \/ WorkerStep(w)

Spec == Init /\ [][Next]_vars

(* WorkManager runs enqueued work once the network is there, and every     *)
(* request has a time limit.                                               *)
FairSpec == Spec /\ \A w \in Workers : WF_vars(Start(w)) /\ WF_vars(WorkerStep(w))
-----------------------------------------------------------------------------
(* Properties. *)

(* Every variable keeps its type: in particular no file grows past the     *)
(* model, no run merges more parts than there are and no run is numbered   *)
(* past the limit.                                                         *)
TypeOK ==
  /\ tmp \in {NoFile} \cup Contents(Total)
  /\ part \in [Chunks -> {NoFile} \cup Contents(ChunkSize)]
  /\ dest \in {NoFile} \cup Contents(Total)
  /\ work \in {"none", "enqueued", "running", "succeeded", "failed", "cancelled"}
  /\ attempt \in 0 .. RetryLimit
  /\ pc \in [Workers -> Phases]
  /\ isStopped \in [Workers -> BOOLEAN]
  /\ existing \in [Workers -> 0 .. Total]
  /\ src \in [Workers -> 0 .. Total]
  /\ buf \in [Workers -> Contents(1)]
  /\ out \in [Workers -> {"none", "tmp", "dest", "gone"}]
  /\ chunk \in [Workers -> [Chunks -> {"none", "ask", "write", "lost", "done"}]]
  /\ off \in [Workers -> [Chunks -> 0 .. ChunkSize]]
  /\ failed \in [Workers -> BOOLEAN]
  /\ merged \in [Workers -> 0 .. NChunks]
  /\ unsure \in [Workers -> BOOLEAN]

(* Whatever was interrupted, wherever, what is on disk can be resumed: the *)
(* .tmp file is a prefix of the model and each part a prefix of its range, *)
(* so appending and keeping complete parts is right                        *)
(* (ModelDownloadWorker.kt:119-131, 354-363).                              *)
PartialFilesSound ==
  /\ tmp # NoFile => IsPrefix(tmp, Model)
  /\ \A i \in Chunks : part[i] # NoFile => IsPrefix(part[i], ChunkData(i))

(* What a run installs is the whole model, over stops, faults and resumed  *)
(* files.  Less is installed only without a checksum, and only by a run    *)
(* that nobody told the model's size, or whose last flush failed           *)
(* (ModelDownloadWorker.kt:138-150, 265-306, 324-330).                     *)
InstalledWhole ==
  [][\A w \in Workers :
       pc[w] \in {"rename", "again"} /\ dest' # dest /\ dest' # NoFile
         => dest' = Model \/ (unsure[w] /\ ~Checksummed)]_vars

(* All sizes are stated, and a flush that fails is noticed. *)
Announced == Planned = Total /\ Faults \cap {"short", "flush"} = {}

(* Then, or with a checksum, nothing but the model is ever installed       *)
(* (ModelDownloadWorker.kt:139-150).                                       *)
NothingElseInstalled == dest # NoFile => dest = Model

(* Result.success is returned only when there is a file to install, the    *)
(* whole model if there is a checksum or all sizes are stated.  It then    *)
(* has its final name, or, if the renames failed, its temporary one        *)
(* (ModelDownloadWorker.kt:139-153).                                       *)
SuccessInstalls ==
  [][work # "succeeded" /\ work' = "succeeded" =>
       /\ tmp # NoFile /\ (Checksummed \/ Announced => tmp = Model)
       /\ dest' = tmp \/ ("rename" \in Faults /\ tmp' = tmp)]_vars

(* To the screen it is a work that fails, is cancelled or is tried again   *)
(* without touching the model that was installed, and goes on behind the   *)
(* screen's back only where a run was stopped too late.  Its success means *)
(* that a model is offered only if renames do not fail and there is a      *)
(* checksum or all sizes are stated (ModelDownloadWorker.kt:133-171,       *)
(* ModelCatalogViewModel.kt:81, 126, 143).                                 *)
Offered == dest # NoFile /\ Len(dest) >= OfferedSize
Dependable == "rename" \notin Faults /\ (Checksummed \/ Announced)
Promised == INSTANCE DownloadWork WITH installed <- Offered, Reliable <- Dependable,
                                       lingering <- \E w \in Workers : isStopped[w]
WorkSpec == Promised!Spec

(* A part that is complete is given up only once its bytes are in the .tmp *)
(* file, or the user has thrown that file away: stops, deaths and failures *)
(* of other parts leave it alone (ModelDownloadWorker.kt:134, 354-363).    *)
InTmp(i) ==
  IF tmp = NoFile THEN FALSE
  ELSE Len(tmp) >= ChunkStart(i) + ChunkLen(i)
       /\ SubSeq(tmp, ChunkStart(i) + 1, ChunkStart(i) + ChunkLen(i)) = ChunkData(i)

CompletePartsKept ==
  [][\A i \in Chunks :
       part[i] = ChunkData(i) /\ part'[i] # part[i]
         => InTmp(i) \/ \E w \in Workers : out[w] = "gone"]_vars

(* Once nobody disturbs it any more, a download ends: it succeeds, fails   *)
(* for good after RetryLimit runs, or stays cancelled.                     *)
DownloadEnds ==
  <>[][~Disturbance]_vars => <>[](work \notin {"enqueued", "running"})

(* A stopped run ends by itself, wherever the stop met it and whatever the *)
(* next run does to its files: the isStopped checks reach every wait       *)
(* (ModelDownloadWorker.kt:133, 266, 375, 411).                            *)
StoppedRunEnds == \A w \in Workers : isStopped[w] ~> ~isStopped[w]

(* docs/aeos-v2027/17_ADR_REGISTRY.md:12, README.md:59: what is installed *)
(* has been verified, so a download that succeeded has the model's bytes.  *)
SucceededIntact == work = "succeeded" /\ dest # NoFile => dest = Model
=============================================================================
