--------------------------- MODULE AuditRecording ---------------------------
(***************************************************************************)
(* The recording of one session: its files and its audit entry.            *)
(*                                                                         *)
(*   lib/SessionManager.js      every remove() of the session finalises    *)
(*                              the recording and marks the audit entry    *)
(*   utils/recordingService.js  compression, pick-up after a start,        *)
(*                              orphans, retention                         *)
(*   controllers/audit.js       every closing socket writes a duration     *)
(*                              into the same column; old entries go       *)
(*                                                                         *)
(* Recordings share nothing.  An action is the code between two awaits, or *)
(* one query.  The process may stop at any moment, whether it crashes or   *)
(* is updated: memory is lost, files and rows stay.                        *)
(***************************************************************************)
EXTENDS Naturals

CONSTANTS Removals,   \* calls of remove() that reach the finalisation
          Sockets,    \* sockets of the session, whose closing writes a duration
          MaxStops    \* stops of the process that are explored

ASSUME StopAssumption == MaxStops \in Nat

VARIABLES
  kind,     \* "cast": a terminal, written by INFRA-W; "guac": written by guacd
  session,  \* "on", "ending" (a remove() finalises), "over"
  raw,      \* the raw file: "none", "growing", "full"
  gz,       \* the compressed file: "none", "torn" (being written, or cut off by a
            \* stop), "failed" (left by a failed copy), "cut" (of a growing file), "full"
  entry,    \* the audit entry exists
  has,      \* its details say hasRecording
  old,      \* the entry is older than the retention of recordings
  fin,      \* where each finalisation stands
  closing,  \* where the close handler of each socket stands
  service,  \* where the recording service stands, "off" while the process is down
  stops     \* stops of the process so far

files == <<raw, gz>>
row == <<entry, has>>
vars == <<kind, session, files, row, old, fin, closing, service, stops>>

TypeOK ==
  /\ kind \in {"cast", "guac"}
  /\ session \in {"on", "ending", "over"}
  /\ raw \in {"none", "growing", "full"}
  /\ gz \in {"none", "torn", "failed", "cut", "full"}
  /\ entry \in BOOLEAN /\ has \in {FALSE, entry} /\ old \in BOOLEAN
  /\ fin \in [Removals -> {"idle", "flush", "check", "open", "copy", "unlink", "find", "write", "done"}]
  /\ closing \in [Sockets -> {"open", "write", "done"}]
  /\ service \in {"off", "wait", "copy", "cut", "unlink", "orphans", "idle", "delete", "update"}
  /\ stops \in 0..MaxStops

\* A session is being recorded, by a process that just started or runs for long.
Init ==
  /\ kind \in {"cast", "guac"}
  /\ session = "on"
  /\ raw = "growing" /\ gz = "none"
  /\ entry = TRUE /\ has = FALSE /\ old = FALSE
  /\ fin = [f \in Removals |-> "idle"]
  /\ closing = [c \in Sockets |-> "open"]
  /\ service \in {"wait", "idle"}
  /\ stops = 0

Copying == {f \in Removals : fin[f] = "copy"}

\* The compressed file once f, or the pick-up, has written it with content c
\* while others, if any, still write over it; a deleted one stays deleted.
Written(others, c) ==
  IF gz = "none" THEN "none" ELSE IF others THEN "torn" ELSE c

\* The same once f, or the pick-up, has failed to write it.
Spoilt(others) == Written(others, "failed")

----------------------------------------------------------------------------
(* Finalisation *)

\* remove() reaches the recording: a terminal's is taken by the first call, a
\* desktop's is found by each call until the session has left the table.
Finalise(f) ==
  /\ fin[f] = "idle"
  /\ session = "on" \/ (session = "ending" /\ kind = "guac")
  /\ session' = "ending"
  /\ fin' = [fin EXCEPT ![f] = "flush"]
  /\ UNCHANGED <<kind, files, row, old, closing, service, stops>>

\* The stream ends, or guacd, whose connection was cut, finishes its file.
RawEnds ==
  /\ raw = "growing" /\ session # "on"
  /\ raw' = "full"
  /\ UNCHANGED <<kind, session, gz, row, old, fin, closing, service, stops>>

\* Mutant: the wait for the file has no deadline
FlushedBug(f) ==
  /\ fin[f] = "flush" /\ raw = "full"
  /\ fin' = [fin EXCEPT ![f] = "check"]
  /\ UNCHANGED <<kind, session, files, row, old, closing, service, stops>>

\* "finish" of the stream, or waitForStableFile: guacd is taken to end within
\* its five seconds, the pick-up to copy what it met within its first checks.
Flushed(f) ==
  /\ fin[f] = "flush" /\ raw # "growing" /\ service \notin {"copy", "cut", "unlink"}
  /\ fin' = [fin EXCEPT ![f] = "check"]
  /\ UNCHANGED <<kind, session, files, row, old, closing, service, stops>>

\* The finalisation f returns, and remove() takes the session off the table.
Return(f) ==
  /\ fin' = [fin EXCEPT ![f] = "done"]
  /\ session' = "over"

\* Mutant: a failed compression counts as a recording of a desktop, too
CompressedBug(f, ok) ==
  /\ fin' = [fin EXCEPT ![f] = "find"]
  /\ UNCHANGED session

\* What f does with the result of compressRecording: a terminal is marked in
\* any case.
Compressed(f, ok) ==
  \/ /\ ok \/ kind = "cast"
     /\ fin' = [fin EXCEPT ![f] = "find"]
     /\ UNCHANGED session
  \/ /\ ~ok /\ kind = "guac"
     /\ Return(f)

\* compressRecording asks whether its source is there and opens both files.
Check(f) ==
  /\ fin[f] = "check"
  /\ \/ /\ raw # "none"
        /\ fin' = [fin EXCEPT ![f] = "open"]
        /\ UNCHANGED session
     \/ /\ raw = "none"
        /\ Compressed(f, FALSE)
  /\ UNCHANGED <<kind, files, row, old, closing, service, stops>>

\* The thread pool opens them: the target is emptied, whether or not the source
\* is still there.
Open(f) ==
  /\ fin[f] = "open"
  /\ gz' = "torn"
  /\ \/ /\ raw # "none"
        /\ fin' = [fin EXCEPT ![f] = "copy"]
        /\ UNCHANGED session
     \/ /\ raw = "none"
        /\ Compressed(f, FALSE)
  /\ UNCHANGED <<kind, raw, row, old, closing, service, stops>>

\* The write ends; the target is closed before the source is removed.
CopyDone(f) ==
  /\ fin[f] = "copy"
  /\ gz' = Written(Copying # {f} \/ service = "copy", "full")
  /\ fin' = [fin EXCEPT ![f] = "unlink"]
  /\ UNCHANGED <<kind, session, raw, row, old, closing, service, stops>>

\* unlinkSync: removing a source that is gone already counts as a failure.
Unlink(f) ==
  /\ fin[f] = "unlink"
  /\ raw' = "none"
  /\ Compressed(f, raw # "none")
  /\ UNCHANGED <<kind, gz, row, old, closing, service, stops>>

\* Mutant: the source is removed whether or not the copy succeeded
CopyFailsBug(f) ==
  /\ fin[f] = "copy"
  /\ raw' = "none"
  /\ Compressed(f, FALSE)
  /\ UNCHANGED <<kind, gz, row, old, closing, service, stops>>

\* The disk is full, or the source cannot be removed: both files stay.
CopyFails(f) ==
  /\ \/ fin[f] = "copy" /\ gz' = Spoilt(Copying # {f} \/ service = "copy")
     \/ fin[f] = "unlink" /\ UNCHANGED gz
  /\ Compressed(f, FALSE)
  /\ UNCHANGED <<kind, raw, row, old, closing, service, stops>>

\* markRecordingComplete: findByPk, then the update
MarkFind(f) ==
  /\ fin[f] = "find"
  /\ \/ entry /\ fin' = [fin EXCEPT ![f] = "write"] /\ UNCHANGED session
     \/ ~entry /\ Return(f)
  /\ UNCHANGED <<kind, files, row, old, closing, service, stops>>

\* Mutant: the row is written anew when it is gone
MarkWriteBug(f) ==
  /\ fin[f] = "write"
  /\ has' = TRUE
  /\ Return(f)
  /\ UNCHANGED <<kind, files, entry, old, closing, service, stops>>

MarkWrite(f) ==
  /\ fin[f] = "write"
  /\ has' = entry
  /\ Return(f)
  /\ UNCHANGED <<kind, files, entry, old, closing, service, stops>>

----------------------------------------------------------------------------
(* The duration that a closing socket writes *)

\* findByPk; a recording's duration is left alone.
DurationFind(c) ==
  /\ closing[c] = "open" /\ service # "off"
  /\ closing' = [closing EXCEPT ![c] = IF entry /\ ~has THEN "write" ELSE "done"]
  /\ UNCHANGED <<kind, session, files, row, old, fin, service, stops>>

\* The details as they were found are written back.
DurationWrite(c) ==
  /\ closing[c] = "write"
  /\ has' = FALSE
  /\ closing' = [closing EXCEPT ![c] = "done"]
  /\ UNCHANGED <<kind, session, files, entry, old, fin, service, stops>>

----------------------------------------------------------------------------
(* The recording service *)

\* compressUnfinishedRecordings, ten seconds after the start, sees the files
\* that guacd names, also one that guacd is still writing.
PickUp ==
  /\ service = "wait"
  /\ \/ /\ kind = "guac" /\ raw # "none"
        /\ gz' = "torn"
        /\ service' = IF raw = "growing" THEN "cut" ELSE "copy"
     \/ /\ ~(kind = "guac" /\ raw # "none")
        /\ service' = "orphans"
        /\ UNCHANGED gz
  /\ UNCHANGED <<kind, session, raw, row, old, fin, closing, stops>>

PickUpDone ==
  /\ service \in {"copy", "cut"}
  /\ gz' = Written(Copying # {}, IF service = "copy" THEN "full" ELSE "cut")
  /\ service' = "unlink"
  /\ UNCHANGED <<kind, session, raw, row, old, fin, closing, stops>>

PickUpUnlink ==
  /\ service = "unlink"
  /\ raw' = "none"
  /\ service' = "orphans"
  /\ UNCHANGED <<kind, session, gz, row, old, fin, closing, stops>>

PickUpFails ==
  /\ \/ service \in {"copy", "cut"} /\ gz' = Spoilt(Copying # {})
     \/ service = "unlink" /\ UNCHANGED gz
  /\ service' = "orphans"
  /\ UNCHANGED <<kind, session, raw, row, old, fin, closing, stops>>

\* Mutant: a recording that is not marked yet counts as an orphan
OrphansBug ==
  /\ service = "orphans"
  /\ raw' = IF has THEN raw ELSE "none"
  /\ gz' = IF has THEN gz ELSE "none"
  /\ service' = "idle"
  /\ UNCHANGED <<kind, session, row, old, fin, closing, stops>>

\* cleanupOrphanedRecordings: files without an entry
Orphans ==
  /\ service = "orphans"
  /\ raw' = IF entry THEN raw ELSE "none"
  /\ gz' = IF entry THEN gz ELSE "none"
  /\ service' = "idle"
  /\ UNCHANGED <<kind, session, row, old, fin, closing, stops>>

\* cleanupOldRecordings, after the start and every hour: the entries are read,
\* and the retention periods awaited.
Sweep ==
  /\ service = "idle" /\ entry /\ has /\ old
  /\ service' = "delete"
  /\ UNCHANGED <<kind, session, files, row, old, fin, closing, stops>>

\* Mutant: the file is looked for under another name and not found
SweepDeleteBug ==
  /\ service = "delete"
  /\ service' = "update"
  /\ UNCHANGED <<kind, session, files, row, old, fin, closing, stops>>

\* deleteRecording knows the compressed files and guacd's raw one.
SweepDelete ==
  /\ service = "delete"
  /\ \/ /\ gz # "none"
        /\ gz' = "none"
        /\ raw' = IF kind = "guac" THEN "none" ELSE raw
        /\ service' = "update"
     \/ /\ gz = "none"
        /\ service' = "idle"
        /\ UNCHANGED files
  /\ UNCHANGED <<kind, session, row, old, fin, closing, stops>>

SweepUpdate ==
  /\ service = "update"
  /\ has' = FALSE
  /\ service' = "idle"
  /\ UNCHANGED <<kind, session, files, entry, old, fin, closing, stops>>

----------------------------------------------------------------------------
(* Time and the process *)

Expire ==
  /\ ~old
  /\ old' = TRUE
  /\ UNCHANGED <<kind, session, files, row, fin, closing, service, stops>>

\* pruneAuditLogs
Prune ==
  /\ entry /\ service # "off"
  /\ entry' = FALSE /\ has' = FALSE
  /\ UNCHANGED <<kind, session, files, old, fin, closing, service, stops>>

\* The process stops; guacd, cut off, ends its file.
Stop ==
  /\ service # "off" /\ stops < MaxStops
  /\ service' = "off"
  /\ session' = "over"
  /\ raw' = IF raw = "growing" THEN "full" ELSE raw
  /\ fin' = [f \in Removals |-> "done"]
  /\ closing' = [c \in Sockets |-> "done"]
  /\ stops' = stops + 1
  /\ UNCHANGED <<kind, gz, row, old>>

\* recordingService.start
Start ==
  /\ service = "off"
  /\ service' = "wait"
  /\ UNCHANGED <<kind, session, files, row, old, fin, closing, stops>>

----------------------------------------------------------------------------
Removal(f) ==
  \/ Finalise(f) \/ Flushed(f) \/ Check(f) \/ Open(f) \/ CopyDone(f) \/ Unlink(f) \/ CopyFails(f)
  \/ MarkFind(f) \/ MarkWrite(f)

Service ==
  \/ PickUp \/ PickUpDone \/ PickUpUnlink \/ PickUpFails \/ Orphans
  \/ Sweep \/ SweepDelete \/ SweepUpdate
  \/ Start

Next ==
  \/ \E f \in Removals : Removal(f)
  \/ \E c \in Sockets : DurationFind(c) \/ DurationWrite(c)
  \/ Service
  \/ RawEnds \/ Expire \/ Prune \/ Stop

Spec == Init /\ [][Next]_vars

\* What was started goes on, the hourly sweep comes, guacd ends its file, and
\* a process that stopped is started again.
Fairness ==
  /\ WF_vars(RawEnds)
  /\ WF_vars(Service)
  /\ \A f \in Removals : WF_vars(fin[f] # "idle" /\ Removal(f))

LiveSpec == Spec /\ Fairness

----------------------------------------------------------------------------
(* Safety *)

\* The session is over and nobody works on its recording.
Settled ==
  /\ session = "over" /\ service = "idle"
  /\ \A f \in Removals : fin[f] \in {"idle", "done"}
  /\ \A c \in Sockets : closing[c] # "write"

\* A terminal's recording is never lost: until retention or the end of its
\* entry, the raw file or a finished copy is there, whatever fails, wherever
\* the process stops between the end of the copy, the removal of its source
\* and the mark, and whatever the recording service finds when it starts.
TerminalKept == kind = "cast" /\ entry /\ ~old => raw # "none" \/ gz = "full"

\* The entry of a desktop session offers a recording only after a copy of it
\* was finished, also when removals, a failing disk and a stop interfere.
MarkedCopied == kind = "guac" /\ has => raw = "none"

\* A raw file goes only when its copy is finished or, torn still, is being
\* written by another call that holds the source open, or when retention or
\* the entry's end allow it.  The exception: of two calls that write the same
\* target one fails after the other's copy ended, and the other removes the
\* source all the same.
SourceKept ==
  [][raw # "none" /\ raw' = "none" =>
       \/ gz' \in {"cut", "full"}
       \/ Copying' # {} \/ service' \in {"copy", "cut"}
       \/ gz = "failed"
       \/ old \/ ~entry]_vars

----------------------------------------------------------------------------
(* Liveness, under LiveSpec *)

\* A finalisation that began comes to its end, whatever became of the file.
FinalisationEnds == \A f \in Removals : fin[f] = "flush" ~> fin[f] = "done"

\* A recording that is offered once nobody works on it is deleted when it gets
\* too old, or its entry is gone first.
ExpiredGoes ==
  Settled /\ has /\ old /\ gz # "none" ~> gz = "none" \/ ~entry
=============================================================================
