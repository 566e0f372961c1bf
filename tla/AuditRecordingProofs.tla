------------------------ MODULE AuditRecordingProofs ------------------------
(* Types, marks and files of a recording, for any removals and sockets and  *)
(* any number of stops.                                                     *)
EXTENDS AuditRecording, TLAPS

Stages == {"idle", "flush", "check", "open", "copy", "unlink", "find", "write", "done"}

\* Every step of one removal keeps its stage, the session and the files typed.
LEMMA RemovalType ==
  ASSUME TypeOK, NEW f \in Removals, Removal(f)
  PROVE  TypeOK'
<1>1. fin' \in [Removals -> Stages] /\ session' \in {"on", "ending", "over"}
  BY DEF Removal, Finalise, Flushed, Check, Open, CopyDone, Unlink, CopyFails, MarkFind, MarkWrite,
         Compressed, Return, TypeOK, Stages
<1>2. raw' \in {"none", "growing", "full"} /\ gz' \in {"none", "torn", "failed", "cut", "full"}
  BY DEF Removal, Finalise, Flushed, Check, Open, CopyDone, Unlink, CopyFails, MarkFind, MarkWrite,
         Written, Spoilt, files, TypeOK
<1>3. UNCHANGED <<kind, entry, old, closing, service, stops>>
  BY DEF Removal, Finalise, Flushed, Check, Open, CopyDone, Unlink, CopyFails, MarkFind, MarkWrite, row
<1>4. has' = has \/ has' = entry
  BY DEF Removal, Finalise, Flushed, Check, Open, CopyDone, Unlink, CopyFails, MarkFind, MarkWrite, row
<1>5. has' \in {FALSE, entry}
  BY <1>4 DEF TypeOK
<1> QED
  BY <1>1, <1>2, <1>3, <1>5 DEF TypeOK, Stages

\* Every variable keeps its type.
THEOREM TypeCorrect == Spec => []TypeOK
<1>1. Init => TypeOK
  <2> SUFFICES ASSUME Init PROVE TypeOK
    OBVIOUS
  <2>1. stops \in 0..MaxStops
    BY StopAssumption DEF Init
  <2>2. /\ fin \in [Removals -> Stages]
        /\ closing \in [Sockets -> {"open", "write", "done"}]
    BY DEF Init, Stages
  <2> QED
    BY <2>1, <2>2 DEF Init, TypeOK, Stages
<1>2. TypeOK /\ [Next]_vars => TypeOK'
  <2> SUFFICES ASSUME TypeOK, [Next]_vars PROVE TypeOK'
    OBVIOUS
  <2>1. ASSUME NEW f \in Removals, Removal(f) PROVE TypeOK'
    BY <2>1, RemovalType
  <2>2. ASSUME NEW c \in Sockets, DurationFind(c) \/ DurationWrite(c) PROVE TypeOK'
    <3>1. closing' \in [Sockets -> {"open", "write", "done"}]
      BY <2>2 DEF DurationFind, DurationWrite, TypeOK
    <3>2. has' = has \/ has' = FALSE
      BY <2>2 DEF DurationFind, DurationWrite, row
    <3>3. UNCHANGED <<kind, session, raw, gz, entry, old, fin, service, stops>>
      BY <2>2 DEF DurationFind, DurationWrite, files, row
    <3>4. has' \in {FALSE, entry}
      BY <3>2 DEF TypeOK
    <3> QED
      BY <3>1, <3>3, <3>4, ZenonT(30) DEF TypeOK
  <2>3. CASE Service
    <3>1. /\ raw' \in {"none", "growing", "full"} /\ gz' \in {"none", "torn", "failed", "cut", "full"}
          /\ service' \in {"off", "wait", "copy", "cut", "unlink", "orphans", "idle", "delete", "update"}
      BY <2>3 DEF Service, PickUp, PickUpDone, PickUpUnlink, PickUpFails, Orphans, Sweep, SweepDelete,
         SweepUpdate, Start, Written, Spoilt, TypeOK, files
    <3>2. UNCHANGED <<kind, session, entry, old, fin, closing, stops>> /\ (has' = has \/ has' = FALSE)
      BY <2>3 DEF Service, PickUp, PickUpDone, PickUpUnlink, PickUpFails, Orphans, Sweep, SweepDelete,
         SweepUpdate, Start, row
    <3>3. has' \in {FALSE, entry}
      BY <3>2 DEF TypeOK
    <3> QED
      BY <3>1, <3>2, <3>3 DEF TypeOK
  <2>4. CASE RawEnds \/ Expire \/ Prune
    BY <2>4 DEF RawEnds, Expire, Prune, TypeOK, files, row
  <2>5. CASE Stop
    <3>1. stops' \in 0..MaxStops
      BY <2>5, StopAssumption DEF Stop, TypeOK
    <3> QED
      BY <2>5, <3>1 DEF Stop, TypeOK, row
  <2>6. CASE UNCHANGED vars
    <3>1. UNCHANGED <<kind, session, raw, gz, entry, has, old, fin, closing, service, stops>>
      BY <2>6 DEF vars, files, row
    <3> QED
      BY <3>1, ZenonT(30) DEF TypeOK
  <2> QED
    BY <2>1, <2>2, <2>3, <2>4, <2>5, <2>6 DEF Next
<1> QED
  BY <1>1, <1>2, PTL DEF Spec

----------------------------------------------------------------------------
(* The mark *)

\* A desktop's finalisation that is about to mark the entry made its copy.
MarkInv ==
  kind = "guac" /\ (has \/ \E f \in Removals : fin[f] \in {"find", "write"}) => raw = "none"

\* The entry of a desktop session offers a recording only after a copy of it
\* was finished, whatever else fails or stops.
THEOREM MarksEarned == Spec => []MarkedCopied
<1>1. Init => MarkInv
  BY DEF Init, MarkInv
<1>2. TypeOK /\ MarkInv /\ [Next]_vars => MarkInv'
  <2> SUFFICES ASSUME TypeOK, MarkInv, [Next]_vars PROVE MarkInv'
    OBVIOUS
  <2>1. ASSUME NEW f \in Removals, Removal(f) PROVE MarkInv'
    <3>1. kind' = kind /\ (raw = "none" => raw' = "none")
      BY <2>1 DEF Removal, Finalise, Flushed, Check, Open, CopyDone, Unlink, CopyFails, MarkFind, MarkWrite, files
    <3>2. kind = "guac" /\ fin'[f] \in {"find", "write"} => raw' = "none"
      BY <2>1, <3>1 DEF Removal, Finalise, Flushed, Check, Open, CopyDone, Unlink, CopyFails, MarkFind,
         MarkWrite, Compressed, Return, MarkInv, TypeOK
    <3>3. \A g \in Removals \ {f} : fin'[g] = fin[g]
      BY <2>1 DEF Removal, Finalise, Flushed, Check, Open, CopyDone, Unlink, CopyFails, MarkFind,
         MarkWrite, Compressed, Return, TypeOK
    <3>4. has' => has \/ fin[f] = "write"
      BY <2>1 DEF Removal, Finalise, Flushed, Check, Open, CopyDone, Unlink, CopyFails, MarkFind, MarkWrite, row
    <3> QED
      BY <3>1, <3>2, <3>3, <3>4 DEF MarkInv
  <2>2. ASSUME NEW c \in Sockets, DurationFind(c) \/ DurationWrite(c) PROVE MarkInv'
    BY <2>2 DEF DurationFind, DurationWrite, MarkInv, files, row
  <2>3. CASE Service
    BY <2>3 DEF Service, PickUp, PickUpDone, PickUpUnlink, PickUpFails, Orphans, Sweep, SweepDelete,
       SweepUpdate, Start, MarkInv, files, row
  <2>4. CASE RawEnds \/ Expire \/ Prune \/ Stop
    BY <2>4 DEF RawEnds, Expire, Prune, Stop, MarkInv, TypeOK, files, row
  <2>5. CASE UNCHANGED vars
    BY <2>5 DEF vars, MarkInv, files, row
  <2> QED
    BY <2>1, <2>2, <2>3, <2>4, <2>5 DEF Next
<1>3. MarkInv => MarkedCopied
  BY DEF MarkInv, MarkedCopied
<1> QED
  BY <1>1, <1>2, <1>3, TypeCorrect, PTL DEF Spec

----------------------------------------------------------------------------
(* The source *)

\* The compressed file is deleted under a writer's hands only when it may be,
\* and it is torn only while somebody writes it, as long as a source is there
\* that somebody is about to remove.
DeleteInv ==
  /\ service \in {"delete", "update"} => old
  /\ \/ old \/ ~entry \/ gz # "none"
     \/ /\ \A f \in Removals : fin[f] \notin {"copy", "unlink"}
        /\ service \notin {"copy", "cut", "unlink"}
  /\ gz = "torn" /\ raw # "none" /\ (service = "unlink" \/ \E f \in Removals : fin[f] = "unlink") =>
       service \in {"copy", "cut"} \/ \E f \in Removals : fin[f] = "copy"

\* Removals keep DeleteInv: a copier opened its target first, and who ends last
\* leaves it finished or failed.
LEMMA RemovalDelete ==
  ASSUME TypeOK, DeleteInv, NEW f \in Removals, Removal(f)
  PROVE  DeleteInv'
<1>1. /\ UNCHANGED <<old, entry, service>> /\ (gz' = "none" => gz = "none")
      /\ raw' # "none" => raw # "none"
  BY DEF Removal, Finalise, Flushed, Check, Open, CopyDone, Unlink, CopyFails, MarkFind, MarkWrite,
         Written, Spoilt, files, row
<1>2. \A g \in Removals \ {f} : fin'[g] = fin[g]
  BY DEF Removal, Finalise, Flushed, Check, Open, CopyDone, Unlink, CopyFails, MarkFind, MarkWrite,
         Compressed, Return, TypeOK
<1>3. CASE Open(f)
  <2>1. gz' = "torn" /\ fin[f] = "open" /\ UNCHANGED raw
    BY <1>3 DEF Open
  <2>2. raw # "none" => fin'[f] = "copy"
    BY <1>3 DEF Open, TypeOK
  <2> QED
    BY <1>1, <1>2, <2>1, <2>2 DEF DeleteInv
<1>4. CASE CopyDone(f) \/ (CopyFails(f) /\ fin[f] = "copy")
  <2>1. /\ fin[f] = "copy" /\ fin'[f] # "copy"
        /\ gz' = "torn" => Copying # {f} \/ service = "copy"
    BY <1>4 DEF CopyDone, CopyFails, Compressed, Return, Written, Spoilt, TypeOK
  <2>2. f \in Copying
    BY <2>1 DEF Copying
  <2>3. Copying # {f} => \E g \in Removals \ {f} : fin[g] = "copy"
    BY <2>2 DEF Copying
  <2>4. old \/ ~entry \/ gz # "none"
    BY <2>1 DEF DeleteInv
  <2> QED
    BY <1>1, <1>2, <2>1, <2>3, <2>4 DEF DeleteInv
<1>5. CASE ~(Open(f) \/ CopyDone(f) \/ (CopyFails(f) /\ fin[f] = "copy"))
  <2>1. gz' = gz /\ fin'[f] \notin {"copy", "unlink"} /\ fin[f] # "copy"
    BY <1>5 DEF Removal, Finalise, Flushed, Check, CopyFails, Unlink, MarkFind, MarkWrite,
       Compressed, Return, TypeOK, files
  <2> QED
    BY <1>1, <1>2, <2>1 DEF DeleteInv
<1> QED
  BY <1>3, <1>4, <1>5

\* Every step keeps DeleteInv.
LEMMA StepDelete ==
  ASSUME TypeOK, DeleteInv, [Next]_vars
  PROVE  DeleteInv'
<1>1. ASSUME NEW f \in Removals, Removal(f) PROVE DeleteInv'
  BY <1>1, RemovalDelete
<1>2. ASSUME NEW c \in Sockets, DurationFind(c) \/ DurationWrite(c) PROVE DeleteInv'
  BY <1>2 DEF DurationFind, DurationWrite, DeleteInv, files, row
<1>3. CASE Service
  <2>1. CASE PickUp \/ Orphans \/ Sweep \/ SweepDelete \/ SweepUpdate \/ Start \/ PickUpUnlink
    BY <2>1 DEF PickUp, Orphans, Sweep, SweepDelete, SweepUpdate, Start, PickUpUnlink,
       DeleteInv, TypeOK, files, row
  <2>2. CASE PickUpDone \/ PickUpFails
    BY <2>2 DEF PickUpDone, PickUpFails, Written, Spoilt, DeleteInv, Copying, TypeOK, files, row
  <2> QED
    BY <1>3, <2>1, <2>2 DEF Service
<1>4. CASE RawEnds \/ Expire \/ Prune
  BY <1>4 DEF RawEnds, Expire, Prune, DeleteInv, TypeOK, files, row
<1>5. CASE Stop
  BY <1>5 DEF Stop, DeleteInv, row
<1>6. CASE UNCHANGED vars
  BY <1>6 DEF vars, DeleteInv, files, row
<1> QED
  BY <1>1, <1>2, <1>3, <1>4, <1>5, <1>6 DEF Next

\* What allows a raw file to go.
MayGo ==
  \/ gz' \in {"cut", "full"}
  \/ Copying' # {} \/ service' \in {"copy", "cut"}
  \/ gz = "failed"
  \/ old \/ ~entry

\* A raw file goes only when its copy is finished, or another call that holds
\* it open is still writing one or failed to, or retention or the entry's end
\* allow it.
THEOREM SourceSafe == Spec => SourceKept
<1> DEFINE Kept == raw # "none" /\ raw' = "none" => MayGo
<1>1. TypeOK /\ DeleteInv /\ [Next]_vars => Kept
  <2> SUFFICES ASSUME TypeOK, DeleteInv, [Next]_vars, raw # "none", raw' = "none"
               PROVE  MayGo
    OBVIOUS
  <2>1. ASSUME NEW f \in Removals, Removal(f) PROVE MayGo
    <3>1. Unlink(f)
      BY <2>1 DEF Removal, Finalise, Flushed, Check, Open, CopyDone, CopyFails, MarkFind, MarkWrite, files
    <3>2. fin[f] = "unlink" /\ UNCHANGED <<gz, service>>
      BY <3>1 DEF Unlink
    <3>3. \A g \in Removals : fin[g] = "copy" => fin'[g] = "copy"
      BY <3>1, <3>2 DEF Unlink, Compressed, Return, TypeOK
    <3>4. (\E g \in Removals : fin[g] = "copy") => Copying' # {}
      BY <3>3 DEF Copying
    <3> QED
      BY <3>2, <3>4 DEF DeleteInv, MayGo, TypeOK
  <2>2. ASSUME NEW c \in Sockets, DurationFind(c) \/ DurationWrite(c) PROVE FALSE
    BY <2>2 DEF DurationFind, DurationWrite, files
  <2>3. CASE Service
    <3>1. CASE PickUpUnlink
      <4>1. (\E g \in Removals : fin[g] = "copy") => Copying' # {}
        BY <3>1 DEF PickUpUnlink, Copying
      <4> QED
        BY <3>1, <4>1 DEF PickUpUnlink, DeleteInv, MayGo, TypeOK
    <3>2. CASE Orphans
      BY <3>2 DEF Orphans, MayGo
    <3>3. CASE SweepDelete
      BY <3>3 DEF SweepDelete, DeleteInv, MayGo
    <3> QED
      BY <2>3, <3>1, <3>2, <3>3 DEF Service, PickUp, PickUpDone, PickUpFails, Sweep, SweepUpdate,
         Start, files
  <2>4. CASE RawEnds \/ Expire \/ Prune \/ Stop
    BY <2>4 DEF RawEnds, Expire, Prune, Stop, files
  <2>5. CASE UNCHANGED vars
    BY <2>5 DEF vars, files
  <2> QED
    BY <2>1, <2>2, <2>3, <2>4, <2>5 DEF Next
<1>2. Init => DeleteInv
  BY DEF Init, DeleteInv
<1>3. TypeOK /\ DeleteInv /\ [Next]_vars => DeleteInv'
  BY StepDelete
<1>4. TypeOK /\ DeleteInv /\ [Next]_vars => [Kept]_vars
  BY <1>1
<1>5. Kept <=> (raw # "none" /\ raw' = "none" =>
                  \/ gz' \in {"cut", "full"}
                  \/ Copying' # {} \/ service' \in {"copy", "cut"}
                  \/ gz = "failed"
                  \/ old \/ ~entry)
  BY DEF MayGo
<1> QED
  BY <1>2, <1>3, <1>4, <1>5, TypeCorrect, PTL DEF Spec, SourceKept

----------------------------------------------------------------------------
(* A terminal's recording *)

\* The stages of a finalisation at work
Working == {"flush", "check", "open", "copy", "unlink", "find", "write"}

\* A terminal's recording is finalised once and never picked up; before its
\* copy ends the source is there, and the source goes after that.
TerminalInv ==
  kind = "cast" =>
    /\ service \notin {"copy", "cut", "unlink"}
    /\ session = "on" => \A f \in Removals : fin[f] \notin Working
    /\ \A f, g \in Removals : fin[f] \in Working /\ fin[g] \in Working => f = g
    /\ entry /\ ~old =>
         /\ raw # "none" \/ (gz = "full" /\ session # "on")
         /\ \A f \in Removals : fin[f] \in {"flush", "check", "open", "copy"} => raw # "none"
         /\ \A f \in Removals : fin[f] = "unlink" => gz = "full"

\* A finalisation keeps TerminalInv: nobody else writes its files.
LEMMA RemovalTerminal ==
  ASSUME TypeOK, DeleteInv, TerminalInv, NEW f \in Removals, Removal(f)
  PROVE  TerminalInv'
<1> SUFFICES ASSUME kind = "cast" PROVE TerminalInv'
  BY DEF Removal, Finalise, Flushed, Check, Open, CopyDone, Unlink, CopyFails, MarkFind, MarkWrite,
         TerminalInv
<1>1. /\ UNCHANGED <<kind, old, entry, service>>
      /\ session' = "on" => session = "on"
  BY DEF Removal, Finalise, Flushed, Check, Open, CopyDone, Unlink, CopyFails, MarkFind, MarkWrite,
         Compressed, Return, row
<1>2. \A g \in Removals \ {f} : fin'[g] = fin[g]
  BY DEF Removal, Finalise, Flushed, Check, Open, CopyDone, Unlink, CopyFails, MarkFind, MarkWrite,
         Compressed, Return, TypeOK
<1>3. CASE Finalise(f)
  <2>1. session = "on" /\ session' = "ending" /\ UNCHANGED <<raw, gz>>
    BY <1>3 DEF Finalise, files
  <2>2. \A g \in Removals : fin[g] \notin Working
    BY <2>1 DEF TerminalInv
  <2>3. fin'[f] = "flush" /\ \A g \in Removals \ {f} : fin'[g] \notin Working
    BY <1>2, <1>3, <2>2 DEF Finalise, TypeOK
  <2> QED
    BY <1>1, <2>1, <2>3 DEF TerminalInv, Working
<1>4. CASE ~Finalise(f)
  <2>1. fin[f] \in Working
    BY <1>4 DEF Removal, Flushed, Check, Open, CopyDone, Unlink, CopyFails, MarkFind, MarkWrite, Working
  <2>2. session # "on" /\ \A g \in Removals \ {f} : fin[g] \notin Working
    BY <2>1 DEF TerminalInv
  <2>3. /\ session' # "on"
        /\ \A g, h \in Removals : fin'[g] \in Working /\ fin'[h] \in Working => g = h
    BY <1>1, <1>2, <2>2
  <2>4. ASSUME entry, ~old
        PROVE  /\ raw' # "none" \/ gz' = "full"
               /\ fin'[f] \in {"flush", "check", "open", "copy"} => raw' # "none"
               /\ fin'[f] = "unlink" => gz' = "full"
    <3>1. CASE Flushed(f) \/ Check(f) \/ MarkFind(f) \/ MarkWrite(f)
      BY <2>4, <3>1 DEF Flushed, Check, MarkFind, MarkWrite, Compressed, Return, TerminalInv, TypeOK, files
    <3>2. CASE Open(f)
      BY <2>4, <3>2 DEF Open, Compressed, Return, TerminalInv, TypeOK
    <3>3. CASE CopyDone(f)
      <4>1. Copying = {f} /\ service # "copy" /\ gz # "none" /\ raw # "none"
        BY <2>2, <2>4, <3>3 DEF CopyDone, Copying, Working, TerminalInv, DeleteInv
      <4> QED
        BY <3>3, <4>1 DEF CopyDone, Written, TypeOK
    <3>4. CASE Unlink(f)
      BY <2>4, <3>4 DEF Unlink, Compressed, Return, TerminalInv, TypeOK
    <3>5. CASE CopyFails(f)
      <4>1. UNCHANGED raw /\ (raw # "none" \/ (gz = "full" /\ UNCHANGED gz))
        BY <2>4, <3>5 DEF CopyFails, TerminalInv
      <4>2. fin'[f] \in {"find", "done"}
        BY <3>5 DEF CopyFails, Compressed, Return, TypeOK
      <4> QED
        BY <4>1, <4>2
    <3> QED
      BY <1>4, <3>1, <3>2, <3>3, <3>4, <3>5 DEF Removal
  <2> QED
    BY <1>1, <1>2, <2>2, <2>3, <2>4 DEF TerminalInv, Working
<1> QED
  BY <1>3, <1>4

\* Every step keeps TerminalInv.
LEMMA StepTerminal ==
  ASSUME TypeOK, DeleteInv, TerminalInv, [Next]_vars
  PROVE  TerminalInv'
<1>1. ASSUME NEW f \in Removals, Removal(f) PROVE TerminalInv'
  BY <1>1, RemovalTerminal
<1>2. ASSUME NEW c \in Sockets, DurationFind(c) \/ DurationWrite(c) PROVE TerminalInv'
  BY <1>2 DEF DurationFind, DurationWrite, TerminalInv, files, row
<1>3. CASE Service
  BY <1>3 DEF Service, PickUp, PickUpDone, PickUpUnlink, PickUpFails, Orphans, Sweep, SweepDelete,
     SweepUpdate, Start, TerminalInv, DeleteInv, files, row
<1>4. CASE RawEnds \/ Expire \/ Prune
  BY <1>4 DEF RawEnds, Expire, Prune, TerminalInv, TypeOK, files, row
<1>5. CASE Stop
  BY <1>5 DEF Stop, TerminalInv, Working, row
<1>6. CASE UNCHANGED vars
  BY <1>6 DEF vars, TerminalInv, files, row
<1> QED
  BY <1>1, <1>2, <1>3, <1>4, <1>5, <1>6 DEF Next

\* A terminal's recording is there until retention or its entry's end, whatever
\* fails and wherever the process stops, for any number of stops.
THEOREM TerminalSafe == Spec => []TerminalKept
<1>1. Init => DeleteInv /\ TerminalInv
  BY DEF Init, DeleteInv, TerminalInv, Working
<1>2. TypeOK /\ DeleteInv /\ TerminalInv /\ [Next]_vars => DeleteInv' /\ TerminalInv'
  BY StepDelete, StepTerminal
<1>3. TerminalInv => TerminalKept
  BY DEF TerminalInv, TerminalKept
<1> QED
  BY <1>1, <1>2, <1>3, TypeCorrect, PTL DEF Spec
=============================================================================
