---------------------------- MODULE StatusChecker ----------------------------
(***************************************************************************)
(* The status checker (utils/statusChecker.js) and the setting that turns  *)
(* it on and off (routes/statusChecker.js, controllers/monitoringSettings  *)
(* .js).  Timers start cycles; a cycle reads the setting, lists the hosts, *)
(* checks them, writes what it found and reports the hosts that changed.   *)
(* isRunning keeps a second cycle out.  A request that changes the setting *)
(* writes it, reads it back, stops the timer and starts one after a third  *)
(* await.                                                                  *)
(*                                                                         *)
(* Hosts are entries of type server: only these are reported.  Batches are *)
(* left out, their results are written together: when one write fails the  *)
(* cycle goes on, and the others land when they will.                      *)
(*                                                                         *)
(* Bounds: at most MaxTimers timers; a cycle or restart identifier serves  *)
(* again when its work ended; one cycle at a time leaves late writes.      *)
(***************************************************************************)
EXTENDS Naturals

CONSTANTS Hosts,
          Cycles,      \* cycles at once
          Restarts,    \* starts at once
          MaxTimers

ASSUME TimersAssumption == MaxTimers \in Nat

Statuses == {"unknown", "online", "offline"}

VARIABLES enabled,   \* statusCheckerEnabled
          status,    \* the column of each entry
          handle,    \* statusCheckInterval is set
          timers,    \* intervals that fire
          written,   \* requests that wrote the setting and have not restarted the timer
          restart,   \* starts that wait for the settings
          isRunning,
          cycle,
          late,      \* what a write that outlived its cycle will put ("unknown": none)
          told,      \* history: the last report of a host since its status was lost
          repeated,  \* history: the hosts reported twice in a row as the same
          settled,   \* history: turned off, and a cycle has seen it
          landed,    \* history: the hosts a late write reached since then
          crossed    \* history: two starts overlapped

scVars == <<enabled, status, handle, timers, written, restart, isRunning, cycle, late,
            told, repeated, settled, landed, crossed>>

Unknown == [h \in Hosts |-> "unknown"]
NoCycle == [at |-> "idle", listed |-> Unknown, found |-> Unknown]

StatusCheckerTypeOK ==
    /\ enabled \in BOOLEAN /\ handle \in BOOLEAN /\ isRunning \in BOOLEAN
    /\ settled \in BOOLEAN /\ crossed \in BOOLEAN
    /\ timers \in 0..MaxTimers
    /\ written \subseteq Restarts /\ restart \subseteq Restarts
    /\ status \in [Hosts -> Statuses] /\ told \in [Hosts -> Statuses]
    /\ late \in [Hosts -> Statuses]
    /\ repeated \subseteq Hosts /\ landed \subseteq Hosts
    /\ cycle \in [Cycles -> [at : {"idle", "settings", "clear", "list", "check", "update", "notify"},
                             listed : [Hosts -> Statuses], found : [Hosts -> Statuses]]]

(* the process starts the checker with the statuses an earlier one left *)
StatusCheckerInit ==
    /\ enabled \in BOOLEAN
    /\ status \in [Hosts -> Statuses]
    /\ handle = FALSE /\ timers = 0
    /\ written = {} /\ \E r \in Restarts : restart = {r}
    /\ isRunning = FALSE
    /\ cycle = [c \in Cycles |-> NoCycle]
    /\ late = Unknown
    /\ told = Unknown /\ repeated = {} /\ landed = {}
    /\ settled = FALSE /\ crossed = FALSE

Turn(c, record) == cycle' = [cycle EXCEPT ![c] = record]

(* mutated: a cycle starts while another one is at work *)
BeginBug(c) ==
    /\ cycle[c].at = "idle"
    /\ isRunning' = TRUE
    /\ Turn(c, [NoCycle EXCEPT !.at = "settings"])

(* runStatusCheck up to its first await *)
Begin(c) ==
    IF isRunning THEN UNCHANGED <<isRunning, cycle>>
    ELSE /\ cycle[c].at = "idle"
         /\ isRunning' = TRUE
         /\ Turn(c, [NoCycle EXCEPT !.at = "settings"])

(***************************************************************************)
(* Timers.                                                                 *)
(***************************************************************************)

Tick(c) ==
    /\ timers > 0
    /\ Begin(c)
    /\ UNCHANGED <<enabled, status, handle, timers, written, restart, late, told, repeated, settled, landed, crossed>>

(* mutated: an interval is taken to be there *)
StoppedBug(running) == running - 1

(* stop: only the interval the handle names is cleared *)
Stopped(running) == IF handle THEN running - 1 ELSE running

SetEnabled(r) ==
    /\ r \notin written \cup restart
    /\ \E new \in BOOLEAN : /\ enabled' = new
                            /\ settled' = (settled /\ ~new)
                            /\ landed' = IF new THEN {} ELSE landed
    /\ written' = written \cup {r}
    /\ UNCHANGED <<status, handle, timers, restart, isRunning, cycle, late, told, repeated, crossed>>

(* restartStatusChecker: the timer is stopped, the start awaits *)
Restart(r) ==
    /\ r \in written
    /\ timers' = Stopped(timers)
    /\ handle' = FALSE
    /\ written' = written \ {r}
    /\ restart' = restart \cup {r}
    /\ crossed' = (crossed \/ restart # {})
    /\ UNCHANGED <<enabled, status, isRunning, cycle, late, told, repeated, settled, landed>>

(* the setting cannot be read back: the timer is left as it is *)
RestartSkipped(r) ==
    /\ r \in written
    /\ written' = written \ {r}
    /\ UNCHANGED <<enabled, status, handle, timers, restart, isRunning, cycle, late, told, repeated, settled,
                   landed, crossed>>

(* the settings arrived, or could not be read and the interval is the default: *)
(* a cycle at once, and the timer                                             *)
Start(r) ==
    /\ r \in restart /\ timers < MaxTimers
    /\ \E c \in Cycles : Begin(c)
    /\ timers' = timers + 1
    /\ handle' = TRUE
    /\ restart' = restart \ {r}
    /\ UNCHANGED <<enabled, status, written, late, told, repeated, settled, landed, crossed>>

(***************************************************************************)
(* A cycle.                                                                *)
(***************************************************************************)

Frame == UNCHANGED <<enabled, handle, timers, written, restart, crossed>>

End(c) == Turn(c, NoCycle) /\ isRunning' = FALSE

(* settings that cannot be read are taken as turned off *)
ReadSettings(c) ==
    /\ cycle[c].at = "settings"
    /\ \/ enabled /\ Turn(c, [cycle[c] EXCEPT !.at = "list"])
       \/ Turn(c, [cycle[c] EXCEPT !.at = "clear"])
    /\ UNCHANGED <<status, isRunning, late, told, repeated, settled, landed>> /\ Frame

(* turned off: no host has a status *)
Clear(c) ==
    /\ cycle[c].at = "clear"
    /\ status' = Unknown /\ told' = Unknown
    /\ settled' = (settled \/ ~enabled)
    /\ landed' = {}
    /\ End(c)
    /\ UNCHANGED <<late, repeated>> /\ Frame

ListHosts(c) ==
    /\ cycle[c].at = "list"
    /\ Turn(c, [cycle[c] EXCEPT !.at = "check", !.listed = status])
    /\ UNCHANGED <<status, isRunning, late, told, repeated, settled, landed>> /\ Frame

(* the statuses cannot be cleared, or no host is listed *)
Fails(c) ==
    /\ cycle[c].at \in {"clear", "list"}
    /\ End(c)
    /\ UNCHANGED <<status, late, told, repeated, settled, landed>> /\ Frame

(* a check that times out finds nothing *)
CheckHosts(c) ==
    /\ cycle[c].at = "check"
    /\ \E found \in [Hosts -> Statuses] :
          Turn(c, [at |-> "update", listed |-> cycle[c].listed, found |-> found])
    /\ UNCHANGED <<status, isRunning, late, told, repeated, settled, landed>> /\ Frame

Found(c) == {h \in Hosts : cycle[c].found[h] # "unknown"}

(* one write for each host found: the first that fails ends the wait, and  *)
(* those under way then land later                                         *)
Update(c) ==
    /\ cycle[c].at = "update"
    /\ \E failed, slow \in SUBSET Found(c) :
          /\ slow # {} => failed \ slow # {} /\ late = Unknown
          /\ status' = [h \in Hosts |-> IF h \in Found(c) \ (failed \cup slow) THEN cycle[c].found[h] ELSE status[h]]
          /\ told' = [h \in Hosts |-> IF h \in failed \cup slow THEN "unknown" ELSE told[h]]
          /\ late' = [h \in Hosts |-> IF h \in slow THEN cycle[c].found[h] ELSE late[h]]
    /\ Turn(c, [cycle[c] EXCEPT !.at = "notify"])
    /\ UNCHANGED <<isRunning, repeated, settled, landed>> /\ Frame

(* a write that outlived the cycle it was made for *)
Land(h) ==
    /\ late[h] # "unknown"
    /\ status' = [status EXCEPT ![h] = late[h]]
    /\ late' = [late EXCEPT ![h] = "unknown"]
    /\ told' = [told EXCEPT ![h] = "unknown"]
    /\ landed' = IF settled THEN landed \cup {h} ELSE landed
    /\ UNCHANGED <<isRunning, cycle, repeated, settled>> /\ Frame

Changed(c) == {h \in Hosts : /\ "unknown" \notin {cycle[c].listed[h], cycle[c].found[h]}
                             /\ cycle[c].listed[h] # cycle[c].found[h]}

Notify(c) ==
    /\ cycle[c].at = "notify"
    /\ told' = [h \in Hosts |-> IF h \in Changed(c) /\ status[h] = cycle[c].found[h]
                                THEN status[h] ELSE told[h]]
    /\ repeated' = repeated \cup {h \in Changed(c) : told[h] = cycle[c].found[h]}
    /\ End(c)
    /\ UNCHANGED <<status, late, settled, landed>> /\ Frame

StatusCheckerNext ==
    \/ \E r \in Restarts : \/ SetEnabled(r) \/ Restart(r) \/ RestartSkipped(r) \/ Start(r)
    \/ \E c \in Cycles : \/ Tick(c) \/ ReadSettings(c) \/ Clear(c) \/ ListHosts(c)
                         \/ Fails(c) \/ CheckHosts(c) \/ Update(c) \/ Notify(c)
    \/ \E h \in Hosts : Land(h)

StatusCheckerSpec == StatusCheckerInit /\ [][StatusCheckerNext]_scVars

(* Once a cycle has seen the checker turned off no status comes back, not  *)
(* from a cycle that was at work either; only a write left behind by a     *)
(* cycle whose writes failed still can.  No host is reported offline twice *)
(* without having been reported online, unless its status was lost in      *)
(* between: cleared, not written, or put back by such a write.  One timer  *)
(* runs, and it is the one that can be stopped; only starts that overlap   *)
(* leave another.                                                          *)
CheckerSound ==
    /\ settled => \A h \in Hosts : status[h] = "unknown" \/ h \in landed
    /\ repeated = {}
    /\ crossed \/ timers = (IF handle THEN 1 ELSE 0)

=============================================================================
