---------------------------- MODULE Integrations ----------------------------
(***************************************************************************)
(* One integration and the entries it manages.  A NetBox integration       *)
(* compares its inventory with the entries it finds and updates, creates   *)
(* and removes them (utils/netboxSyncService.js); a Proxmox integration    *)
(* removes all it has and builds them again (controllers/integration.js).  *)
(* Syncs start on request, after an edit, and from the schedule            *)
(* (utils/netboxIntegrationService.js), whose flag keeps out a second      *)
(* scheduled one and nothing else.                                         *)
(*                                                                         *)
(* What the filters of the integration leave of the remote inventory is a  *)
(* set of items; edits and time change it at will.  Nothing in the         *)
(* database keeps an item from having two entries.                         *)
(*                                                                         *)
(* Bounds: Items and EntryRows; a sync identifier serves again.            *)
(***************************************************************************)
EXTENDS Naturals, FiniteSets

CONSTANTS Items,      \* external ids
          EntryRows,  \* ids of entries
          Syncs,      \* syncs at once
          Free,       \* no entry
          Limit, Share   \* REMOVAL_LIMIT and 1 / REMOVAL_SHARE

ASSUME IntegrationsAssumption ==
    /\ Free \notin Items /\ IsFiniteSet(EntryRows)
    /\ Limit \in Nat /\ Share \in Nat

VARIABLES kind,     \* "netbox", "proxmox", being deleted ("ending"), or "gone"
          managed,  \* managed[i]: the item of entry i
          used,     \* ids given out
          running,  \* the flag of the schedule
          sync,
          alone     \* history: nothing else touched the integration since this sync began

intVars == <<kind, managed, used, running, sync, alone>>

Idle == [at |-> "idle", scheduled |-> FALSE, allow |-> FALSE, items |-> {},
         known |-> {}, todo |-> {}, removals |-> {}]

Here == {i \in EntryRows : managed[i] # Free}
Shown == {managed[i] : i \in Here}
OneEach == \A i, j \in Here : managed[i] = managed[j] => i = j

IntegrationsTypeOK ==
    /\ kind \in {"netbox", "proxmox", "ending", "gone"}
    /\ managed \in [EntryRows -> Items \cup {Free}]
    /\ used \subseteq EntryRows
    /\ running \in BOOLEAN
    /\ sync \in [Syncs -> [at : {"idle", "fetch", "find", "apply"}, scheduled : BOOLEAN,
                           allow : BOOLEAN, items : SUBSET Items, known : SUBSET Items,
                           todo : SUBSET Items, removals : SUBSET EntryRows]]
    /\ alone \subseteq Syncs

IntegrationsInit ==
    /\ kind \in {"netbox", "proxmox"}
    /\ managed \in [EntryRows -> Items \cup {Free}]
    /\ OneEach
    /\ used = Here
    /\ running = FALSE
    /\ sync = [s \in Syncs |-> Idle]
    /\ alone = {}

Moves(s, record) == sync' = [sync EXCEPT ![s] = record]

Syncing == {s \in Syncs : sync[s].at # "idle"}

(***************************************************************************)
(* A sync begins with the integration it reads.                            *)
(***************************************************************************)

BeginSync(s, scheduled) ==
    /\ kind # "gone" /\ sync[s].at = "idle"
    /\ \E allow \in BOOLEAN : /\ scheduled => ~allow
                              /\ Moves(s, [Idle EXCEPT !.at = "fetch", !.scheduled = scheduled, !.allow = allow])
    /\ alone' = IF Syncing = {} /\ OneEach /\ kind # "ending" THEN {s} ELSE {}
    /\ UNCHANGED <<kind, managed, used>>

(* the route, and the end of createIntegration and editIntegration *)
RequestSync(s) == BeginSync(s, FALSE) /\ UNCHANGED running

(* syncDueIntegrations *)
Schedule(s) ==
    /\ ~running /\ kind = "netbox"
    /\ BeginSync(s, TRUE)
    /\ running' = TRUE

(* a sync ends; a scheduled one clears the flag *)
Finish(s) ==
    /\ Moves(s, Idle)
    /\ running' = (running /\ ~sync[s].scheduled)

(* the inventory after the filters, as they were when the sync began *)
Fetch(s) ==
    /\ sync[s].at = "fetch"
    /\ \E items \in SUBSET Items : Moves(s, [sync[s] EXCEPT !.at = "find", !.items = items])
    /\ UNCHANGED <<kind, managed, used, running, alone>>

(* the inventory or a query fails, and the sync with it *)
SyncFails(s) ==
    /\ sync[s].at # "idle"
    /\ Finish(s)
    /\ alone' = alone \ {s}
    /\ UNCHANGED <<kind, managed, used>>

(***************************************************************************)
(* NetBox.  An integration that is gone has no entries.                    *)
(***************************************************************************)

(* mutated: only a sync that removes everything needs a review *)
NeedsReviewBug(removals, found) == removals > 0 /\ removals = found

NeedsReview(removals, found) ==
    removals > 0 /\ (removals = found \/ (removals > Limit /\ removals * Share > found))

Find(s) ==
    /\ sync[s].at = "find" /\ kind \notin {"proxmox", "ending"}
    /\ LET gone == {i \in Here : managed[i] \notin sync[s].items}
           held == ~sync[s].allow /\ NeedsReview(Cardinality(gone), Cardinality(Here))
       IN Moves(s, [sync[s] EXCEPT !.at = "apply", !.known = Shown, !.todo = sync[s].items,
                                  !.removals = IF held THEN {} ELSE gone])
    /\ UNCHANGED <<kind, managed, used, running, alone>>

Ready(s, item) == sync[s].at = "apply" /\ item \in sync[s].todo /\ kind # "gone"
Done(s, item) == Moves(s, [sync[s] EXCEPT !.todo = @ \ {item}])

(* an item that had an entry: it is updated, if still there *)
UpdateEntry(s) ==
    /\ \E item \in sync[s].known : Ready(s, item) /\ Done(s, item)
    /\ UNCHANGED <<kind, managed, used, running, alone>>

CreateEntry(s) ==
    /\ \E item \in Items \ sync[s].known, i \in EntryRows \ used :
          /\ Ready(s, item) /\ Done(s, item)
          /\ managed' = [managed EXCEPT ![i] = item]
          /\ used' = used \cup {i}
    /\ UNCHANGED <<kind, running, alone>>

(* entries refer to their integration: without it no write succeeds *)
Refused(s) ==
    /\ sync[s].at = "apply" /\ sync[s].todo # {} /\ kind = "gone"
    /\ Finish(s)
    /\ UNCHANGED <<kind, managed, used, alone>>

RemoveEntry(s) ==
    /\ sync[s].at = "apply" /\ sync[s].todo = {}
    /\ \E i \in sync[s].removals :
          /\ managed' = [managed EXCEPT ![i] = Free]
          /\ Moves(s, [sync[s] EXCEPT !.removals = @ \ {i}])
    /\ UNCHANGED <<kind, used, running, alone>>

Synced(s) ==
    /\ sync[s].at = "apply" /\ sync[s].todo = {} /\ sync[s].removals = {}
    /\ Finish(s)
    /\ UNCHANGED <<kind, managed, used, alone>>

(***************************************************************************)
(* Proxmox: the entries go, then each resource gets one.                   *)
(***************************************************************************)

DestroyAll(s) ==
    /\ sync[s].at = "find" /\ kind \in {"proxmox", "ending"}
    /\ managed' = [i \in EntryRows |-> Free]
    /\ Moves(s, [sync[s] EXCEPT !.at = "apply", !.todo = sync[s].items])
    /\ UNCHANGED <<kind, used, running, alone>>

(* A Proxmox integration is deleted after its entries; those a sync makes  *)
(* in between, and the hosts of a NetBox integration, it manages no more.  *)
DeleteEntries ==
    /\ kind = "proxmox"
    /\ managed' = [i \in EntryRows |-> Free]
    /\ kind' = "ending"
    /\ alone' = {}
    /\ UNCHANGED <<used, running, sync>>

DeleteIntegration ==
    /\ kind \in {"netbox", "ending"}
    /\ managed' = [i \in EntryRows |-> Free]
    /\ kind' = "gone"
    /\ alone' = {}
    /\ UNCHANGED <<used, running, sync>>

SyncStep(s) == \/ RequestSync(s) \/ Schedule(s) \/ Fetch(s) \/ SyncFails(s) \/ Find(s) \/ UpdateEntry(s)
               \/ CreateEntry(s) \/ Refused(s) \/ RemoveEntry(s) \/ Synced(s) \/ DestroyAll(s)

IntegrationsNext == (\E s \in Syncs : SyncStep(s)) \/ DeleteEntries \/ DeleteIntegration

IntegrationsSpec == IntegrationsInit /\ [][IntegrationsNext]_intVars

(* A sync that nothing overlapped and that did not fail leaves one entry    *)
(* for each item, and otherwise at most the entries whose removal waits for *)
(* review.  Without the review a NetBox sync never removes the last of the  *)
(* entries it found, nor more of them than both limits allow.  Two syncs    *)
(* that overlap give an item two entries, which no later sync takes away.   *)
SyncSound ==
    [][\A s \in alone' :
          sync[s].at # "idle" /\ sync'[s].at = "idle" =>
              LET q == sync[s]
                  removed == q.known \ Shown
              IN /\ OneEach
                 /\ kind = "proxmox" => Shown = q.items
                 /\ kind = "netbox" =>
                       /\ Shown \in {q.items, q.items \cup q.known}
                       /\ q.allow => Shown = q.items
                       /\ ~q.allow => /\ removed # q.known \/ q.known = {}
                                      /\ \/ Cardinality(removed) <= Limit
                                         \/ Cardinality(removed) * Share <= Cardinality(q.known)]_intVars

=============================================================================
