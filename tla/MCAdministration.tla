--------------------------- MODULE MCAdministration ---------------------------
(***************************************************************************)
(* Small instances of Accounts, SignIns, Inventory and FileSockets in one  *)
(* run.  They share no variable: "part" names the one that runs, and the   *)
(* others keep their emptiest state.  Model values are shared between the  *)
(* parts, which keeps the symmetry group small.                            *)
(***************************************************************************)
EXTENDS Accounts, SignIns, Inventory, FileSockets, TLC

VARIABLE part

(* Two folders (those that are also Names) and all Entries, or all Folders *)
(* and one entry.                                                          *)
TreeBounds ==
    /\ part = "inventory" => \A f \in Folders \ Names : folder[f].at = "none"
    /\ part = "tree" => \A x \in Entries \ {CHOOSE y \in Entries : TRUE} : entry[x].at = "none"

(* a tab and one connection, or all Connections *)
SignInBounds ==
    \A t \in Tabs : use[t].at = "none" \/ \E c \in Connections : use[c].at = "none"

(* where the other parts stay *)
IdleAccounts == role = [a \in Accounts |-> "none"]
IdleSignIns == signIn = [s \in SignInIds |-> NoSignIn]
IdleInventory == folder = [f \in Folders |-> NoFolder] /\ entry = [e \in Entries |-> NoEntry]
IdleFileSockets == term = "none"

AdministrationInit ==
    /\ part \in {"accounts", "signIns", "inventory", "tree", "fileSockets"}
    /\ part # "accounts" => IdleAccounts
    /\ Init
    /\ part # "signIns" => IdleSignIns
    /\ SignInsInit
    /\ part \notin {"inventory", "tree"} => IdleInventory
    /\ InventoryInit
    /\ TreeBounds
    /\ part # "fileSockets" => IdleFileSockets
    /\ FileSocketsInit

AccountsPart == part = "accounts" /\ Next /\ UNCHANGED <<part, siVars, invVars, fsVars>>
SignInsPart ==
    /\ part = "signIns" /\ SignInsNext
    /\ UNCHANGED <<part, vars, invVars, fsVars>>
    /\ SignInBounds'
InventoryPart ==
    /\ part \in {"inventory", "tree"} /\ InventoryNext
    /\ UNCHANGED <<part, vars, siVars, fsVars>>
    /\ TreeBounds'
FileSocketsPart ==
    part = "fileSockets" /\ FileSocketsNext /\ UNCHANGED <<part, vars, siVars, invVars>>

AdministrationNext == AccountsPart \/ SignInsPart \/ InventoryPart \/ FileSocketsPart

AdministrationSpec ==
    AdministrationInit /\ [][AdministrationNext]_<<part, vars, siVars, invVars, fsVars>>

AdministrationTypeOK == TypeOK /\ SignInsTypeOK /\ InventoryTypeOK /\ FileSocketsTypeOK

Symmetry == Permutations(Requests) \cup Permutations(Names)
=============================================================================
