----------------------------- MODULE Privilege -----------------------------
(* internal/privilege: the effective IDs of the whole process, and the       *)
(* RWMutex that keeps privileged operations (raw sockets, device binds)      *)
(* apart from file access done as the invoking user.                         *)
(*                                                                           *)
(* A caller of AsRealUser reads the IDs before it has the lock, as the code  *)
(* does.  The lock is Go's RWMutex: a waiting writer keeps new readers out,  *)
(* and Unlock lets every reader in that was waiting.                         *)
EXTENDS Naturals, FiniteSets

CONSTANTS
    Reals,       \* callers of AsRealUser: the watcher, the report
    Raws,        \* callers of Privileged: sockets being opened or bound
    SetUid,      \* mping is installed setuid root
    SetGid,      \* mping is installed setgid root
    MaxFailed    \* bound: system calls that fail, crashes, deaths

ASSUME PrivilegeAssumption ==
    /\ SetUid \in BOOLEAN /\ SetGid \in BOOLEAN
    /\ MaxFailed \in Nat

VARIABLES
    ids,        \* the effective [user, group] of the process
    real,       \* where each caller of AsRealUser is
    saved,      \* the effective IDs it read, and restores
    raw,        \* where each caller of Privileged is
    lost,       \* a restore failed; the caller was told
    failed

privVars == <<ids, real, saved, raw, lost>>

Ids == [user: {"root", "user"}, group: {"root", "user"}]

RealIds == [user |-> "user", group |-> "user"]

Installed ==
    [user  |-> IF SetUid THEN "root" ELSE "user",
     group |-> IF SetGid THEN "root" ELSE "user"]

Fails == failed < MaxFailed /\ failed' = failed + 1

PrivInit ==
    /\ ids = Installed
    /\ real = [r \in Reals |-> "idle"]
    /\ saved = [r \in Reals |-> Installed]
    /\ raw = [w \in Raws |-> "idle"]
    /\ lost = FALSE

Locked == {"dropGroup", "dropUser", "undoGroup", "inside",
           "restoreUser", "restoreGroup"}

Holders == {r \in Reals : real[r] \in Locked}

Moves(r, from, to) == real[r] = from /\ real' = [real EXCEPT ![r] = to]

--------------------------------------------------------------------------
(* Privileged *)

\* mu.RLock: at once when no writer holds the lock or waits for it.
RLock(w) ==
    /\ raw[w] = "idle"
    /\ raw' = [raw EXCEPT ![w] =
                 IF \A r \in Reals : real[r] \notin Locked \cup {"wants"}
                 THEN "inside" ELSE "wants"]
    /\ UNCHANGED <<ids, real, saved, lost, failed>>

RUnlock(w) ==
    /\ raw[w] = "inside"
    /\ raw' = [raw EXCEPT ![w] = "idle"]
    /\ UNCHANGED <<ids, real, saved, lost, failed>>

(* AsRealUser *)

\* The effective user is read first, the effective group after it.
ReadsUser(r) ==
    /\ Moves(r, "idle", "readGroup")
    /\ saved' = [saved EXCEPT ![r].user = ids.user]
    /\ UNCHANGED <<ids, raw, lost, failed>>

\* Equal to the real IDs: fn runs without the lock.
ReadsGroup(r) ==
    LET read == [saved[r] EXCEPT !.group = ids.group]
    IN  /\ Moves(r, "readGroup", IF read = RealIds THEN "plain" ELSE "wants")
        /\ saved' = [saved EXCEPT ![r] = read]
        /\ UNCHANGED <<ids, raw, lost, failed>>

PlainDone(r) ==
    /\ Moves(r, "plain", "idle")
    /\ UNCHANGED <<ids, saved, raw, lost, failed>>

\* A lock that admits readers beside the writer.
SharedLock(r) ==
    /\ Holders = {}
    /\ Moves(r, "wants", "dropGroup")
    /\ UNCHANGED <<ids, saved, raw, lost, failed>>

Lock(r) ==
    /\ Holders = {}
    /\ \A w \in Raws : raw[w] # "inside"
    /\ Moves(r, "wants", "dropGroup")
    /\ UNCHANGED <<ids, saved, raw, lost, failed>>

\* mu.Unlock admits the readers that were waiting.
Admitted == [w \in Raws |-> IF raw[w] = "wants" THEN "inside" ELSE raw[w]]

\* Leaves AsRealUser: the deferred Unlock.
Returns(r, from) == Moves(r, from, "idle") /\ raw' = Admitted

DropsGroup(r) ==
    \/ /\ Moves(r, "dropGroup", "dropUser")
       /\ ids' = [ids EXCEPT !.group = RealIds.group]
       /\ UNCHANGED <<saved, raw, lost, failed>>
    \/ /\ Returns(r, "dropGroup") /\ Fails
       /\ UNCHANGED <<ids, saved, lost>>

DropsUser(r) ==
    \/ /\ Moves(r, "dropUser", "inside")
       /\ ids' = [ids EXCEPT !.user = RealIds.user]
       /\ UNCHANGED <<saved, raw, lost, failed>>
    \/ /\ Moves(r, "dropUser", "undoGroup") /\ Fails
       /\ UNCHANGED <<ids, saved, raw, lost>>

\* The user could not be dropped: the group is put back and fn is not run.
UndoesGroup(r) ==
    /\ Returns(r, "undoGroup")
    /\ \/ /\ ids' = [ids EXCEPT !.group = saved[r].group]
          /\ UNCHANGED <<lost, failed>>
       \/ Fails /\ lost' = TRUE /\ UNCHANGED ids
    /\ UNCHANGED saved

FnDone(r) ==
    /\ Moves(r, "inside", "restoreUser")
    /\ UNCHANGED <<ids, saved, raw, lost, failed>>

\* restore: the user first, so that the group change is permitted again.
RestoresUser(r) ==
    \/ /\ Moves(r, "restoreUser", "restoreGroup")
       /\ ids' = [ids EXCEPT !.user = saved[r].user]
       /\ UNCHANGED <<saved, raw, lost, failed>>
    \/ /\ Returns(r, "restoreUser") /\ Fails
       /\ lost' = TRUE
       /\ UNCHANGED <<ids, saved>>

RestoresGroup(r) ==
    /\ Returns(r, "restoreGroup")
    /\ \/ /\ ids' = [ids EXCEPT !.group = saved[r].group]
          /\ UNCHANGED <<lost, failed>>
       \/ Fails /\ lost' = TRUE /\ UNCHANGED ids
    /\ UNCHANGED saved

AsRealUserStep(r) ==
    \/ ReadsGroup(r) \/ PlainDone(r) \/ DropsGroup(r) \/ DropsUser(r)
    \/ UndoesGroup(r) \/ FnDone(r) \/ RestoresUser(r) \/ RestoresGroup(r)

--------------------------------------------------------------------------
(* Properties *)

PrivTypeOK ==
    /\ ids \in Ids /\ lost \in BOOLEAN /\ failed \in 0 .. MaxFailed
    /\ real \in [Reals -> Locked \cup {"idle", "readGroup", "plain", "wants"}]
    /\ saved \in [Reals -> Ids]
    /\ raw \in [Raws -> {"idle", "wants", "inside"}]

\* An operation inside Privileged has the privileges mping was installed
\* with: no AsRealUser section, its switch or its way back overlaps it
\* (privilege.go: RWMutex, Privileged and AsRealUser).
PrivilegedKeepsPrivileges ==
    (\E w \in Raws : raw[w] = "inside") => ids = Installed \/ lost

\* Between the sections the process has the IDs it was installed with,
\* whichever of the four switching calls failed, unless the failure was one
\* of restoring and was reported (AsRealUser's deferred restore and rollback).
PrivilegesRestored == Holders = {} => ids = Installed \/ lost

\* What runs under the lock of AsRealUser has the IDs of the invoking user,
\* even after a failed restore. (It says nothing of a caller that found those IDs
\* before it locked and runs without the lock, "plain".)
SectionsAreReal == \A r \in Reals : real[r] = "inside" => ids = RealIds

\* The IDs of the process are the ones somebody relies on: the installed ones
\* inside Privileged, and whenever no AsRealUser section is open, and the
\* invoking user's inside such a section.
PrivilegesAreGuarded ==
    PrivilegedKeepsPrivileges /\ PrivilegesRestored /\ SectionsAreReal
==========================================================================
