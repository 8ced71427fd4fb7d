-------------------------- MODULE DelayedPackages ---------------------------
(***************************************************************************)
(* Packages of scripts: the package manager imports and removes them, at   *)
(* once or, if a panel of this session uses the package, on the next start *)
(* of foobar2000, when ProcessDelayedPackages renames and removes          *)
(* directories.                                                            *)
(*                                                                         *)
(* A file operation is done, or it fails (a fault): a rename then does     *)
(* nothing, a removal or a copy may do a part.  The program may crash      *)
(* between any two operations; a crash in the midst of one is a failure    *)
(* and then a crash.                                                       *)
(***************************************************************************)
EXTENDS Integers

CONSTANTS
    Package,     \* the identifiers of packages
    MaxImports,  \* bound: imports
    MaxFaults    \* bound: failed operations and crashes

ASSUME BoundAssumption == MaxImports \in Nat /\ MaxFaults \in Nat

VARIABLES
    installed,  \* what the directory of each package holds
    staged,     \* the same of TempFolder_PackagesToInstall
    backup,     \* the same of TempFolder_PackageBackups
    removal,    \* the packages with a mark in TempFolder_PackagesToRemove
    inUse,      \* the packages with a mark in TempFolder_PackagesInUse
    pc,         \* "running", or where ProcessDelayedPackages is
    todo,       \* entries of the directory that it has yet to visit
    cur,        \* the package that it updates
    old,        \* history: what that package held before
    imports,    \* number of the last import
    faults      \* failed operations and crashes so far

marks == <<removal, inUse>>
vars == <<installed, staged, backup, marks, pc, todo, cur, old, imports, faults>>

\* What a directory may hold, but for the package of import n, which is n.
Missing == 0
Broken == -1
RecoveryPackage == -2
Content == {Missing, Broken, RecoveryPackage} \cup 1..MaxImports

Complete(content) == content > 0
NoPackage == "none"

Init ==
    /\ installed = [p \in Package |-> Missing]
    /\ staged = [p \in Package |-> Missing]
    /\ backup = [p \in Package |-> Missing]
    /\ removal = {} /\ inUse = {}
    /\ pc = "running" /\ todo = {}
    /\ cur = NoPackage /\ old = Missing
    /\ imports = 0 /\ faults = 0

Fault == faults < MaxFaults /\ faults' = faults + 1
NoFault == UNCHANGED faults

Set(dir, p, content) == [dir EXCEPT ![p] = content]

\* What a removal that fails leaves of a directory.
Rest(content) == IF content = Missing THEN {Missing} ELSE {content, Broken}

------------------------------------------------------------------------------
(* The session *)

\* A panel loads the script of a package.
MarkPackageAsInUse(p) ==
    /\ pc = "running" /\ installed[p] # Missing
    /\ inUse' = inUse \cup {p}
    /\ UNCHANGED <<installed, staged, backup, removal, pc, todo, cur, old, imports, faults>>

MustWait(p) == installed[p] # Missing /\ p \in inUse

\* ClearPackageDelayStatus, which fails at one mark or the other.
ClearFails(p) ==
    /\ Fault
    /\ \/ UNCHANGED <<removal, staged>>
       \/ /\ removal' = removal \ {p}
          /\ \E rest \in Rest(staged[p]) : staged' = Set(staged, p, rest)

\* ImportPackage for a package in use: MarkPackageAsToBeInstalled.
ImportLater(p) ==
    /\ pc = "running" /\ MustWait(p)
    /\ imports < MaxImports
    /\ imports' = imports + 1
    /\ \/ /\ NoFault
          /\ removal' = removal \ {p}
          /\ staged' = Set(staged, p, imports + 1)
       \/ /\ Fault
          /\ removal' = removal \ {p}
          /\ staged' = Set(staged, p, Broken)
       \/ ClearFails(p)
    /\ UNCHANGED <<installed, backup, inUse, pc, todo, cur, old>>

\* ImportPackage for any other package: the old one is removed first.
ImportNow(p) ==
    /\ pc = "running" /\ ~MustWait(p)
    /\ imports < MaxImports
    /\ imports' = imports + 1
    /\ \/ NoFault /\ installed' = Set(installed, p, imports + 1)
       \/ /\ Fault
          /\ \E rest \in Rest(installed[p]) \cup {Broken} : installed' = Set(installed, p, rest)
    /\ UNCHANGED <<staged, backup, marks, pc, todo, cur, old>>

StillStaged(p) == staged

Unstaged(p) == Set(staged, p, Missing)

\* OnDeletePackage for a package in use: MarkPackageAsToBeRemoved.
RemoveLater(p) ==
    /\ pc = "running" /\ MustWait(p)
    /\ \/ /\ NoFault
          /\ staged' = Unstaged(p)
          /\ removal' = removal \cup {p}
       \/ ClearFails(p)
    /\ UNCHANGED <<installed, backup, inUse, pc, todo, cur, old, imports>>

RemoveNow(p) ==
    /\ pc = "running" /\ installed[p] # Missing /\ ~MustWait(p)
    /\ \/ NoFault /\ installed' = Set(installed, p, Missing)
       \/ Fault /\ \E rest \in Rest(installed[p]) : installed' = Set(installed, p, rest)
    /\ UNCHANGED <<staged, backup, marks, pc, todo, cur, old, imports>>

\* The user puts the backup back, or does without it.
UserRecovers(p) ==
    /\ pc = "running" /\ backup[p] # Missing
    /\ \E content \in {backup[p], installed[p]} : installed' = Set(installed, p, content)
    /\ backup' = Set(backup, p, Missing)
    /\ UNCHANGED <<staged, marks, pc, todo, cur, old, imports, faults>>

------------------------------------------------------------------------------
(* ProcessDelayedPackages *)

\* The marks of packages in use are those of one session.
ForgetUse == {}

\* foobar2000 starts anew: after it was closed, or as it crashed.
Start ==
    /\ IF pc = "running" THEN NoFault ELSE Fault
    /\ pc' = "removing"
    /\ inUse' = ForgetUse
    /\ todo' = removal
    /\ cur' = NoPackage /\ old' = Missing
    /\ UNCHANGED <<installed, staged, backup, removal, imports>>

\* An exception: what is left is delayed to the next start.
Throw == pc' = "running" /\ todo' = {}

\* RemovePackages, for one package.
RemovePackage(p) ==
    /\ pc = "removing" /\ p \in todo
    /\ \/ /\ NoFault
          /\ installed' = Set(installed, p, Missing)
          /\ removal' = removal \ {p}
          /\ staged' = Set(staged, p, Missing)
          /\ todo' = todo \ {p} /\ UNCHANGED pc
       \/ /\ Fault /\ Throw
          /\ \E rest \in Rest(installed[p]) : installed' = Set(installed, p, rest)
          /\ UNCHANGED <<removal, staged>>
       \/ /\ ClearFails(p) /\ Throw
          /\ installed' = Set(installed, p, Missing)
    /\ UNCHANGED <<backup, inUse, cur, old, imports>>

NothingToRecover == TRUE

NoBackupsLeft == \A p \in Package : backup[p] = Missing

\* CheckPackageBackups.
CheckBackups ==
    /\ pc = "removing" /\ todo = {}
    /\ IF NoBackupsLeft
         THEN pc' = "updating" /\ todo' = {p \in Package : staged[p] # Missing}
         ELSE Throw
    /\ UNCHANGED <<installed, staged, backup, marks, cur, old, imports, faults>>

DropUpdate(p) ==
    \E rest \in {Missing} \cup Rest(staged[p]) : staged' = Set(staged, p, rest)

NotBackedUp(p) == backup

BackedUp(p) == Set(backup, p, installed[p])

\* UpdatePackages saves the old version of a package.
SaveOldVersion(p) ==
    /\ pc = "updating" /\ p \in todo
    /\ installed[p] # Missing
    /\ backup' = BackedUp(p)
    /\ installed' = Set(installed, p, Missing)
    /\ cur' = p /\ old' = installed[p]
    /\ todo' = todo \ {p}
    /\ pc' = "replacing"
    /\ UNCHANGED <<staged, marks, imports, faults>>

\* It cannot be saved: the update is dropped, as far as its removal succeeds.
SkipUpdate(p) ==
    /\ pc = "updating" /\ p \in todo
    /\ \/ installed[p] = Missing /\ NoFault /\ staged' = Unstaged(p)
       \/ Fault /\ DropUpdate(p)
    /\ todo' = todo \ {p}
    /\ UNCHANGED <<installed, backup, marks, pc, cur, old, imports>>

\* The new version is renamed to the place of the old one.
Replace ==
    /\ pc = "replacing"
    /\ \/ /\ NoFault
          /\ installed' = Set(installed, cur, staged[cur])
          /\ staged' = Set(staged, cur, Missing)
          /\ pc' = "dropping"
       \/ Fault /\ pc' = "recovering" /\ UNCHANGED <<installed, staged>>
    /\ UNCHANGED <<backup, marks, todo, cur, old, imports>>

\* The delay status is cleared, whose failure is no filesystem_error here, and
\* the backup removed.
DropBackup ==
    /\ pc = "dropping"
    /\ \/ NoFault /\ backup' = Set(backup, cur, Missing) /\ pc' = "updating" /\ UNCHANGED todo
       \/ Fault /\ Throw /\ UNCHANGED backup
       \/ /\ Fault /\ pc' = "recovering" /\ UNCHANGED todo
          /\ \E rest \in Rest(backup[cur]) : backup' = Set(backup, cur, rest)
    /\ UNCHANGED <<installed, staged, marks, cur, old, imports>>

\* The recovery process: the directory is emptied and gets the recovery
\* package; the exception goes on, and the new version is removed.
Recover ==
    /\ pc = "recovering"
    /\ \/ /\ NoFault
          /\ installed' = Set(installed, cur, RecoveryPackage) /\ staged' = Unstaged(cur)
       \/ /\ Fault
          /\ installed' = Set(installed, cur, Broken) /\ DropUpdate(cur)
    /\ Throw
    /\ UNCHANGED <<backup, marks, cur, old, imports>>

\* Every update was visited; TempFolder_PackagesToInstall is removed, if it can.
EndUpdate ==
    /\ pc = "updating" /\ todo = {}
    /\ \/ NoFault /\ staged' = [p \in Package |-> Missing]
       \/ Fault /\ UNCHANGED staged
    /\ pc' = "running"
    /\ UNCHANGED <<installed, backup, marks, todo, cur, old, imports>>

------------------------------------------------------------------------------
(* Specification *)

Session(p) ==
    \/ MarkPackageAsInUse(p) \/ UserRecovers(p)
    \/ ImportLater(p) \/ ImportNow(p) \/ RemoveLater(p) \/ RemoveNow(p)

Processing ==
    \/ \E p \in Package : RemovePackage(p) \/ SaveOldVersion(p) \/ SkipUpdate(p)
    \/ CheckBackups \/ Replace \/ DropBackup \/ Recover \/ EndUpdate

Next == (\E p \in Package : Session(p)) \/ Start \/ Processing

Spec == Init /\ [][Next]_vars

------------------------------------------------------------------------------
(* Properties *)

\* Type invariant.
TypeOK ==
    /\ installed \in [Package -> Content]
    /\ staged \in [Package -> Content \ {RecoveryPackage}]
    /\ backup \in [Package -> Content]
    /\ removal \subseteq Package /\ inUse \subseteq Package /\ todo \subseteq Package
    /\ pc \in {"running", "removing", "updating", "replacing", "dropping", "recovering"}
    /\ cur \in Package \cup {NoPackage} /\ old \in Content
    /\ pc \in {"replacing", "dropping", "recovering"} => cur \in Package
    /\ pc # "running" => inUse = {}
    /\ imports \in 0..MaxImports /\ faults \in 0..MaxFaults

\* A package is not both to be removed and to be updated, whatever failed.
DelayIsSingle == \A p \in removal : staged[p] = Missing

\* While ProcessDelayedPackages replaces a package its old version is saved, and
\* the backup is that of no other update, though starts may have crashed before.
OldVersionIsSaved ==
    pc \in {"replacing", "dropping"} =>
      backup[cur] = old /\ \A p \in Package \ {cur} : backup[p] = Missing

HasComplete(p) == Complete(installed[p]) \/ Complete(backup[p])

\* A step of a start that loses the last complete copy of a package: an update
\* whose copy was cut short has replaced it, or a recovery wipes a new version
\* though the backup is not, or no more, complete.
IsKnownLoss(p) ==
    \/ pc = "dropping" /\ cur = p /\ installed[p] = Broken
    \/ pc = "recovering" /\ cur = p /\ ~Complete(backup[p])

\* At no other step of a start is the last complete copy of a package lost, save
\* that of one to be removed; whatever failed, and whenever starts crashed.
LastCopyIsKept ==
    [][pc # "running" =>
         \A p \in Package \ removal :
           HasComplete(p) => HasComplete(p)' \/ IsKnownLoss(p)]_vars

\* The recovery package says of the backup folder: "it contains your old package
\* content".
BackupIsOldContent == pc = "recovering" => backup[cur] = old

=============================================================================
