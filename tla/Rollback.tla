------------------------------- MODULE Rollback -------------------------------
(***************************************************************************)
(* The files of a repository and what a cancellation makes of them: the    *)
(* baseline that a proposal copies, the manifest of the files that results *)
(* of workers name (src/rollback/store.ts), and the commands that use them *)
(* (proposalProject, archiveProject and the two finalizeCancellation).     *)
(*                                                                         *)
(* There is one manifest file in a repository, and a baseline directory    *)
(* for each name of a change.  The kind of a manifest entry is left out:   *)
(* at a restore it says no more than whether the baseline has the file.    *)
(* One command at a time is served.  `origin`, `tracked` and `spoiled` are *)
(* history.                                                                *)
(*                                                                         *)
(* A definition whose comment begins with "Fault" is a wrong variant of    *)
(* the one after it.                                                       *)
(***************************************************************************)
EXTENDS FiniteSets, Integers

CONSTANTS
    Names,      \* names of changes
    None,       \* no name
    Files,      \* the files of the repository
    MaxCrashes  \* bound on the crashes

ASSUME NoneAssumption == None \notin Names
ASSUME MaxCrashesAssumption == MaxCrashes \in Nat

VARIABLES
    live,       \* what each file holds
    base,       \* per name: does baselineRoot exist, and its copies
    manifest,   \* the name and the files of rollback-manifest.json
    dirs,       \* the change directories under openspec/changes
    rec,        \* the record: its change and whether that is done
    cmd,        \* the command in progress
    origin,     \* the files as they were when the change was proposed
    tracked,    \* the files recorded for the change
    spoiled,    \* what befell its baseline
    crashes

vars == <<live, base, manifest, dirs, rec, cmd, origin, tracked, spoiled, crashes>>

\* "old" and "new" are versions of the user, "work" is one of a worker.
Contents == {"none", "old", "new", "work"}

NoBaseline == [dir |-> FALSE, copy |-> [f \in Files |-> "none"]]
NoManifest == [change |-> None, files |-> {}]
NoChange == [change |-> None, done |-> FALSE]
NoCommand == [op |-> "none", pc |-> "idle", name |-> None, left |-> {}]

Commands == [op : {"none", "propose", "cancel", "archive"},
             pc : {"idle", "copy", "new", "record", "restore", "remove",
                   "clear", "forget", "close"},
             name : Names \cup {None}, left : SUBSET Files]

TypeOK ==
    /\ live \in [Files -> Contents]
    /\ base \in [Names -> [dir : BOOLEAN, copy : [Files -> Contents]]]
    /\ manifest \in [change : Names \cup {None}, files : SUBSET Files]
    /\ dirs \subseteq Names
    /\ rec \in [change : Names \cup {None}, done : BOOLEAN]
    /\ cmd \in Commands
    /\ origin \in [Files -> Contents]
    /\ tracked \subseteq Files
    /\ spoiled \subseteq {"reused", "replaced", "copy", "torn"}
    /\ crashes \in 0..MaxCrashes
    /\ rec.done => rec.change # None

-----------------------------------------------------------------------------
(* The user and the worker.                                                *)

\* The user edits files; not those of the worker, which a cancellation takes
\* back, and not while a command is at them.
UserEdits ==
    /\ cmd.pc = "idle"
    /\ \E f \in Files \ tracked, c \in {"none", "new"} : live' = [live EXCEPT ![f] = c]
    /\ UNCHANGED <<base, manifest, dirs, rec, cmd, origin, tracked, spoiled, crashes>>

\* The manifest of a change: any other is not touched.
HasManifest(n) == manifest.change = n

\* Fault: a result replaces the list of the results before it.
OnlyLast(files) == files

\* recordTouchedFiles adds the files of a result to the manifest.
Touched(files) == manifest.files \cup files

\* A worker changed files, and its result names them.
WorkerReports ==
    /\ rec.change \in dirs /\ ~rec.done /\ cmd.pc = "idle"
    /\ \E files \in SUBSET Files \ {{}} :
          /\ \E new \in [files -> {"none", "work"}] :
                live' = [f \in Files |-> IF f \in files THEN new[f] ELSE live[f]]
          /\ tracked' = tracked \cup files
          /\ manifest' = IF HasManifest(rec.change)
                         THEN [manifest EXCEPT !.files = Touched(files)] ELSE manifest
    /\ UNCHANGED <<base, dirs, rec, cmd, origin, spoiled, crashes>>

\* All tasks are done.
Finish ==
    /\ rec.change \in dirs /\ cmd.pc = "idle"
    /\ rec' = [rec EXCEPT !.done = TRUE]
    /\ UNCHANGED <<live, base, manifest, dirs, cmd, origin, tracked, spoiled, crashes>>

-----------------------------------------------------------------------------
(* proposalProject.  A change that is done gives way to another one.       *)

\* initializeBaseline takes a baseline for its own that is there already ...
Reuses(n) == HasManifest(n) /\ base[n].dir

\* ... and else begins a new one.
Propose(n) ==
    /\ cmd.pc = "idle"
    /\ rec.change = None \/ rec.done
    /\ n \notin dirs
    /\ IF Reuses(n)
       THEN /\ cmd' = [op |-> "propose", pc |-> "new", name |-> n, left |-> {}]
            /\ UNCHANGED base
       ELSE /\ cmd' = [op |-> "propose", pc |-> "copy", name |-> n, left |-> Files]
            /\ base' = [base EXCEPT ![n] = [NoBaseline EXCEPT !.dir = TRUE]]
    /\ UNCHANGED <<live, manifest, dirs, rec, origin, tracked, spoiled, crashes>>

Copy(f) ==
    /\ cmd.pc = "copy" /\ f \in cmd.left
    /\ base' = [base EXCEPT ![cmd.name].copy[f] = live[f]]
    /\ cmd' = [cmd EXCEPT !.left = @ \ {f}]
    /\ UNCHANGED <<live, manifest, dirs, rec, origin, tracked, spoiled, crashes>>

\* History: a finished change on record loses its manifest.
Replaced == IF rec.change # None THEN spoiled \cup {"replaced"} ELSE spoiled

WriteManifest ==
    /\ cmd.pc = "copy" /\ cmd.left = {}
    /\ manifest' = [change |-> cmd.name, files |-> {}]
    /\ cmd' = [cmd EXCEPT !.pc = "new"]
    /\ spoiled' = Replaced
    /\ UNCHANGED <<live, base, dirs, rec, origin, tracked, crashes>>

\* openspec new change.
NewChange ==
    /\ cmd.pc = "new"
    /\ dirs' = dirs \cup {cmd.name}
    /\ cmd' = [cmd EXCEPT !.pc = "record"]
    /\ UNCHANGED <<live, base, manifest, rec, origin, tracked, spoiled, crashes>>

\* An OpenSpecCommandError is answered, and baseline and manifest stay ...
NewChangeFails ==
    /\ cmd.pc = "new"
    /\ cmd' = NoCommand
    /\ UNCHANGED <<live, base, manifest, dirs, rec, origin, tracked, spoiled, crashes>>

\* ... any other error clears both, whatever change is on record.
ProposeFails ==
    /\ cmd.op = "propose" /\ cmd.pc # "idle"
    /\ base' = [base EXCEPT ![cmd.name] = NoBaseline]
    /\ manifest' = NoManifest
    /\ spoiled' = Replaced
    /\ cmd' = NoCommand
    /\ UNCHANGED <<live, dirs, rec, origin, tracked, crashes>>

RecordChange ==
    /\ cmd.pc = "record"
    /\ rec' = [change |-> cmd.name, done |-> FALSE]
    /\ origin' = live /\ tracked' = {}
    /\ spoiled' = IF base[cmd.name].copy = live /\ manifest.files = {} THEN {} ELSE {"reused"}
    /\ cmd' = NoCommand
    /\ UNCHANGED <<live, base, manifest, dirs, crashes>>

-----------------------------------------------------------------------------
(* cancelProject and finalizeCancellation.                                 *)

\* Fault: every file of the baseline is restored.
ToRestoreAll(n) == Files

\* restoreTouchedFiles goes through the manifest; without it, it throws, and
\* the cancellation goes on.
ToRestore(n) == IF HasManifest(n) THEN manifest.files ELSE {}

Cancel ==
    /\ cmd.pc = "idle" /\ rec.change # None
    /\ cmd' = [op |-> "cancel", pc |-> "restore", name |-> rec.change,
               left |-> ToRestore(rec.change)]
    /\ UNCHANGED <<live, base, manifest, dirs, rec, origin, tracked, spoiled, crashes>>

\* A file without a copy in the baseline is removed.
Restore(f) ==
    /\ cmd.pc = "restore" /\ f \in cmd.left
    /\ live' = [live EXCEPT ![f] = base[cmd.name].copy[f]]
    /\ cmd' = [cmd EXCEPT !.left = @ \ {f}]
    /\ UNCHANGED <<base, manifest, dirs, rec, origin, tracked, spoiled, crashes>>

\* A copy fails: the other files are left as they are.
RestoreFails ==
    /\ cmd.pc = "restore" /\ cmd.left # {}
    /\ cmd' = [cmd EXCEPT !.pc = "remove", !.left = {}]
    /\ spoiled' = spoiled \cup {"copy"}
    /\ UNCHANGED <<live, base, manifest, dirs, rec, origin, tracked, crashes>>

Restored ==
    /\ cmd.pc = "restore" /\ cmd.left = {}
    /\ cmd' = [cmd EXCEPT !.pc = "remove"]
    /\ UNCHANGED <<live, base, manifest, dirs, rec, origin, tracked, spoiled, crashes>>

\* openspec archive, which takes the directory away, or fails.
Archive ==
    /\ cmd.pc = "idle" /\ rec.done /\ rec.change \in dirs
    /\ cmd' = [op |-> "archive", pc |-> "remove", name |-> rec.change, left |-> {}]
    /\ UNCHANGED <<live, base, manifest, dirs, rec, origin, tracked, spoiled, crashes>>

ArchiveFails ==
    /\ cmd.op = "archive" /\ cmd.pc = "remove"
    /\ cmd' = NoCommand
    /\ UNCHANGED <<live, base, manifest, dirs, rec, origin, tracked, spoiled, crashes>>

\* The change directory is gone ...
RemoveChange ==
    /\ cmd.pc = "remove"
    /\ dirs' = dirs \ {cmd.name}
    /\ cmd' = [cmd EXCEPT !.pc = "clear"]
    /\ UNCHANGED <<live, base, manifest, rec, origin, tracked, spoiled, crashes>>

\* ... clear() removes the baseline ...
ClearBaseline ==
    /\ cmd.pc = "clear"
    /\ base' = [base EXCEPT ![cmd.name] = NoBaseline]
    /\ cmd' = [cmd EXCEPT !.pc = "forget"]
    /\ UNCHANGED <<live, manifest, dirs, rec, origin, tracked, spoiled, crashes>>

\* Fault: the manifest is kept.
KeptManifest == manifest

\* clear() and clearChangeRuntimeFiles remove the manifest of any change.
ManifestAfterClear == NoManifest

ClearManifest ==
    /\ cmd.pc = "forget"
    /\ manifest' = ManifestAfterClear
    /\ cmd' = [cmd EXCEPT !.pc = "close"]
    /\ UNCHANGED <<live, base, dirs, rec, origin, tracked, spoiled, crashes>>

\* Fault: the status of before is kept.
ClosedAsDone == [change |-> None, done |-> rec.done]

\* The status is idle or archived, without a change.
Closed == NoChange

Close ==
    /\ cmd.pc = "close"
    /\ rec' = Closed
    /\ tracked' = {} /\ spoiled' = {} /\ origin' = [f \in Files |-> "none"]
    /\ cmd' = NoCommand
    /\ UNCHANGED <<live, base, manifest, dirs, crashes>>

\* A crash ends the command where it is.  (History: clear() was half through,
\* or an archive was only not yet on record.)
Crash ==
    /\ cmd.pc # "idle" /\ crashes < MaxCrashes
    /\ crashes' = crashes + 1
    /\ spoiled' = IF cmd.pc = "forget" \/ (cmd.op = "archive" /\ cmd.pc = "close")
                  THEN spoiled \cup {"torn"} ELSE spoiled
    /\ cmd' = NoCommand
    /\ UNCHANGED <<live, base, manifest, dirs, rec, origin, tracked>>

-----------------------------------------------------------------------------
(* The specification.                                                      *)

Init ==
    /\ live \in [Files -> {"none", "old"}]
    /\ base = [n \in Names |-> NoBaseline]
    /\ manifest = NoManifest
    /\ dirs = {}
    /\ rec = NoChange
    /\ cmd = NoCommand
    /\ origin = [f \in Files |-> "none"]
    /\ tracked = {} /\ spoiled = {}
    /\ crashes = 0

Next ==
    \/ UserEdits \/ WorkerReports \/ Finish
    \/ \E n \in Names : Propose(n)
    \/ \E f \in Files : Copy(f) \/ Restore(f)
    \/ WriteManifest \/ NewChange \/ NewChangeFails \/ ProposeFails \/ RecordChange
    \/ Cancel \/ RestoreFails \/ Restored
    \/ Archive \/ ArchiveFails \/ RemoveChange \/ ClearBaseline \/ ClearManifest \/ Close
    \/ Crash

Spec == Init /\ [][Next]_vars

-----------------------------------------------------------------------------
(* What the rollback promises.                                             *)

\* README: cancel "restores tracked files from snapshots".  When the baseline
\* is about to be removed, every file that a result named is as it was when
\* the change was proposed, also if crashes cut off other cancellations,
\* archives and proposals before.  `spoiled` names the ways this fails: a
\* proposal that took over a baseline of a failed one, a manifest lost to a
\* proposal beside a finished change, a copy that failed, and a crash when
\* clear() was half through or an archive not yet on record.
CancelRestores ==
    cmd.op = "cancel" /\ cmd.pc = "clear" /\ spoiled = {} =>
        \A f \in tracked : live[f] = origin[f]

\* "... instead of doing a blanket Git reset": a cancellation, whether or not
\* it is one that crashed before or follows an archive that did, changes no
\* file but those a result of this change named; unless its proposal took over
\* a manifest with the files of another one.
OthersKept ==
    [][cmd.op = "cancel" /\ "reused" \notin spoiled =>
          \A f \in Files \ tracked : live'[f] = live[f]]_vars
=============================================================================
