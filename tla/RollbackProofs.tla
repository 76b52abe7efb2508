----------------------------- MODULE RollbackProofs -----------------------------
(* What holds of a cancellation for any number of files, changes and       *)
(* crashes.                                                                *)
EXTENDS Rollback, TLAPS

\* Where the command in progress is: what it has done so far, and that its
\* change is the one on record, except for a proposal.
CommandInv ==
    /\ cmd.op = "none" => cmd.pc = "idle"
    /\ cmd.op = "propose" =>
          /\ cmd.name \in Names
          /\ cmd.pc \in {"copy", "new", "record"}
          /\ base[cmd.name].dir
          /\ cmd.pc \in {"new", "record"} => HasManifest(cmd.name)
    /\ cmd.op \in {"cancel", "archive"} =>
          /\ cmd.name = rec.change /\ rec.change # None
          /\ cmd.pc \in {"restore", "remove", "clear", "forget", "close"}
          /\ cmd.pc = "restore" => cmd.op = "cancel"
          /\ cmd.pc # "restore" => cmd.left = {}
          /\ cmd.pc \in {"clear", "forget", "close"} => cmd.name \notin dirs

\* The manifest of the change on record names no file that no result of this
\* change named, and a cancellation has none to restore; unless the proposal
\* took over the files of another one.
NamesTracked ==
    rec.change # None /\ "reused" \notin spoiled =>
        /\ HasManifest(rec.change) => manifest.files \subseteq tracked
        /\ cmd.op = "cancel" => cmd.left \subseteq tracked

\* The change on record has its baseline and a manifest of every tracked file;
\* what a cancellation has behind it is restored.
Intact ==
    /\ HasManifest(rec.change)
    /\ tracked \subseteq manifest.files
    /\ base[rec.change].dir /\ base[rec.change].copy = origin
    /\ cmd.pc = "copy" => cmd.name # rec.change
    /\ cmd.pc \notin {"forget", "close"}
    /\ cmd.op = "cancel" => \A f \in tracked \ cmd.left : live[f] = origin[f]

\* A cancellation restored all of them and then removed the baseline, but the
\* record still has the change.
Gone ==
    /\ HasManifest(rec.change) => cmd.pc = "forget"
    /\ manifest.change \in {None, rec.change}
    /\ rec.change \notin dirs
    /\ cmd.pc = "restore" => cmd.left = {}
    /\ \A f \in tracked : live[f] = origin[f]

\* An archive removes the baseline.
Leaving == cmd.op = "archive" /\ cmd.pc \in {"forget", "close"}

Safe == rec.change # None /\ spoiled = {} => Intact \/ Gone \/ Leaving

Baseline == [dir : BOOLEAN, copy : [Files -> Contents]]

RollInv == TypeOK /\ CommandInv /\ NamesTracked /\ Safe

-----------------------------------------------------------------------------
(* Steps.                                                                  *)

\* At the start no snapshot was taken and nothing is under way.
LEMMA InitRoll == Init => RollInv
  BY NoneAssumption, MaxCrashesAssumption
  DEF Init, RollInv, TypeOK, CommandInv, NamesTracked, Safe, NoBaseline, NoManifest, NoChange,
      NoCommand, Contents, Commands

\* The user and the worker change files, and the worker names them.
LEMMA UserRoll ==
    ASSUME RollInv, UserEdits \/ WorkerReports \/ Finish
    PROVE  RollInv'
<1> USE NoneAssumption, MaxCrashesAssumption
<1>1. CASE UserEdits
  <2>1. TypeOK'
    BY <1>1 DEF UserEdits, NoCommand, RollInv, TypeOK, Commands, Contents, HasManifest
  <2>2. CommandInv'
    BY <1>1 DEF UserEdits, NoCommand, RollInv, CommandInv, TypeOK, Commands, HasManifest
  <2>3. NamesTracked'
    BY <1>1
    DEF UserEdits, NoCommand, RollInv, NamesTracked, CommandInv, TypeOK, Commands, HasManifest
  <2>4. Safe'
    BY <1>1
    DEF UserEdits, NoCommand, RollInv, Safe, CommandInv, NamesTracked, TypeOK, Commands, Intact,
        Gone, Leaving, HasManifest
  <2> QED
    BY <2>1, <2>2, <2>3, <2>4 DEF RollInv
<1>2. CASE WorkerReports
  <2>1. TypeOK'
    BY <1>2 DEF WorkerReports, Touched, RollInv, TypeOK, Commands, Contents, HasManifest
  <2>2. CommandInv'
    BY <1>2 DEF WorkerReports, Touched, RollInv, CommandInv, TypeOK, Commands, HasManifest
  <2>3. NamesTracked'
    BY <1>2
    DEF WorkerReports, Touched, RollInv, NamesTracked, CommandInv, TypeOK, Commands, HasManifest
  <2>4. Safe'
    BY <1>2
    DEF WorkerReports, Touched, RollInv, Safe, CommandInv, NamesTracked, TypeOK, Commands,
        Intact, Gone, Leaving, HasManifest
  <2> QED
    BY <2>1, <2>2, <2>3, <2>4 DEF RollInv
<1>3. CASE Finish
  <2>1. TypeOK'
    BY <1>3 DEF Finish, RollInv, TypeOK, Commands, Contents, HasManifest
  <2>2. CommandInv'
    BY <1>3 DEF Finish, RollInv, CommandInv, TypeOK, Commands, HasManifest
  <2>3. NamesTracked'
    BY <1>3 DEF Finish, RollInv, NamesTracked, CommandInv, TypeOK, Commands, HasManifest
  <2>4. Safe'
    BY <1>3
    DEF Finish, RollInv, Safe, CommandInv, NamesTracked, TypeOK, Commands, Intact, Gone,
        Leaving, HasManifest
  <2> QED
    BY <2>1, <2>2, <2>3, <2>4 DEF RollInv
<1> QED
  BY <1>1, <1>2, <1>3

\* A proposal touches no baseline but its own.
LEMMA ProposeRoll ==
    ASSUME RollInv, \/ (\E n \in Names : Propose(n)) \/ (\E f \in Files : Copy(f))
                    \/ WriteManifest \/ NewChange \/ NewChangeFails \/ ProposeFails
                    \/ RecordChange
    PROVE  RollInv'
<1> USE NoneAssumption, MaxCrashesAssumption
<1>1. CASE \E n \in Names : Propose(n)
  <2>1. TypeOK'
    <3>1. PICK n \in Names : Propose(n)
      BY <1>1
    <3>2. [NoBaseline EXCEPT !.dir = TRUE] \in Baseline
      BY DEF Baseline, NoBaseline, Contents
    <3>3. base' \in [Names -> Baseline]
      BY <3>1, <3>2 DEF Propose, RollInv, TypeOK, Baseline
    <3>4. cmd' \in Commands
      BY <3>1 DEF Propose, Commands
    <3> QED
      BY <3>1, <3>3, <3>4 DEF Propose, RollInv, TypeOK, Baseline
  <2>2. CommandInv'
    BY <1>1 DEF Propose, Reuses, NoBaseline, RollInv, CommandInv, TypeOK, Commands, HasManifest
  <2>3. NamesTracked'
    BY <1>1
    DEF Propose, Reuses, NoBaseline, RollInv, NamesTracked, CommandInv, TypeOK, Commands,
        HasManifest
  <2>4. Safe'
    BY <1>1
    DEF Propose, Reuses, NoBaseline, RollInv, Safe, CommandInv, NamesTracked, TypeOK, Commands,
        Intact, Gone, Leaving, HasManifest
  <2> QED
    BY <2>1, <2>2, <2>3, <2>4 DEF RollInv
<1>2. CASE \E f \in Files : Copy(f)
  <2>1. TypeOK'
    <3>1. PICK f \in Files : f \in cmd.left /\ Copy(f)
      BY <1>2 DEF Copy
    <3>2. cmd.name \in Names /\ live[f] \in Contents
      BY <3>1 DEF Copy, RollInv, CommandInv, TypeOK, Commands
    <3>3. base' = [base EXCEPT ![cmd.name].copy[f] = live[f]]
      BY <3>1 DEF Copy
    <3>4. base' \in [Names -> Baseline]
      BY <3>2, <3>3 DEF RollInv, TypeOK, Baseline
    <3>5. cmd' \in Commands
      BY <3>1 DEF Copy, RollInv, TypeOK, Commands
    <3> QED
      BY <3>1, <3>4, <3>5 DEF Copy, RollInv, TypeOK, Baseline
  <2>2. CommandInv'
    BY <1>2 DEF Copy, RollInv, CommandInv, TypeOK, Commands, HasManifest
  <2>3. NamesTracked'
    BY <1>2 DEF Copy, RollInv, NamesTracked, CommandInv, TypeOK, Commands, HasManifest
  <2>4. Safe'
    BY <1>2
    DEF Copy, RollInv, Safe, CommandInv, NamesTracked, TypeOK, Commands, Intact, Gone, Leaving,
        HasManifest
  <2> QED
    BY <2>1, <2>2, <2>3, <2>4 DEF RollInv
<1>3. CASE WriteManifest
  <2>1. TypeOK'
    BY <1>3 DEF WriteManifest, Replaced, RollInv, TypeOK, Commands, Contents, HasManifest
  <2>2. CommandInv'
    BY <1>3 DEF WriteManifest, Replaced, RollInv, CommandInv, TypeOK, Commands, HasManifest
  <2>3. NamesTracked'
    BY <1>3
    DEF WriteManifest, Replaced, RollInv, NamesTracked, CommandInv, TypeOK, Commands,
        HasManifest
  <2>4. Safe'
    BY <1>3
    DEF WriteManifest, Replaced, RollInv, Safe, CommandInv, NamesTracked, TypeOK, Commands,
        Intact, Gone, Leaving, HasManifest
  <2> QED
    BY <2>1, <2>2, <2>3, <2>4 DEF RollInv
<1>4. CASE NewChange
  <2>1. TypeOK'
    BY <1>4 DEF NewChange, RollInv, CommandInv, TypeOK, Commands
  <2>2. CommandInv'
    BY <1>4 DEF NewChange, RollInv, CommandInv, TypeOK, Commands, HasManifest
  <2>3. NamesTracked'
    BY <1>4 DEF NewChange, RollInv, NamesTracked, CommandInv, TypeOK, Commands, HasManifest
  <2>4. Safe'
    BY <1>4
    DEF NewChange, RollInv, Safe, CommandInv, NamesTracked, TypeOK, Commands, Intact, Gone,
        Leaving, HasManifest
  <2> QED
    BY <2>1, <2>2, <2>3, <2>4 DEF RollInv
<1>5. CASE NewChangeFails
  <2>1. TypeOK'
    BY <1>5 DEF NewChangeFails, NoCommand, RollInv, TypeOK, Commands, Contents, HasManifest
  <2>2. CommandInv'
    BY <1>5 DEF NewChangeFails, NoCommand, RollInv, CommandInv, TypeOK, Commands, HasManifest
  <2>3. NamesTracked'
    BY <1>5
    DEF NewChangeFails, NoCommand, RollInv, NamesTracked, CommandInv, TypeOK, Commands,
        HasManifest
  <2>4. Safe'
    BY <1>5
    DEF NewChangeFails, NoCommand, RollInv, Safe, CommandInv, NamesTracked, TypeOK, Commands,
        Intact, Gone, Leaving, HasManifest
  <2> QED
    BY <2>1, <2>2, <2>3, <2>4 DEF RollInv
<1>6. CASE ProposeFails
  <2>1. TypeOK'
    BY <1>6
    DEF ProposeFails, NoCommand, NoBaseline, NoManifest, Replaced, RollInv, TypeOK, Commands,
        Contents, HasManifest
  <2>2. CommandInv'
    BY <1>6
    DEF ProposeFails, NoCommand, NoBaseline, NoManifest, Replaced, RollInv, CommandInv, TypeOK,
        Commands, HasManifest
  <2>3. NamesTracked'
    BY <1>6
    DEF ProposeFails, NoCommand, NoBaseline, NoManifest, Replaced, RollInv, NamesTracked,
        CommandInv, TypeOK, Commands, HasManifest
  <2>4. Safe'
    BY <1>6
    DEF ProposeFails, NoCommand, NoBaseline, NoManifest, Replaced, RollInv, Safe, CommandInv,
        NamesTracked, TypeOK, Commands, Intact, Gone, Leaving, HasManifest
  <2> QED
    BY <2>1, <2>2, <2>3, <2>4 DEF RollInv
<1>7. CASE RecordChange
  <2>1. TypeOK'
    BY <1>7 DEF RecordChange, NoCommand, RollInv, TypeOK, Commands, Contents, HasManifest
  <2>2. CommandInv'
    BY <1>7 DEF RecordChange, NoCommand, RollInv, CommandInv, TypeOK, Commands, HasManifest
  <2>3. NamesTracked'
    BY <1>7
    DEF RecordChange, NoCommand, RollInv, NamesTracked, CommandInv, TypeOK, Commands,
        HasManifest
  <2>4. Safe'
    BY <1>7
    DEF RecordChange, NoCommand, RollInv, Safe, CommandInv, NamesTracked, TypeOK, Commands,
        Intact, Gone, Leaving, HasManifest
  <2> QED
    BY <2>1, <2>2, <2>3, <2>4 DEF RollInv
<1> QED
  BY <1>1, <1>2, <1>3, <1>4, <1>5, <1>6, <1>7

\* A cancellation restores file after file.
LEMMA CancelRoll ==
    ASSUME RollInv, Cancel \/ (\E f \in Files : Restore(f)) \/ RestoreFails \/ Restored
    PROVE  RollInv'
<1> USE NoneAssumption, MaxCrashesAssumption
<1>1. CASE Cancel
  <2>1. TypeOK'
    BY <1>1 DEF Cancel, ToRestore, RollInv, TypeOK, Commands, Contents, HasManifest
  <2>2. CommandInv'
    BY <1>1 DEF Cancel, ToRestore, RollInv, CommandInv, TypeOK, Commands, HasManifest
  <2>3. NamesTracked'
    BY <1>1 DEF Cancel, ToRestore, RollInv, NamesTracked, CommandInv, TypeOK, Commands, HasManifest
  <2>4. Safe'
    BY <1>1
    DEF Cancel, ToRestore, RollInv, Safe, CommandInv, NamesTracked, TypeOK, Commands, Intact,
        Gone, Leaving, HasManifest
  <2> QED
    BY <2>1, <2>2, <2>3, <2>4 DEF RollInv
<1>2. CASE \E f \in Files : Restore(f)
  <2>1. TypeOK'
    <3>1. PICK f \in Files : f \in cmd.left /\ Restore(f)
      BY <1>2 DEF Restore
    <3>2. cmd.name \in Names
      BY <3>1 DEF Restore, RollInv, CommandInv, TypeOK, Commands
    <3>3. base[cmd.name].copy[f] \in Contents
      BY <3>2 DEF RollInv, TypeOK
    <3>4. live' \in [Files -> Contents]
      BY <3>1, <3>3 DEF Restore, RollInv, TypeOK
    <3>5. cmd' \in Commands
      BY <3>1 DEF Restore, RollInv, TypeOK, Commands
    <3> QED
      BY <3>1, <3>4, <3>5 DEF Restore, RollInv, TypeOK
  <2>2. CommandInv'
    BY <1>2 DEF Restore, RollInv, CommandInv, TypeOK, Commands, HasManifest
  <2>3. NamesTracked'
    BY <1>2 DEF Restore, RollInv, NamesTracked, CommandInv, TypeOK, Commands, HasManifest
  <2>4. Safe'
    BY <1>2
    DEF Restore, RollInv, Safe, CommandInv, NamesTracked, TypeOK, Commands, Intact, Gone,
        Leaving, HasManifest
  <2> QED
    BY <2>1, <2>2, <2>3, <2>4 DEF RollInv
<1>3. CASE RestoreFails
  <2>1. TypeOK'
    BY <1>3 DEF RestoreFails, RollInv, TypeOK, Commands, Contents, HasManifest
  <2>2. CommandInv'
    BY <1>3 DEF RestoreFails, RollInv, CommandInv, TypeOK, Commands, HasManifest
  <2>3. NamesTracked'
    BY <1>3 DEF RestoreFails, RollInv, NamesTracked, CommandInv, TypeOK, Commands, HasManifest
  <2>4. Safe'
    BY <1>3
    DEF RestoreFails, RollInv, Safe, CommandInv, NamesTracked, TypeOK, Commands, Intact, Gone,
        Leaving, HasManifest
  <2> QED
    BY <2>1, <2>2, <2>3, <2>4 DEF RollInv
<1>4. CASE Restored
  <2>1. TypeOK'
    BY <1>4 DEF Restored, RollInv, TypeOK, Commands, Contents, HasManifest
  <2>2. CommandInv'
    BY <1>4 DEF Restored, RollInv, CommandInv, TypeOK, Commands, HasManifest
  <2>3. NamesTracked'
    BY <1>4 DEF Restored, RollInv, NamesTracked, CommandInv, TypeOK, Commands, HasManifest
  <2>4. Safe'
    BY <1>4
    DEF Restored, RollInv, Safe, CommandInv, NamesTracked, TypeOK, Commands, Intact, Gone,
        Leaving, HasManifest
  <2> QED
    BY <2>1, <2>2, <2>3, <2>4 DEF RollInv
<1> QED
  BY <1>1, <1>2, <1>3, <1>4

\* An archive, and the end of both.
LEMMA ClearRoll ==
    ASSUME RollInv, \/ Archive \/ ArchiveFails \/ RemoveChange \/ ClearBaseline \/ ClearManifest
                    \/ Close \/ Crash
    PROVE  RollInv'
<1> USE NoneAssumption, MaxCrashesAssumption
<1>1. CASE Archive
  <2>1. TypeOK'
    BY <1>1 DEF Archive, RollInv, TypeOK, Commands, Contents, HasManifest
  <2>2. CommandInv'
    BY <1>1 DEF Archive, RollInv, CommandInv, TypeOK, Commands, HasManifest
  <2>3. NamesTracked'
    BY <1>1 DEF Archive, RollInv, NamesTracked, CommandInv, TypeOK, Commands, HasManifest
  <2>4. Safe'
    BY <1>1
    DEF Archive, RollInv, Safe, CommandInv, NamesTracked, TypeOK, Commands, Intact, Gone,
        Leaving, HasManifest
  <2> QED
    BY <2>1, <2>2, <2>3, <2>4 DEF RollInv
<1>2. CASE ArchiveFails
  <2>1. TypeOK'
    BY <1>2 DEF ArchiveFails, NoCommand, RollInv, TypeOK, Commands, Contents, HasManifest
  <2>2. CommandInv'
    BY <1>2 DEF ArchiveFails, NoCommand, RollInv, CommandInv, TypeOK, Commands, HasManifest
  <2>3. NamesTracked'
    BY <1>2
    DEF ArchiveFails, NoCommand, RollInv, NamesTracked, CommandInv, TypeOK, Commands,
        HasManifest
  <2>4. Safe'
    BY <1>2
    DEF ArchiveFails, NoCommand, RollInv, Safe, CommandInv, NamesTracked, TypeOK, Commands,
        Intact, Gone, Leaving, HasManifest
  <2> QED
    BY <2>1, <2>2, <2>3, <2>4 DEF RollInv
<1>3. CASE RemoveChange
  <2>1. TypeOK'
    BY <1>3 DEF RemoveChange, RollInv, TypeOK, Commands, Contents, HasManifest
  <2>2. CommandInv'
    BY <1>3 DEF RemoveChange, RollInv, CommandInv, TypeOK, Commands, HasManifest
  <2>3. NamesTracked'
    BY <1>3 DEF RemoveChange, RollInv, NamesTracked, CommandInv, TypeOK, Commands, HasManifest
  <2>4. Safe'
    BY <1>3
    DEF RemoveChange, RollInv, Safe, CommandInv, NamesTracked, TypeOK, Commands, Intact, Gone,
        Leaving, HasManifest
  <2> QED
    BY <2>1, <2>2, <2>3, <2>4 DEF RollInv
<1>4. CASE ClearBaseline
  <2>1. TypeOK'
    BY <1>4 DEF ClearBaseline, NoBaseline, RollInv, TypeOK, Commands, Contents, HasManifest
  <2>2. CommandInv'
    BY <1>4 DEF ClearBaseline, NoBaseline, RollInv, CommandInv, TypeOK, Commands, HasManifest
  <2>3. NamesTracked'
    BY <1>4
    DEF ClearBaseline, NoBaseline, RollInv, NamesTracked, CommandInv, TypeOK, Commands,
        HasManifest
  <2>4. Safe'
    BY <1>4
    DEF ClearBaseline, NoBaseline, RollInv, Safe, CommandInv, NamesTracked, TypeOK, Commands,
        Intact, Gone, Leaving, HasManifest
  <2> QED
    BY <2>1, <2>2, <2>3, <2>4 DEF RollInv
<1>5. CASE ClearManifest
  <2>1. TypeOK'
    BY <1>5
    DEF ClearManifest, ManifestAfterClear, NoManifest, RollInv, TypeOK, Commands, Contents,
        HasManifest
  <2>2. CommandInv'
    BY <1>5
    DEF ClearManifest, ManifestAfterClear, NoManifest, RollInv, CommandInv, TypeOK, Commands,
        HasManifest
  <2>3. NamesTracked'
    BY <1>5
    DEF ClearManifest, ManifestAfterClear, NoManifest, RollInv, NamesTracked, CommandInv,
        TypeOK, Commands, HasManifest
  <2>4. Safe'
    BY <1>5
    DEF ClearManifest, ManifestAfterClear, NoManifest, RollInv, Safe, CommandInv, NamesTracked,
        TypeOK, Commands, Intact, Gone, Leaving, HasManifest
  <2> QED
    BY <2>1, <2>2, <2>3, <2>4 DEF RollInv
<1>6. CASE Close
  <2>1. TypeOK'
    BY <1>6 DEF Close, Closed, NoChange, NoCommand, RollInv, TypeOK, Commands, Contents, HasManifest
  <2>2. CommandInv'
    BY <1>6
    DEF Close, Closed, NoChange, NoCommand, RollInv, CommandInv, TypeOK, Commands, HasManifest
  <2>3. NamesTracked'
    BY <1>6
    DEF Close, Closed, NoChange, NoCommand, RollInv, NamesTracked, CommandInv, TypeOK, Commands,
        HasManifest
  <2>4. Safe'
    BY <1>6
    DEF Close, Closed, NoChange, NoCommand, RollInv, Safe, CommandInv, NamesTracked, TypeOK,
        Commands, Intact, Gone, Leaving, HasManifest
  <2> QED
    BY <2>1, <2>2, <2>3, <2>4 DEF RollInv
<1>7. CASE Crash
  <2>1. TypeOK'
    BY <1>7 DEF Crash, NoCommand, RollInv, TypeOK, Commands, Contents, HasManifest
  <2>2. CommandInv'
    BY <1>7 DEF Crash, NoCommand, RollInv, CommandInv, TypeOK, Commands, HasManifest
  <2>3. NamesTracked'
    BY <1>7 DEF Crash, NoCommand, RollInv, NamesTracked, CommandInv, TypeOK, Commands, HasManifest
  <2>4. Safe'
    BY <1>7
    DEF Crash, NoCommand, RollInv, Safe, CommandInv, NamesTracked, TypeOK, Commands, Intact,
        Gone, Leaving, HasManifest
  <2> QED
    BY <2>1, <2>2, <2>3, <2>4 DEF RollInv
<1> QED
  BY <1>1, <1>2, <1>3, <1>4, <1>5, <1>6, <1>7

-----------------------------------------------------------------------------
(* Results.                                                                *)

\* The invariant above holds of every reachable state.
THEOREM RollInvariant == Spec => []RollInv
<1>1. RollInv /\ UNCHANGED vars => RollInv'
  BY DEF vars, RollInv, TypeOK, CommandInv, NamesTracked, Safe, Intact, Gone, Leaving, HasManifest
<1>2. RollInv /\ [Next]_vars => RollInv'
  BY <1>1, UserRoll, ProposeRoll, CancelRoll, ClearRoll DEF Next
<1> QED
  BY InitRoll, <1>2, PTL DEF Spec

\* The files, baselines and manifest have their types, and a record that is
\* done has a change.
THEOREM RollbackTypes == Spec => []TypeOK
<1>1. RollInv => TypeOK
  BY DEF RollInv
<1> QED
  BY <1>1, RollInvariant, PTL

\* For any files and changes, however many crashes cut off commands before, a
\* cancellation has restored every tracked file when it removes the baseline
\* (src/rollback/store.ts), but for the four cases `spoiled` names.
THEOREM RestoresTracked == Spec => []CancelRestores
<1>1. RollInv => CancelRestores
  BY DEF RollInv, CommandInv, Safe, Intact, Gone, Leaving, CancelRestores
<1> QED
  BY <1>1, RollInvariant, PTL

\* It changes no file that no result of the change named, for any files and
\* changes, unless the proposal took over a manifest of another one.
THEOREM KeepsOthers == Spec => OthersKept
<1> DEFINE Kept == cmd.op = "cancel" /\ "reused" \notin spoiled =>
                       \A f \in Files \ tracked : live'[f] = live[f]
<1>1. RollInv /\ [Next]_vars => [Kept]_vars
  <2> SUFFICES ASSUME RollInv, Next, cmd.op = "cancel", "reused" \notin spoiled,
                      NEW f \in Files \ tracked
               PROVE  live'[f] = live[f]
    OBVIOUS
  <2>1. cmd.pc # "idle"
    BY DEF RollInv, CommandInv
  <2>2. CASE \E g \in Files : Restore(g)
    <3>1. PICK g \in Files : Restore(g)
      BY <2>2
    <3>2. g \in tracked
      BY <3>1 DEF Restore, RollInv, CommandInv, NamesTracked
    <3> QED
      BY <3>1, <3>2 DEF Restore, RollInv, TypeOK
  <2>3. CASE ~\E g \in Files : Restore(g)
    <3>1. ~UserEdits /\ ~WorkerReports
      BY <2>1 DEF UserEdits, WorkerReports
    <3>2. live' = live
      BY <2>3, <3>1
      DEF Next, Finish, Propose, Copy, WriteManifest, NewChange, NewChangeFails, ProposeFails,
          RecordChange, Cancel, RestoreFails, Restored, Archive, ArchiveFails, RemoveChange,
          ClearBaseline, ClearManifest, Close, Crash
    <3> QED
      BY <3>2
  <2> QED
    BY <2>2, <2>3
<1> QED
  BY <1>1, RollInvariant, PTL DEF Spec, OthersKept
=============================================================================
