------------------------- MODULE PlanningJournalProofs -------------------------
(* What holds of the planning journal for any number of hooks, notes,      *)
(* proposals and crashes.                                                  *)
EXTENDS PlanningJournal, TLAPS

\* A turn that has begun has a record that shows it; a crash leaves that one.
TurnShown ==
    /\ turn.pc \in {"chat", "background", "synced"} => rec.status = "planning"
    /\ turn.pc \in {"nothing", "prepared"} => rec.status # "idle"

\* The snapshot never runs ahead of the journal, so a note that is appended
\* makes them differ.
SnapshotBehind == snapshot <= journal

JournalInv == TypeOK /\ TurnShown /\ SnapshotBehind /\ NotesKnown

Hook == [pc : {"idle", "read", "appended"}, change : 0..MaxChanges]

-----------------------------------------------------------------------------
(* Steps.                                                                  *)

\* At the start there is no journal.
LEMMA InitJournal == Init => JournalInv
<1> SUFFICES ASSUME Init PROVE JournalInv
  OBVIOUS
<1> USE MaxNotesAssumption, MaxChangesAssumption, MaxCrashesAssumption DEF Init
<1>1. rec \in Records
  BY DEF Records, Statuses
<1>2. hook \in [Hooks -> Hook]
  BY DEF Hook, NoHook
<1>3. turn \in Turns
  BY DEF Turns, NoTurn, Counts
<1> QED
  BY <1>1, <1>2, <1>3
  DEF JournalInv, TypeOK, Counts, Hook, TurnShown, SnapshotBehind, NotesKnown, NoTurn

\* The invariant when a change is proposed or the context is toggled.
LEMMA ProposalJournal ==
    ASSUME JournalInv, Propose \/ ToggleContext
    PROVE  JournalInv'
<1> USE MaxNotesAssumption, MaxChangesAssumption, MaxCrashesAssumption
    DEF JournalInv, TypeOK, Counts
<1>1. CASE Propose
  <2>1. rec.change \in 0..MaxChanges
    BY DEF Records
  <2>2. rec.change + 1 \in 1..MaxChanges
    BY <1>1, <2>1 DEF Propose
  <2>3. rec' = [rec EXCEPT !.change = rec.change + 1, !.status = "ready", !.proposal = TRUE,
                           !.dirty = FALSE, !.attached = TRUE]
    BY <1>1 DEF Propose
  <2>4. rec' \in Records /\ rec'.status = "ready" /\ rec'.change = rec.change + 1
    <3> DEFINE k == rec.change + 1
    <3>1. k \in 0..MaxChanges
      BY <2>2
    <3>2. rec' = [rec EXCEPT !.change = k, !.status = "ready", !.proposal = TRUE,
                             !.dirty = FALSE, !.attached = TRUE]
      BY <2>3
    <3> HIDE DEF k
    <3>3. rec' \in Records /\ rec'.status = "ready" /\ rec'.change = k
      BY <3>1, <3>2 DEF Records, Statuses
    <3> QED
      BY <3>3 DEF k
  <2> QED
    BY <1>1, <2>2, <2>4 DEF Propose, TurnShown, SnapshotBehind, NotesKnown
<1>2. CASE ToggleContext
  <2>1. /\ rec' \in Records /\ rec'.change = rec.change
        /\ rec'.status = rec.status /\ rec'.dirty = rec.dirty
    BY <1>2 DEF ToggleContext, Records, Statuses
  <2> QED
    BY <1>2, <2>1 DEF ToggleContext, TurnShown, SnapshotBehind, NotesKnown, HasUnsyncedChanges
<1> QED
  BY <1>1, <1>2

\* The hooks only add to the journal, and to what is known of it.
LEMMA HookJournal ==
    ASSUME JournalInv, NEW h \in Hooks, HookReads(h) \/ HookAppends(h) \/ HookMarks(h)
    PROVE  JournalInv'
<1> USE MaxNotesAssumption, MaxChangesAssumption, MaxCrashesAssumption
    DEF JournalInv, TypeOK, Counts
<1>1. CASE HookReads(h)
  <2>1. hook' \in [Hooks -> [pc : {"idle", "read", "appended"}, change : 0..MaxChanges]]
    BY <1>1 DEF HookReads, Records
  <2> QED
    BY <1>1, <2>1 DEF HookReads, TurnShown, SnapshotBehind, NotesKnown, HasUnsyncedChanges
<1>2. CASE HookAppends(h)
  <2>1. hook' \in [Hooks -> [pc : {"idle", "read", "appended"}, change : 0..MaxChanges]]
    BY <1>2 DEF HookAppends
  <2>2. journal' \in 0..MaxNotes /\ (journal' = journal \/ journal' = journal + 1)
    BY <1>2 DEF HookAppends
  <2> QED
    BY <1>2, <2>1, <2>2 DEF HookAppends, TurnShown, SnapshotBehind, NotesKnown, HasUnsyncedChanges
<1>3. CASE HookMarks(h)
  <2>1. hook' \in [Hooks -> [pc : {"idle", "read", "appended"}, change : 0..MaxChanges]]
    BY <1>3 DEF HookMarks, NoHook
  <2>2. /\ rec' \in Records /\ rec'.change = rec.change
        /\ rec'.status = rec.status /\ rec'.dirty
    BY <1>3 DEF HookMarks, Records, Statuses
  <2>3. turn' \in Turns /\ turn'.pc = turn.pc
    BY <1>3 DEF HookMarks, Turns
  <2> QED
    BY <1>3, <2>1, <2>2, <2>3 DEF HookMarks, TurnShown, SnapshotBehind, NotesKnown
<1> QED
  BY <1>1, <1>2, <1>3

\* A turn in the chat takes the journal for synced only while the record says
\* planning, and leaves it dirty, planned or on the list of the missed.
LEMMA ChatJournal ==
    ASSUME JournalInv,
           Prepare \/ NothingNew \/ PrepareFails \/ ChatTurn \/ \E ok \in BOOLEAN : ChatTurnEnds(ok)
    PROVE  JournalInv'
<1> USE MaxNotesAssumption, MaxChangesAssumption, MaxCrashesAssumption
    DEF JournalInv, TypeOK, Counts
<1>1. CASE Prepare
  <2> DEFINE p == IF HasUnsyncedChanges \/ rec.attached THEN "prepared" ELSE "nothing"
  <2>1. p \in {"prepared", "nothing"} /\ turn' = [NoTurn EXCEPT !.pc = p]
    BY <1>1 DEF Prepare
  <2> HIDE DEF p
  <2>2. turn' \in Turns /\ turn'.pc \in {"prepared", "nothing"}
    <3>1. turn' = [pc |-> p, seen |-> 0, late |-> FALSE, dirty |-> FALSE]
      BY <2>1 DEF NoTurn
    <3>2. CASE p = "prepared"
      BY <3>1, <3>2 DEF Turns
    <3>3. CASE p = "nothing"
      BY <3>1, <3>3 DEF Turns
    <3> QED
      BY <2>1, <3>2, <3>3
  <2>3. UNCHANGED <<rec, journal, snapshot, hook, planned, missed, crashes>> /\ rec.status # "idle"
    BY <1>1 DEF Prepare
  <2> QED
    BY <2>2, <2>3 DEF TurnShown, SnapshotBehind, NotesKnown, HasUnsyncedChanges
<1>2. CASE NothingNew
  <2>1. /\ rec' \in Records /\ rec'.change = rec.change /\ rec'.status = rec.status
    BY <1>2 DEF NothingNew, Records, Statuses
  <2>2. turn' \in Turns /\ turn'.pc = "none"
    BY <1>2 DEF NothingNew, Turns, NoTurn, Counts
  <2>3. missed' \subseteq {"turn", "detached"} /\ (planned < journal => missed' # {})
    BY <1>2 DEF NothingNew
  <2> QED
    BY <1>2, <2>1, <2>2, <2>3 DEF NothingNew, TurnShown, SnapshotBehind, NotesKnown
<1>3. CASE PrepareFails
  <2>1. turn' \in Turns /\ turn'.pc = "none"
    BY <1>3 DEF PrepareFails, Turns, NoTurn, Counts
  <2> QED
    BY <1>3, <2>1 DEF PrepareFails, TurnShown, SnapshotBehind, NotesKnown, HasUnsyncedChanges
<1>4. CASE ChatTurn
  <2>1. turn' \in Turns
    BY <1>4 DEF ChatTurn, Turns, Counts
  <2>2. /\ rec' \in Records /\ rec'.status = "planning" /\ rec'.change = rec.change
        /\ turn'.pc = "chat" /\ rec.status # "idle"
    BY <1>4 DEF ChatTurn, Records, Statuses, Turns, TurnShown
  <2>3. UNCHANGED <<journal, snapshot, hook, planned, missed, crashes>>
    BY <1>4 DEF ChatTurn
  <2> QED
    BY <2>1, <2>2, <2>3 DEF TurnShown, SnapshotBehind, NotesKnown
<1>5. ASSUME NEW ok \in BOOLEAN, ChatTurnEnds(ok)
      PROVE  JournalInv'
  <2>1. turn' \in Turns /\ turn.pc = "chat" /\ turn'.pc = "synced"
    BY <1>5 DEF ChatTurnEnds, Turns
  <2>2. rec.status = "planning" /\ snapshot' = journal
    BY <1>5, <2>1 DEF ChatTurnEnds, TurnShown
  <2>3. UNCHANGED <<rec, journal, hook, planned, missed, crashes>>
    BY <1>5 DEF ChatTurnEnds
  <2> QED
    BY <2>1, <2>2, <2>3 DEF TurnShown, SnapshotBehind, NotesKnown
<1> QED
  BY <1>1, <1>2, <1>3, <1>4, <1>5

\* ... as does a turn in the background.
LEMMA BackgroundJournal ==
    ASSUME JournalInv,
           BackgroundTurn \/ \E ok \in BOOLEAN, timed \in BOOLEAN : BackgroundTurnEnds(ok, timed)
    PROVE  JournalInv'
<1> USE MaxNotesAssumption, MaxChangesAssumption, MaxCrashesAssumption
    DEF JournalInv, TypeOK, Counts
<1>1. CASE BackgroundTurn
  <2>1. turn' \in Turns
    BY <1>1 DEF BackgroundTurn, Turns, NoTurn, Counts
  <2> QED
    BY <1>1, <2>1 DEF BackgroundTurn, TurnShown, SnapshotBehind, NotesKnown
<1>2. ASSUME NEW ok \in BOOLEAN, NEW timed \in BOOLEAN, BackgroundTurnEnds(ok, timed)
      PROVE  JournalInv'
  <2> DEFINE d == ~ok \/ (turn.late /\ timed)
  <2>1. turn' = [turn EXCEPT !.pc = "synced", !.dirty = d]
    BY <1>2 DEF BackgroundTurnEnds
  <2>2. d \in BOOLEAN
    OBVIOUS
  <2> HIDE DEF d
  <2>3. turn' \in Turns /\ turn.pc = "background" /\ turn'.pc = "synced"
    BY <1>2, <2>1, <2>2 DEF BackgroundTurnEnds, Turns
  <2>4. rec.status = "planning" /\ (snapshot' = snapshot \/ snapshot' = journal)
    BY <1>2, <2>3 DEF BackgroundTurnEnds, TurnShown
  <2>5. UNCHANGED <<rec, journal, hook, planned, missed, crashes>>
    BY <1>2 DEF BackgroundTurnEnds
  <2> QED
    BY <2>3, <2>4, <2>5 DEF TurnShown, SnapshotBehind, NotesKnown
<1> QED
  BY <1>1, <1>2

\* The invariant when a planning turn is over.
LEMMA TurnDoneJournal ==
    ASSUME JournalInv, TurnDone
    PROVE  JournalInv'
<1> USE MaxNotesAssumption, MaxChangesAssumption, MaxCrashesAssumption
    DEF JournalInv, TypeOK, Counts
<1>1. turn.pc = "synced" /\ rec.status = "planning" /\ turn \in Turns
  BY DEF TurnDone, TurnShown
<1>2. PICK s \in Outcomes :
        rec' = [rec EXCEPT !.status = s, !.proposal = (s = "blocked" /\ @), !.dirty = turn.dirty]
  BY DEF TurnDone, DirtyOfTurn
<1>3. s \in {"ready", "blocked", "done"}
  BY DEF Outcomes
<1>4. turn.dirty \in BOOLEAN /\ turn.seen \in Counts
  BY <1>1 DEF Turns
<1>5. rec'.status = s /\ rec'.dirty = turn.dirty /\ rec'.change = rec.change
  BY <1>2 DEF Records
<1>6. rec' \in Records
  <2> DEFINE b == s = "blocked" /\ rec.proposal
  <2>1. b \in BOOLEAN
    OBVIOUS
  <2>2. rec' = [rec EXCEPT !.status = s, !.proposal = b, !.dirty = turn.dirty]
    BY <1>2
  <2> HIDE DEF b
  <2> QED
    BY <1>3, <1>4, <2>1, <2>2 DEF Records, Statuses
<1>7. turn' \in Turns /\ turn'.pc = "none"
  BY DEF TurnDone, Turns, NoTurn, Counts
<1>8. planned' \in Counts /\ missed' \subseteq {"turn", "detached"}
  BY <1>4 DEF TurnDone
<1>9. NotesKnown'
  <2>1. CASE turn.dirty
    BY <2>1, <1>5 DEF NotesKnown
  <2>2. CASE ~turn.dirty
    <3>1. planned' = turn.seen /\ journal' = journal
      BY <2>2 DEF TurnDone
    <3>2. CASE turn.seen < journal
      <4>1. missed' = {"turn"}
        BY <2>2, <3>2 DEF TurnDone
      <4> QED
        BY <4>1 DEF NotesKnown
    <3>3. CASE ~(turn.seen < journal)
      BY <3>1, <3>3 DEF NotesKnown
    <3> QED
      BY <3>2, <3>3
  <2> QED
    BY <2>1, <2>2
<1> QED
  BY <1>1, <1>3, <1>5, <1>6, <1>7, <1>8, <1>9 DEF TurnDone, TurnShown, SnapshotBehind

\* The invariant when an execution runs, and when the process crashes.
LEMMA RunJournal ==
    ASSUME JournalInv, Work \/ RunStarts \/ RunEnds \/ Crash
    PROVE  JournalInv'
<1> USE MaxNotesAssumption, MaxChangesAssumption, MaxCrashesAssumption
    DEF JournalInv, TypeOK, Counts
<1>1. ASSUME Work \/ RunStarts \/ RunEnds
      PROVE  JournalInv'
  <2>1. PICK s \in {"ready", "armed", "running", "blocked", "done"} : rec' = [rec EXCEPT !.status = s]
    BY <1>1 DEF Work, RunStarts, RunEnds
  <2>2. rec.status \in {"ready", "blocked", "armed", "running"}
    BY <1>1 DEF Work, RunStarts, RunEnds
  <2>3. UNCHANGED <<journal, snapshot, hook, turn, planned, missed, crashes>>
    BY <1>1 DEF Work, RunStarts, RunEnds
  <2>4. /\ rec' \in Records /\ rec'.change = rec.change
        /\ rec'.status = s /\ rec'.dirty = rec.dirty
    BY <2>1 DEF Records, Statuses
  <2> QED
    BY <2>2, <2>3, <2>4 DEF TurnShown, SnapshotBehind, NotesKnown, HasUnsyncedChanges
<1>2. CASE Crash
  <2>1. turn' \in Turns /\ turn'.pc = "none"
    BY <1>2 DEF Crash, Turns, NoTurn, Counts
  <2>2. hook' \in [Hooks -> [pc : {"idle", "read", "appended"}, change : 0..MaxChanges]]
    BY <1>2 DEF Crash, NoHook
  <2> QED
    BY <1>2, <2>1, <2>2 DEF Crash, TurnShown, SnapshotBehind, NotesKnown, HasUnsyncedChanges
<1> QED
  BY <1>1, <1>2

-----------------------------------------------------------------------------
(* Results.                                                                *)

\* The invariant above holds of every reachable state of the journal.
THEOREM JournalInvariant == Spec => []JournalInv
<1>1. JournalInv /\ UNCHANGED vars => JournalInv'
  BY DEF vars, JournalInv, TypeOK, TurnShown, SnapshotBehind, NotesKnown, HasUnsyncedChanges
<1>2. JournalInv /\ [Next]_vars => JournalInv'
  BY <1>1, ProposalJournal, HookJournal, ChatJournal, BackgroundJournal, TurnDoneJournal, RunJournal
  DEF Next
<1> QED
  BY InitJournal, <1>2, PTL DEF Spec

\* The journal, its snapshot and the turn keep their types; in particular a
\* project without a change is idle and no other is.
THEOREM JournalTypes == Spec => []TypeOK
<1>1. JournalInv => TypeOK
  BY DEF JournalInv
<1> QED
  BY <1>1, JournalInvariant, PTL

\* No note is lost between captureIncomingMessage and a planning turn, for any
\* number of hooks, notes and crashes, but in the two ways `missed` names.
THEOREM NotesAreKnown == Spec => []NotesKnown
<1>1. JournalInv => NotesKnown
  BY DEF JournalInv
<1> QED
  BY <1>1, JournalInvariant, PTL
=============================================================================
