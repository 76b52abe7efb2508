--------------------------- MODULE PlanningJournal ---------------------------
(***************************************************************************)
(* Notes on their way into the planning of a change.  A hook appends what  *)
(* is said in the chat to planning-journal.jsonl and then marks the record *)
(* dirty (captureIncomingMessage and captureAssistantPlanningMessage of    *)
(* src/orchestrator/service.ts).  A planning turn, in the chat or resumed  *)
(* in the background after a crash, writes a snapshot of the journal       *)
(* (src/planning/journal.ts) and then marks the record.  cs-work looks at  *)
(* the mark, cs-plan compares journal and snapshot.                        *)
(*                                                                         *)
(* Entries are counted, those of the change on record only; the hash of    *)
(* the digest is the count, which only grows between two proposals.  One   *)
(* command at a time is served; cancel, which drops the journal with the   *)
(* change, is left out.  The hook of the assistant captures less often     *)
(* than the one of the user, which stands for both.  `planned` and         *)
(* `missed` are history, as is turn.seen: the entries the turn had before  *)
(* it when it began.                                                       *)
(*                                                                         *)
(* A definition whose comment begins with "Fault" is a wrong variant of    *)
(* the one after it.                                                       *)
(***************************************************************************)
EXTENDS Integers

CONSTANTS
    Hooks,      \* the message and agent-end hooks that run side by side
    MaxNotes,   \* bound on the entries of a change
    MaxChanges, \* bound on the proposals
    MaxCrashes  \* bound on the crashes

ASSUME MaxNotesAssumption == MaxNotes \in Nat
ASSUME MaxChangesAssumption == MaxChanges \in Nat
ASSUME MaxCrashesAssumption == MaxCrashes \in Nat

VARIABLES
    rec,        \* the record: change, status, phase = "proposal", dirty, attached
    journal,    \* number of entries
    snapshot,   \* entryCount of planning-journal.snapshot.json
    hook,       \* per hook: where it is, and the change it read
    turn,       \* the planning command or turn in progress
    planned,    \* the entries that a successful turn planned
    missed,     \* how entries came to count as planned that no turn saw
    crashes

vars == <<rec, journal, snapshot, hook, turn, planned, missed, crashes>>

Counts == 0..MaxNotes
Statuses == {"idle", "ready", "planning", "armed", "running", "blocked", "done"}

Records == [change : 0..MaxChanges, status : Statuses, proposal : BOOLEAN,
            dirty : BOOLEAN, attached : BOOLEAN]

\* late: a note was marked since the background turn began.
Turns == [pc : {"none", "nothing", "prepared", "chat", "background", "synced"},
          seen : Counts, late : BOOLEAN, dirty : BOOLEAN]

NoTurn == [pc |-> "none", seen |-> 0, late |-> FALSE, dirty |-> FALSE]

NoHook == [pc |-> "idle", change |-> 0]

TypeOK ==
    /\ rec \in Records
    /\ journal \in Counts /\ snapshot \in Counts /\ planned \in Counts
    /\ hook \in [Hooks -> [pc : {"idle", "read", "appended"}, change : 0..MaxChanges]]
    /\ turn \in Turns
    /\ missed \subseteq {"turn", "detached"}
    /\ crashes \in 0..MaxCrashes
    /\ rec.status = "idle" <=> rec.change = 0

-----------------------------------------------------------------------------
(* Proposals and the context of the chat.                                  *)

\* proposalProject clears the journal and writes the snapshot.
Propose ==
    /\ turn.pc = "none" /\ rec.status \in {"idle", "done"} /\ rec.change < MaxChanges
    /\ rec' = [rec EXCEPT !.change = @ + 1, !.status = "ready", !.proposal = TRUE,
                          !.dirty = FALSE, !.attached = TRUE]
    /\ journal' = 0 /\ snapshot' = 0 /\ planned' = 0 /\ missed' = {}
    /\ UNCHANGED <<hook, turn, crashes>>

\* cs-attach and cs-detach.
ToggleContext ==
    /\ rec.change # 0
    /\ rec' = [rec EXCEPT !.attached = ~@]
    /\ UNCHANGED <<journal, snapshot, hook, turn, planned, missed, crashes>>

-----------------------------------------------------------------------------
(* Notes.                                                                  *)

\* shouldCapturePlanningMessage: also while a turn plans or a run is armed.
Captures == rec.attached /\ rec.change # 0 /\ rec.status # "running"

\* A hook has the record and works on what it read ...
HookReads(h) ==
    /\ hook[h].pc = "idle" /\ Captures
    /\ hook' = [hook EXCEPT ![h] = [pc |-> "read", change |-> rec.change]]
    /\ UNCHANGED <<rec, journal, snapshot, turn, planned, missed, crashes>>

\* ... appends the entry (one of an older change is never listed again) ...
HookAppends(h) ==
    /\ hook[h].pc = "read"
    /\ hook[h].change = rec.change => journal < MaxNotes
    /\ journal' = IF hook[h].change = rec.change THEN journal + 1 ELSE journal
    /\ hook' = [hook EXCEPT ![h].pc = "appended"]
    /\ UNCHANGED <<rec, snapshot, turn, planned, missed, crashes>>

\* ... and marks whatever record there is by then.
HookMarks(h) ==
    /\ hook[h].pc = "appended"
    /\ rec' = [rec EXCEPT !.dirty = TRUE]
    /\ turn' = [turn EXCEPT !.late = turn.pc = "background"]
    /\ hook' = [hook EXCEPT ![h] = NoHook]
    /\ UNCHANGED <<journal, snapshot, planned, missed, crashes>>

-----------------------------------------------------------------------------
(* cs-plan: preparePlanningSync, the turn in the chat, its end.            *)

\* hasUnsyncedChanges.
HasUnsyncedChanges == snapshot # journal

\* An attached chat plans in any case, a detached one only for new entries.
Prepare ==
    /\ turn.pc = "none" /\ rec.change # 0
    /\ rec.status \in {"ready", "blocked", "done"}
    /\ turn' = [NoTurn EXCEPT !.pc =
                  IF HasUnsyncedChanges \/ rec.attached THEN "prepared" ELSE "nothing"]
    /\ UNCHANGED <<rec, journal, snapshot, hook, planned, missed, crashes>>

\* "No New Planning Notes": the record is marked clean.  The last snapshot may
\* be of a turn that failed.
NothingNew ==
    /\ turn.pc = "nothing"
    /\ rec' = [rec EXCEPT !.dirty = FALSE]
    /\ missed' = IF planned < journal THEN missed \cup {"detached"} ELSE missed
    /\ turn' = NoTurn
    /\ UNCHANGED <<journal, snapshot, hook, planned, crashes>>

\* The openspec CLI fails.
PrepareFails ==
    /\ turn.pc = "prepared"
    /\ turn' = NoTurn
    /\ UNCHANGED <<rec, journal, snapshot, hook, planned, missed, crashes>>

ChatTurn ==
    /\ turn.pc = "prepared"
    /\ rec' = [rec EXCEPT !.status = "planning", !.proposal = FALSE]
    /\ turn' = [turn EXCEPT !.pc = "chat", !.seen = journal]
    /\ UNCHANGED <<journal, snapshot, hook, planned, missed, crashes>>

\* The turn failed, left the change without its artifacts, or succeeded: the
\* snapshot is written in each case ...
ChatTurnEnds(ok) ==
    /\ turn.pc = "chat"
    /\ snapshot' = journal
    /\ turn' = [turn EXCEPT !.pc = "synced", !.dirty = ~ok]
    /\ UNCHANGED <<rec, journal, hook, planned, missed, crashes>>

-----------------------------------------------------------------------------
(* A planning turn that a crash interrupted goes on in the background:     *)
(* recoverProject arms it, processPlanning ends it.                        *)

BackgroundTurn ==
    /\ turn.pc = "none" /\ rec.status = "planning"
    /\ turn' = [NoTurn EXCEPT !.pc = "background", !.seen = journal]
    /\ UNCHANGED <<rec, journal, snapshot, hook, planned, missed, crashes>>

\* Notes later than execution.startedAt make the record dirty again; the block
\* of a run that was re-armed for its last artifact (timed = FALSE) has none.
\* The snapshot is written for a clean record only ...
BackgroundTurnEnds(ok, timed) ==
    /\ turn.pc = "background"
    /\ turn' = [turn EXCEPT !.pc = "synced", !.dirty = ~ok \/ (turn.late /\ timed)]
    /\ snapshot' = IF turn'.dirty THEN snapshot ELSE journal
    /\ UNCHANGED <<rec, journal, hook, planned, missed, crashes>>

\* Fault: a snapshot was written, so the record is clean.
CleanAfterTurn == FALSE

\* What the turn says of the record, whatever was marked meanwhile.
DirtyOfTurn == turn.dirty

\* Fault: the name of an end that the record does not show.
OutcomesOfResult == IF turn.dirty THEN {"ready", "blocked"} ELSE {"ready", "completed"}

Outcomes == IF turn.dirty THEN {"ready", "blocked"} ELSE {"ready", "done"}

\* ... and then the record is updated.  Entries that came during the turn, or
\* since the snapshot, are planned only as far as the turn had seen them.
TurnDone ==
    /\ turn.pc = "synced"
    /\ \E s \in Outcomes :
          rec' = [rec EXCEPT !.status = s, !.proposal = (s = "blocked" /\ @), !.dirty = DirtyOfTurn]
    /\ planned' = IF turn.dirty THEN planned ELSE turn.seen
    /\ missed' = CASE turn.dirty -> missed
                   [] ~turn.dirty /\ turn.seen < journal -> {"turn"}
                   [] OTHER -> {}
    /\ turn' = NoTurn
    /\ UNCHANGED <<journal, snapshot, hook, crashes>>

-----------------------------------------------------------------------------
(* cs-work and the run.                                                    *)

\* requiresPlanningSync.
RequiresPlanning == rec.proposal \/ rec.dirty

Work ==
    /\ turn.pc = "none" /\ rec.status \in {"ready", "blocked"} /\ ~RequiresPlanning
    /\ rec' = [rec EXCEPT !.status = "armed"]
    /\ UNCHANGED <<journal, snapshot, hook, turn, planned, missed, crashes>>

RunStarts ==
    /\ rec.status = "armed"
    /\ rec' = [rec EXCEPT !.status = "running"]
    /\ UNCHANGED <<journal, snapshot, hook, turn, planned, missed, crashes>>

\* Notes never reach a run; with a dirty journal it gives way to planning.
RunEnds ==
    /\ rec.status = "running"
    /\ \E s \in {"ready", "armed", "blocked", "done"} :
          /\ s = "armed" => ~rec.dirty
          /\ rec' = [rec EXCEPT !.status = s]
    /\ UNCHANGED <<journal, snapshot, hook, turn, planned, missed, crashes>>

\* The gateway crashes: hooks and commands end where they are.
Crash ==
    /\ crashes < MaxCrashes
    /\ crashes' = crashes + 1
    /\ hook' = [h \in Hooks |-> NoHook]
    /\ turn' = NoTurn
    /\ UNCHANGED <<rec, journal, snapshot, planned, missed>>

-----------------------------------------------------------------------------
(* The specification.                                                      *)

Init ==
    /\ rec = [change |-> 0, status |-> "idle", proposal |-> FALSE,
              dirty |-> FALSE, attached |-> TRUE]
    /\ journal = 0 /\ snapshot = 0 /\ planned = 0
    /\ hook = [h \in Hooks |-> NoHook]
    /\ turn = NoTurn
    /\ missed = {}
    /\ crashes = 0

Next ==
    \/ Propose \/ ToggleContext
    \/ \E h \in Hooks : HookReads(h) \/ HookAppends(h) \/ HookMarks(h)
    \/ Prepare \/ NothingNew \/ PrepareFails \/ ChatTurn
    \/ \E ok \in BOOLEAN : ChatTurnEnds(ok)
    \/ BackgroundTurn \/ \E ok \in BOOLEAN, timed \in BOOLEAN : BackgroundTurnEnds(ok, timed)
    \/ TurnDone
    \/ Work \/ RunStarts \/ RunEnds
    \/ Crash

Spec == Init /\ [][Next]_vars

-----------------------------------------------------------------------------
(* What the journal promises.                                              *)

\* A note that no planning turn has seen is known of: the record is dirty, or
\* the snapshot differs from the journal, so that cs-plan finds the note that a
\* hook has yet to mark, or a crash left unmarked, or a turn is to end.  There
\* are two ways around this, both named by `missed`: a turn that began without
\* the note counts it as synced, and a detached cs-plan takes the snapshot of a
\* failed turn for planned.
NotesKnown ==
    rec.change # 0 /\ planned < journal /\ missed = {} =>
        \/ rec.dirty
        \/ HasUnsyncedChanges
        \/ rec.status = "planning"
=============================================================================
