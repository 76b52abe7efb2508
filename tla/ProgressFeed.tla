----------------------------- MODULE ProgressFeed -----------------------------
(***************************************************************************)
(* The progress of a worker on its way to the chat.  The worker appends a  *)
(* line per event to worker-progress.jsonl; the watcher (flushWorker-      *)
(* Progress in src/watchers/manager.ts) tells the chat the lines behind an *)
(* offset and advances the offset, its own and the one on record.  Up to   *)
(* three flushes are in flight: one for an event of the running turn, one  *)
(* of the loop that watches for a result, and the last one of the turn.    *)
(*                                                                         *)
(* A line is its number, counted over all runs.  The file holds the lines  *)
(* after `cut` up to `written`; an offset counts lines of the file, and a  *)
(* line that is only half in the file is not written yet.  Runs of the     *)
(* action plan are left out: the prompt of a planning worker does not name *)
(* the helper that writes events.  Sending swallows its errors.  The time  *)
(* a cancelled turn has to settle is taken to be enough for its flush.     *)
(*                                                                         *)
(* A definition whose comment begins with "Fault" is a wrong variant of    *)
(* the one after it.                                                       *)
(***************************************************************************)
EXTENDS Integers, FiniteSets

CONSTANTS
    MaxLines,   \* bound on the lines written
    MaxDowns    \* bound on the crashes and stops of the gateway

ASSUME MaxLinesAssumption == MaxLines \in Nat
ASSUME MaxDownsAssumption == MaxDowns \in Nat

VARIABLES
    written,    \* number of the last line appended
    cut,        \* lines up to this one are gone from the file
    told,       \* the lines that were sent to the chat, each at least once
    rec,        \* the execution block of the record: its state and offset
    watcher,    \* the run of the watcher: where it is, workerProgressOffset
    flush,      \* the flushes in flight
    live,       \* worker sessions that write: of this process, of earlier ones
    reported,   \* execution-result.json has a terminal status
    due,        \* last line written when the worker reported or ended
    gateway,    \* the process: up, stopping, down
    downs       \* how often it went down

vars == <<written, cut, told, rec, watcher, flush, live, reported, due, gateway, downs>>

Lines == 1..MaxLines
Offsets == 0..MaxLines
Flushers == {"event", "watch", "main"}

Records == [state : {"none", "armed", "running"}, offset : Offsets]

NoRecord == [state |-> "none", offset |-> 0]

WatcherPcs == {"idle", "start", "turn", "settle", "final", "resolve",
               "pending", "early", "again"}

\* attached: the session was adopted, runTurn was not called.
Watchers == [pc : WatcherPcs, offset : Offsets, attached : BOOLEAN]

IdleWatcher == [pc |-> "idle", offset |-> 0, attached |-> FALSE]

\* The next line a flush sends, the last line it read, the offset it answers.
Flushes == [busy : BOOLEAN, next : 1..(MaxLines + 1), last : Offsets, to : Offsets]

NoFlush == [busy |-> FALSE, next |-> 1, last |-> 0, to |-> 0]

TypeOK ==
    /\ written \in Offsets /\ cut \in Offsets /\ cut <= written
    /\ told \subseteq Lines
    /\ rec \in Records
    /\ watcher \in Watchers
    /\ flush \in [Flushers -> Flushes]
    /\ live \subseteq {"own", "old"}
    /\ reported \in BOOLEAN
    /\ due \in Offsets
    /\ gateway \in {"up", "stopping", "down"}
    /\ downs \in 0..MaxDowns

-----------------------------------------------------------------------------
(* Flushing.                                                               *)

Size == written - cut

Least(m, n) == IF m <= n THEN m ELSE n

\* Fault: the last line is left for the next flush.
ReadFewer(from) ==
    [busy |-> TRUE, next |-> cut + Least(from, Size) + 1,
     last |-> IF Size = 0 THEN written ELSE written - 1,
     to |-> IF Size = 0 THEN from ELSE Size - 1]

\* Fault: one line too many.
ReadMore(from) ==
    [busy |-> TRUE, next |-> cut + Least(from, Size) + 1, last |-> written + 1,
     to |-> IF Size = 0 THEN from ELSE Size]

\* flushWorkerProgress reads the file: an offset beyond its end is brought
\* back to it, an empty or missing file leaves the offset as it is.
Read(from) ==
    [busy |-> TRUE, next |-> cut + Least(from, Size) + 1, last |-> written,
     to |-> IF Size = 0 THEN from ELSE Size]

\* ... sends line after line ...
Send(f) ==
    /\ flush[f].busy /\ flush[f].next <= flush[f].last
    /\ told' = told \cup {flush[f].next}
    /\ flush' = [flush EXCEPT ![f].next = @ + 1]
    /\ UNCHANGED <<written, cut, rec, watcher, live, reported, due, gateway, downs>>

\* Fault: the size of the file when the lines were sent.
SizeWhenSent(to) == Size

\* flushProgress: the answer of the flush becomes the offset of the turn,
\* whatever another flush made of it meanwhile.
AnsweredOffset(to) == to

\* A flush has sent its lines; the offset is kept and persisted.
Flushed(f, pc) ==
    /\ flush[f].busy /\ flush[f].next > flush[f].last
    /\ flush' = [flush EXCEPT ![f] = NoFlush]
    /\ watcher' = [watcher EXCEPT !.pc = pc, !.offset = AnsweredOffset(flush[f].to)]
    /\ rec' = IF AnsweredOffset(flush[f].to) = watcher.offset \/ rec.state = "none"
              THEN rec ELSE [rec EXCEPT !.offset = AnsweredOffset(flush[f].to)]

\* The lines the worker wrote before it reported or ended, as long as the
\* last flush of its turn is still to come.
DueNow == due' = IF watcher.pc \in {"idle", "start", "turn"} THEN written ELSE due

\* cancelSession: the session of this process is killed; no other is reached.
Kill ==
    /\ live' = live \ {"own"}
    /\ IF "own" \in live /\ ~reported THEN DueNow ELSE UNCHANGED due

-----------------------------------------------------------------------------
(* The worker.                                                             *)

\* appendEvent.
Write ==
    /\ live # {} /\ written < MaxLines
    /\ written' = written + 1
    /\ UNCHANGED <<cut, told, rec, watcher, flush, live, reported, due, gateway, downs>>

\* writeResult with a terminal status; the worker may go on.
Report ==
    /\ live # {} /\ ~reported
    /\ reported' = TRUE
    /\ DueNow
    /\ UNCHANGED <<written, cut, told, rec, watcher, flush, live, gateway, downs>>

WorkerEnds(s) ==
    /\ s \in live
    /\ live' = live \ {s}
    /\ IF reported THEN UNCHANGED due ELSE DueNow
    /\ UNCHANGED <<written, cut, told, rec, watcher, flush, reported, gateway, downs>>

-----------------------------------------------------------------------------
(* A turn of the watcher.                                                  *)

\* cs-work.
Queue ==
    /\ gateway = "up" /\ watcher.pc = "idle" /\ rec.state = "none"
    /\ rec' = [state |-> "armed", offset |-> 0]
    /\ UNCHANGED <<written, cut, told, watcher, flush, live, reported, due, gateway, downs>>

\* setRunningState ...
Start ==
    /\ gateway = "up" /\ watcher.pc = "idle" /\ rec.state = "armed"
    /\ rec' = [state |-> "running", offset |-> 0]
    /\ watcher' = [pc |-> "start", offset |-> 0, attached |-> FALSE]
    /\ UNCHANGED <<written, cut, told, flush, live, reported, due, gateway, downs>>

\* ... then the result is removed, the file emptied and runTurn called.
Spawn ==
    /\ watcher.pc = "start"
    /\ cut' = written /\ due' = written
    /\ reported' = FALSE
    /\ live' = live \cup {"own"}
    /\ watcher' = [watcher EXCEPT !.pc = "turn"]
    /\ UNCHANGED <<written, told, rec, flush, gateway, downs>>

\* Fault: what was written while the gateway was down is skipped.
AdoptedFromEnd == Size

\* An adopted session is watched from the offset on record.
AdoptedOffset == rec.offset

\* processImplementation of a run that tryAdoptRunningSession kept.
Watch ==
    /\ gateway = "up" /\ watcher.pc = "idle" /\ rec.state = "running"
    /\ watcher' = [pc |-> "turn", offset |-> AdoptedOffset, attached |-> TRUE]
    /\ UNCHANGED <<written, cut, told, rec, flush, live, reported, due, gateway, downs>>

\* onEvent: the events of a turn come one at a time.  (A flush that finds
\* nothing new changes nothing.)
EventFlush ==
    /\ watcher.pc \in {"turn", "settle"} /\ ~watcher.attached
    /\ ~flush["event"].busy
    /\ Size > 0 /\ watcher.offset # Size
    /\ flush' = [flush EXCEPT !["event"] = Read(watcher.offset)]
    /\ UNCHANGED <<written, cut, told, rec, watcher, live, reported, due, gateway, downs>>

EventFlushed ==
    /\ Flushed("event", watcher.pc)
    /\ UNCHANGED <<written, cut, told, live, reported, due, gateway, downs>>

\* watchTerminalResult finds a terminal result or a dead session, or takes
\* one for dead that never started up ...
Ended ==
    \/ reported
    \/ watcher.attached /\ "old" \notin live
    \/ ~watcher.attached /\ "own" \notin live

WatchFlush ==
    /\ watcher.pc = "turn" /\ ~flush["watch"].busy
    /\ Ended \/ watcher.offset = 0
    /\ flush' = [flush EXCEPT !["watch"] = Read(watcher.offset)]
    /\ UNCHANGED <<written, cut, told, rec, watcher, live, reported, due, gateway, downs>>

\* ... and cancels it when the lines are told.
WatchFlushed ==
    /\ Flushed("watch", "settle")
    /\ Kill
    /\ UNCHANGED <<written, cut, told, reported, gateway, downs>>

\* Fault: the turn ends without another flush.
ReadNothing(from) == [NoFlush EXCEPT !.busy = TRUE, !.to = from]

\* The flush at the end of runAcpTurnWithTracking.
ReadAtEnd(from) == Read(from)

\* The turn is over, when runTurn returned or after the cancellation: the
\* other flushes are done, the last one begins ...
LastFlush ==
    /\ \/ watcher.pc = "turn" /\ ~watcher.attached /\ "own" \notin live
       \/ watcher.pc = "settle"
    /\ ~flush["event"].busy /\ ~flush["watch"].busy
    /\ watcher' = [watcher EXCEPT !.pc = "final"]
    /\ flush' = [flush EXCEPT !["main"] = ReadAtEnd(watcher.offset)]
    /\ UNCHANGED <<written, cut, told, rec, live, reported, due, gateway, downs>>

LastFlushed ==
    /\ watcher.pc = "final"
    /\ Flushed("main", "resolve")
    /\ UNCHANGED <<written, cut, told, live, reported, due, gateway, downs>>

-----------------------------------------------------------------------------
(* What becomes of the run.                                                *)

\* A watcher that is shut down does no more.
Leave ==
    /\ watcher.pc = "resolve" /\ gateway = "stopping"
    /\ watcher' = IdleWatcher
    /\ UNCHANGED <<written, cut, told, rec, flush, live, reported, due, gateway, downs>>

\* Re-armed for the next task, or restarted after a failure.
Requeue ==
    /\ watcher.pc = "resolve" /\ gateway = "up"
    /\ rec' = [state |-> "armed", offset |-> 0]
    /\ watcher' = IdleWatcher
    /\ Kill
    /\ UNCHANGED <<written, cut, told, flush, reported, gateway, downs>>

\* Blocked, paused, cancelled or waiting for planning.
GiveUp ==
    /\ watcher.pc = "resolve" /\ gateway = "up"
    /\ rec' = NoRecord
    /\ watcher' = IdleWatcher
    /\ Kill
    /\ UNCHANGED <<written, cut, told, flush, reported, gateway, downs>>

\* finalizeCompletedImplementation flushes from the offset of the record it
\* read last ...
Finalize ==
    /\ watcher.pc = "resolve" /\ gateway = "up"
    /\ watcher' = [watcher EXCEPT !.pc = "pending", !.offset = rec.offset]
    /\ flush' = [flush EXCEPT !["main"] = Read(rec.offset)]
    /\ UNCHANGED <<written, cut, told, rec, live, reported, due, gateway, downs>>

\* ... which, for a run found complete before it is watched, is the one that
\* was read before another flush: every line is told twice.
FinalizeAdopted ==
    /\ gateway = "up" /\ watcher.pc = "idle" /\ rec.state = "running"
    /\ watcher' = [pc |-> "early", offset |-> rec.offset, attached |-> TRUE]
    /\ flush' = [flush EXCEPT !["main"] = Read(rec.offset)]
    /\ UNCHANGED <<written, cut, told, rec, live, reported, due, gateway, downs>>

FinalizeAgain ==
    /\ watcher.pc = "early"
    /\ flush["main"].next > flush["main"].last
    /\ rec' = [rec EXCEPT !.offset = flush["main"].to]
    /\ watcher' = [watcher EXCEPT !.pc = "pending"]
    /\ flush' = [flush EXCEPT !["main"] = Read(watcher.offset)]
    /\ UNCHANGED <<written, cut, told, live, reported, due, gateway, downs>>

\* The message of the completion.
Complete ==
    /\ watcher.pc = "pending"
    /\ flush["main"].next > flush["main"].last
    /\ flush' = [flush EXCEPT !["main"] = NoFlush]
    /\ rec' = NoRecord
    /\ watcher' = IdleWatcher
    /\ Kill
    /\ UNCHANGED <<written, cut, told, reported, gateway, downs>>

-----------------------------------------------------------------------------
(* The gateway.                                                            *)

\* stop(): haltProjectsForGatewayStop; a run in flight is not awaited.
Stop ==
    /\ gateway = "up" /\ downs < MaxDowns
    /\ gateway' = "stopping" /\ downs' = downs + 1
    /\ rec' = CASE rec.state = "none" -> rec
                [] OTHER -> [state |-> "armed", offset |-> 0]
    /\ Kill
    /\ UNCHANGED <<written, cut, told, watcher, flush, reported>>

\* The process ends; a session of it may go on.
Down ==
    /\ gateway' = "down"
    /\ watcher' = IdleWatcher
    /\ flush' = [f \in Flushers |-> NoFlush]
    /\ live' \in {{}, IF live = {} THEN {} ELSE {"old"}}
    /\ IF reported THEN UNCHANGED due ELSE DueNow
    /\ UNCHANGED <<written, cut, told, rec, reported>>

ProcessExit == gateway = "stopping" /\ Down /\ UNCHANGED downs

Crash ==
    /\ gateway # "down" /\ downs < MaxDowns
    /\ Down
    /\ downs' = downs + 1

\* tryAdoptRunningSession keeps the offset on record ...
Adopt ==
    /\ gateway = "down" /\ rec.state = "running" /\ ~reported /\ live # {}
    /\ gateway' = "up"
    /\ UNCHANGED <<written, cut, told, rec, watcher, flush, live, reported, due, downs>>

\* ... recoverProject forgets it, and flushes nothing for a project that it
\* finds complete.
Recover ==
    /\ gateway = "down" /\ ~(rec.state = "running" /\ ~reported /\ live # {})
    /\ gateway' = "up"
    /\ reported' = FALSE
    /\ rec' \in {NoRecord, [state |-> "armed", offset |-> 0]}
    /\ rec.state = "none" => rec' = NoRecord
    /\ UNCHANGED <<written, cut, told, watcher, flush, live, due, downs>>

-----------------------------------------------------------------------------
(* The specification.                                                      *)

Init ==
    /\ written = 0 /\ cut = 0 /\ told = {} /\ due = 0
    /\ rec = NoRecord
    /\ watcher = IdleWatcher
    /\ flush = [f \in Flushers |-> NoFlush]
    /\ live = {}
    /\ reported = FALSE
    /\ gateway = "up"
    /\ downs = 0

WatcherStep ==
    \/ Start \/ Spawn \/ Watch \/ LastFlush \/ LastFlushed
    \/ Leave \/ Requeue \/ GiveUp \/ Finalize \/ FinalizeAdopted
    \/ FinalizeAgain \/ Complete

Next ==
    \/ Write \/ Report \/ \E s \in {"own", "old"} : WorkerEnds(s)
    \/ Queue \/ WatcherStep
    \/ \E f \in Flushers : Send(f)
    \/ EventFlush \/ EventFlushed \/ WatchFlush \/ WatchFlushed
    \/ Stop \/ ProcessExit \/ Crash \/ Adopt \/ Recover

Spec == Init /\ [][Next]_vars

\* Promises of a running process go on, a send comes back, a result or a dead
\* session is noticed.  A worker's turn ends at some time.  It need not write.
Fairness ==
    /\ WF_vars(WatcherStep)
    /\ \A f \in Flushers : WF_vars(Send(f))
    /\ WF_vars(EventFlushed) /\ WF_vars(WatchFlushed)
    /\ WF_vars(Ended /\ WatchFlush)
    /\ \A s \in {"own", "old"} : WF_vars(WorkerEnds(s))

FairSpec == Spec /\ Fairness

-----------------------------------------------------------------------------
(* What the feed promises.                                                 *)

\* The offsets cover only lines that were told: wherever a flush goes on, in
\* this process or after a crash, it skips none, although three flushes move
\* the offset of the turn back and forth and the file is emptied under it.
OffsetsTold ==
    /\ rec.state = "running" => cut + 1 .. cut + rec.offset \subseteq told
    /\ watcher.pc \in {"turn", "settle", "final", "resolve"} =>
          cut + 1 .. cut + watcher.offset \subseteq told

\* The chat hears the lines of a run in the order of the file: the first
\* time a line is told, every line ahead of it was told before.
ToldInOrder ==
    [][\A l \in told' \ told : cut + 1 .. l - 1 \subseteq told]_vars

\* README: the watcher "replays missed progress from the last saved offset
\* before sending the final completion message": what the worker wrote
\* before it reported is told, also if another process told a part of it.
CompletionLast ==
    [][watcher.pc = "pending" /\ watcher'.pc = "idle" /\ gateway' = "up"
          => cut + 1 .. due \subseteq told]_vars

\* A line of a turn in flight is told, unless the gateway goes down: also one
\* that the worker writes between the flush of its result and its end.
LinesTold ==
    \A l \in Lines :
        (watcher.pc = "turn" /\ l \in cut + 1 .. written) ~> (l \in told \/ gateway # "up")
=============================================================================
