--------------------------- MODULE ProgressFeedProofs ---------------------------
(* What holds of the progress feed for any number of lines, crashes and    *)
(* stops.                                                                  *)
EXTENDS ProgressFeed, TLAPS

\* The lines of the file up to the n-th of it were told.
Covered(n) == \A l \in cut + 1 .. cut + n : l \in told

\* Only what is written is told, and due.
Written == told \subseteq 1 .. written /\ due <= written

\* An offset, of the turn or on record, stands behind lines that were told;
\* before a turn there is none.
OffsetsCovered ==
    /\ Covered(rec.offset)
    /\ Covered(watcher.offset)
    /\ watcher.pc = "start" => rec.offset = 0 /\ watcher.offset = 0

\* A flush has told everything ahead of its next line and answers the size of
\* what it read; flushes are in flight only where the turn waits for them.
FlushesOrdered ==
    /\ \A f \in Flushers : flush[f].busy =>
          /\ cut < flush[f].next /\ flush[f].next <= flush[f].last + 1
          /\ flush[f].last <= written /\ flush[f].to = flush[f].last - cut
          /\ \A l \in cut + 1 .. flush[f].next - 1 : l \in told
    /\ flush["event"].busy \/ flush["watch"].busy => watcher.pc \in {"turn", "settle"}
    /\ flush["main"].busy <=> watcher.pc \in {"final", "pending", "early"}

\* The last flush of a run reads the lines that are due.
DueIsRead == watcher.pc \in {"pending", "early"} => due <= flush["main"].last

FeedInv == TypeOK /\ Written /\ OffsetsCovered /\ FlushesOrdered /\ DueIsRead

-----------------------------------------------------------------------------
(* Steps.                                                                  *)

\* At the start nothing was written or sent.
LEMMA InitFeed == Init => FeedInv
<1> SUFFICES ASSUME Init PROVE FeedInv
  OBVIOUS
<1> USE MaxLinesAssumption, MaxDownsAssumption
<1>1. TypeOK
  <2>1. NoRecord \in Records /\ IdleWatcher \in Watchers /\ NoFlush \in Flushes
    BY DEF NoRecord, IdleWatcher, NoFlush, Records, Watchers, WatcherPcs, Flushes, Offsets
  <2>2. flush \in [Flushers -> Flushes]
    BY <2>1 DEF Init
  <2>3. written = 0 /\ cut = 0 /\ due = 0 /\ downs = 0 /\ told = {} /\ live = {}
    BY DEF Init
  <2>4. rec \in Records /\ watcher \in Watchers /\ reported \in BOOLEAN /\ gateway = "up"
    BY <2>1 DEF Init
  <2> QED
    BY <2>2, <2>3, <2>4 DEF TypeOK, Lines, Offsets
<1>2. Written /\ OffsetsCovered /\ FlushesOrdered /\ DueIsRead
  BY
  DEF Init, IdleWatcher, NoFlush, NoRecord, Written, OffsetsCovered, Covered, FlushesOrdered,
      DueIsRead, Flushers
<1> QED
  BY <1>1, <1>2 DEF FeedInv

\* The worker appends lines and reports.
LEMMA WorkerFeed ==
    ASSUME FeedInv, Write \/ Report \/ (\E s \in {"own", "old"} : WorkerEnds(s))
    PROVE  FeedInv'
<1> USE MaxLinesAssumption, MaxDownsAssumption
    DEF Lines, Offsets, Flushers, Records, Watchers, WatcherPcs, Flushes
<1>1. CASE Write
  <2>1. TypeOK'
    BY <1>1 DEF Write, FeedInv, TypeOK
  <2>2. Written' /\ DueIsRead'
    BY <1>1 DEF Write, FeedInv, TypeOK, Written, FlushesOrdered, DueIsRead
  <2>3. OffsetsCovered'
    BY <1>1 DEF Write, FeedInv, TypeOK, Written, OffsetsCovered, Covered, FlushesOrdered
  <2>4. FlushesOrdered'
    BY <1>1 DEF Write, FeedInv, TypeOK, Written, OffsetsCovered, Covered, FlushesOrdered
  <2> QED
    BY <2>1, <2>2, <2>3, <2>4 DEF FeedInv
<1>2. CASE Report
  <2>1. TypeOK'
    BY <1>2 DEF Report, DueNow, FeedInv, TypeOK
  <2>2. Written' /\ DueIsRead'
    BY <1>2 DEF Report, DueNow, FeedInv, TypeOK, Written, FlushesOrdered, DueIsRead
  <2>3. OffsetsCovered'
    BY <1>2 DEF Report, DueNow, FeedInv, TypeOK, Written, OffsetsCovered, Covered, FlushesOrdered
  <2>4. FlushesOrdered'
    BY <1>2 DEF Report, DueNow, FeedInv, TypeOK, Written, OffsetsCovered, Covered, FlushesOrdered
  <2> QED
    BY <2>1, <2>2, <2>3, <2>4 DEF FeedInv
<1>3. CASE \E s \in {"own", "old"} : WorkerEnds(s)
  <2>1. TypeOK'
    BY <1>3 DEF WorkerEnds, DueNow, FeedInv, TypeOK
  <2>2. Written' /\ DueIsRead'
    BY <1>3 DEF WorkerEnds, DueNow, FeedInv, TypeOK, Written, FlushesOrdered, DueIsRead
  <2>3. OffsetsCovered'
    BY <1>3
    DEF WorkerEnds, DueNow, FeedInv, TypeOK, Written, OffsetsCovered, Covered, FlushesOrdered
  <2>4. FlushesOrdered'
    BY <1>3
    DEF WorkerEnds, DueNow, FeedInv, TypeOK, Written, OffsetsCovered, Covered, FlushesOrdered
  <2> QED
    BY <2>1, <2>2, <2>3, <2>4 DEF FeedInv
<1> QED
  BY <1>1, <1>2, <1>3

\* A flush tells line after line and moves the offsets behind them.
LEMMA FlushFeed ==
    ASSUME FeedInv, \/ (\E f \in Flushers : Send(f)) \/ EventFlush \/ EventFlushed \/ WatchFlush
                    \/ WatchFlushed \/ LastFlush \/ LastFlushed
    PROVE  FeedInv'
<1> USE MaxLinesAssumption, MaxDownsAssumption
    DEF Lines, Offsets, Flushers, Records, Watchers, WatcherPcs, Flushes
<1>1. CASE \E f \in Flushers : Send(f)
  <2>1. TypeOK'
    BY <1>1 DEF Send, FeedInv, TypeOK
  <2>2. Written' /\ DueIsRead'
    BY <1>1 DEF Send, FeedInv, TypeOK, Written, FlushesOrdered, DueIsRead
  <2>3. OffsetsCovered'
    BY <1>1 DEF Send, FeedInv, TypeOK, Written, OffsetsCovered, Covered, FlushesOrdered
  <2>4. FlushesOrdered'
    BY <1>1 DEF Send, FeedInv, TypeOK, Written, OffsetsCovered, Covered, FlushesOrdered
  <2> QED
    BY <2>1, <2>2, <2>3, <2>4 DEF FeedInv
<1>2. CASE EventFlush
  <2>1. TypeOK'
    BY <1>2 DEF EventFlush, Read, Size, Least, FeedInv, TypeOK
  <2>2. Written' /\ DueIsRead'
    BY <1>2 DEF EventFlush, Read, Size, Least, FeedInv, TypeOK, Written, FlushesOrdered, DueIsRead
  <2>3. OffsetsCovered'
    BY <1>2
    DEF EventFlush, Read, Size, Least, FeedInv, TypeOK, Written, OffsetsCovered, Covered,
        FlushesOrdered
  <2>4. FlushesOrdered'
    BY <1>2
    DEF EventFlush, Read, Size, Least, FeedInv, TypeOK, Written, OffsetsCovered, Covered,
        FlushesOrdered
  <2> QED
    BY <2>1, <2>2, <2>3, <2>4 DEF FeedInv
<1>3. CASE EventFlushed
  <2>1. TypeOK'
    <3>1. rec' \in Records /\ watcher' \in Watchers
      <4> DEFINE to == flush["event"].to
      <4>1. to \in Offsets
        BY DEF FeedInv, TypeOK
      <4>2. rec' = rec \/ rec' = [rec EXCEPT !.offset = to]
        BY <1>3 DEF EventFlushed, Flushed, AnsweredOffset, NoFlush
      <4>3. watcher' = [watcher EXCEPT !.pc = watcher.pc, !.offset = to]
        BY <1>3 DEF EventFlushed, Flushed, AnsweredOffset, NoFlush
      <4> HIDE DEF to
      <4>4. rec' \in Records
        BY <4>1, <4>2 DEF FeedInv, TypeOK
      <4>5. watcher' \in Watchers
        BY <4>1, <4>3 DEF FeedInv, TypeOK
      <4> QED
        BY <4>4, <4>5
    <3>2. flush' \in [Flushers -> Flushes]
      BY <1>3 DEF EventFlushed, Flushed, AnsweredOffset, NoFlush, FeedInv, TypeOK
    <3> HIDE DEF Records, Watchers, Flushes, WatcherPcs
    <3>3. UNCHANGED <<written, cut, told, reported, gateway, downs>>
      BY <1>3 DEF EventFlushed, Flushed, AnsweredOffset, NoFlush
    <3>4. live' \subseteq {"own", "old"}
      BY <1>3 DEF EventFlushed, Flushed, AnsweredOffset, NoFlush, FeedInv, TypeOK
    <3>5. due' \in Offsets
      BY <1>3 DEF EventFlushed, Flushed, AnsweredOffset, NoFlush, FeedInv, TypeOK
    <3> QED
      BY <3>1, <3>2, <3>3, <3>4, <3>5 DEF FeedInv, TypeOK
  <2>2. Written' /\ DueIsRead'
    BY <1>3
    DEF EventFlushed, Flushed, AnsweredOffset, NoFlush, FeedInv, TypeOK, Written,
        FlushesOrdered, DueIsRead
  <2>3. OffsetsCovered'
    BY <1>3
    DEF EventFlushed, Flushed, AnsweredOffset, NoFlush, FeedInv, TypeOK, Written,
        OffsetsCovered, Covered, FlushesOrdered
  <2>4. FlushesOrdered'
    BY <1>3
    DEF EventFlushed, Flushed, AnsweredOffset, NoFlush, FeedInv, TypeOK, Written,
        OffsetsCovered, Covered, FlushesOrdered
  <2> QED
    BY <2>1, <2>2, <2>3, <2>4 DEF FeedInv
<1>4. CASE WatchFlush
  <2>1. TypeOK'
    BY <1>4 DEF WatchFlush, Read, Size, Least, FeedInv, TypeOK
  <2>2. Written' /\ DueIsRead'
    BY <1>4 DEF WatchFlush, Read, Size, Least, FeedInv, TypeOK, Written, FlushesOrdered, DueIsRead
  <2>3. OffsetsCovered'
    BY <1>4
    DEF WatchFlush, Read, Size, Least, FeedInv, TypeOK, Written, OffsetsCovered, Covered,
        FlushesOrdered
  <2>4. FlushesOrdered'
    BY <1>4
    DEF WatchFlush, Read, Size, Least, FeedInv, TypeOK, Written, OffsetsCovered, Covered,
        FlushesOrdered
  <2> QED
    BY <2>1, <2>2, <2>3, <2>4 DEF FeedInv
<1>5. CASE WatchFlushed
  <2>1. TypeOK'
    <3>1. rec' \in Records /\ watcher' \in Watchers
      <4> DEFINE to == flush["watch"].to
      <4>1. to \in Offsets
        BY DEF FeedInv, TypeOK
      <4>2. rec' = rec \/ rec' = [rec EXCEPT !.offset = to]
        BY <1>5 DEF WatchFlushed, Flushed, AnsweredOffset, NoFlush, Kill, DueNow
      <4>3. watcher' = [watcher EXCEPT !.pc = "settle", !.offset = to]
        BY <1>5 DEF WatchFlushed, Flushed, AnsweredOffset, NoFlush, Kill, DueNow
      <4> HIDE DEF to
      <4>4. rec' \in Records
        BY <4>1, <4>2 DEF FeedInv, TypeOK
      <4>5. watcher' \in Watchers
        BY <4>1, <4>3 DEF FeedInv, TypeOK
      <4> QED
        BY <4>4, <4>5
    <3>2. flush' \in [Flushers -> Flushes]
      BY <1>5 DEF WatchFlushed, Flushed, AnsweredOffset, NoFlush, Kill, DueNow, FeedInv, TypeOK
    <3> HIDE DEF Records, Watchers, Flushes, WatcherPcs
    <3>3. UNCHANGED <<written, cut, told, reported, gateway, downs>>
      BY <1>5 DEF WatchFlushed, Flushed, AnsweredOffset, NoFlush, Kill, DueNow
    <3>4. live' \subseteq {"own", "old"}
      BY <1>5 DEF WatchFlushed, Flushed, AnsweredOffset, NoFlush, Kill, DueNow, FeedInv, TypeOK
    <3>5. due' \in Offsets
      BY <1>5 DEF WatchFlushed, Flushed, AnsweredOffset, NoFlush, Kill, DueNow, FeedInv, TypeOK
    <3> QED
      BY <3>1, <3>2, <3>3, <3>4, <3>5 DEF FeedInv, TypeOK
  <2>2. Written' /\ DueIsRead'
    BY <1>5
    DEF WatchFlushed, Flushed, AnsweredOffset, NoFlush, Kill, DueNow, FeedInv, TypeOK, Written,
        FlushesOrdered, DueIsRead
  <2>3. OffsetsCovered'
    BY <1>5
    DEF WatchFlushed, Flushed, AnsweredOffset, NoFlush, Kill, DueNow, FeedInv, TypeOK, Written,
        OffsetsCovered, Covered, FlushesOrdered
  <2>4. FlushesOrdered'
    BY <1>5
    DEF WatchFlushed, Flushed, AnsweredOffset, NoFlush, Kill, DueNow, FeedInv, TypeOK, Written,
        OffsetsCovered, Covered, FlushesOrdered
  <2> QED
    BY <2>1, <2>2, <2>3, <2>4 DEF FeedInv
<1>6. CASE LastFlush
  <2>1. TypeOK'
    BY <1>6 DEF LastFlush, ReadAtEnd, Read, Size, Least, FeedInv, TypeOK
  <2>2. Written' /\ DueIsRead'
    BY <1>6
    DEF LastFlush, ReadAtEnd, Read, Size, Least, FeedInv, TypeOK, Written, FlushesOrdered,
        DueIsRead
  <2>3. OffsetsCovered'
    BY <1>6
    DEF LastFlush, ReadAtEnd, Read, Size, Least, FeedInv, TypeOK, Written, OffsetsCovered,
        Covered, FlushesOrdered
  <2>4. FlushesOrdered'
    BY <1>6
    DEF LastFlush, ReadAtEnd, Read, Size, Least, FeedInv, TypeOK, Written, OffsetsCovered,
        Covered, FlushesOrdered
  <2> QED
    BY <2>1, <2>2, <2>3, <2>4 DEF FeedInv
<1>7. CASE LastFlushed
  <2>1. TypeOK'
    <3>1. rec' \in Records /\ watcher' \in Watchers
      <4> DEFINE to == flush["main"].to
      <4>1. to \in Offsets
        BY DEF FeedInv, TypeOK
      <4>2. rec' = rec \/ rec' = [rec EXCEPT !.offset = to]
        BY <1>7 DEF LastFlushed, Flushed, AnsweredOffset, NoFlush
      <4>3. watcher' = [watcher EXCEPT !.pc = "resolve", !.offset = to]
        BY <1>7 DEF LastFlushed, Flushed, AnsweredOffset, NoFlush
      <4> HIDE DEF to
      <4>4. rec' \in Records
        BY <4>1, <4>2 DEF FeedInv, TypeOK
      <4>5. watcher' \in Watchers
        BY <4>1, <4>3 DEF FeedInv, TypeOK
      <4> QED
        BY <4>4, <4>5
    <3>2. flush' \in [Flushers -> Flushes]
      BY <1>7 DEF LastFlushed, Flushed, AnsweredOffset, NoFlush, FeedInv, TypeOK
    <3> HIDE DEF Records, Watchers, Flushes, WatcherPcs
    <3>3. UNCHANGED <<written, cut, told, reported, gateway, downs>>
      BY <1>7 DEF LastFlushed, Flushed, AnsweredOffset, NoFlush
    <3>4. live' \subseteq {"own", "old"}
      BY <1>7 DEF LastFlushed, Flushed, AnsweredOffset, NoFlush, FeedInv, TypeOK
    <3>5. due' \in Offsets
      BY <1>7 DEF LastFlushed, Flushed, AnsweredOffset, NoFlush, FeedInv, TypeOK
    <3> QED
      BY <3>1, <3>2, <3>3, <3>4, <3>5 DEF FeedInv, TypeOK
  <2>2. Written' /\ DueIsRead'
    BY <1>7
    DEF LastFlushed, Flushed, AnsweredOffset, NoFlush, FeedInv, TypeOK, Written, FlushesOrdered,
        DueIsRead
  <2>3. OffsetsCovered'
    BY <1>7
    DEF LastFlushed, Flushed, AnsweredOffset, NoFlush, FeedInv, TypeOK, Written, OffsetsCovered,
        Covered, FlushesOrdered
  <2>4. FlushesOrdered'
    BY <1>7
    DEF LastFlushed, Flushed, AnsweredOffset, NoFlush, FeedInv, TypeOK, Written, OffsetsCovered,
        Covered, FlushesOrdered
  <2> QED
    BY <2>1, <2>2, <2>3, <2>4 DEF FeedInv
<1> QED
  BY <1>1, <1>2, <1>3, <1>4, <1>5, <1>6, <1>7

\* A turn begins on an empty file or where another process was.
LEMMA TurnFeed ==
    ASSUME FeedInv, Queue \/ Start \/ Spawn \/ Watch
    PROVE  FeedInv'
<1> USE MaxLinesAssumption, MaxDownsAssumption
    DEF Lines, Offsets, Flushers, Records, Watchers, WatcherPcs, Flushes
<1>1. CASE Queue
  <2>1. TypeOK'
    BY <1>1 DEF Queue, FeedInv, TypeOK
  <2>2. Written' /\ DueIsRead'
    BY <1>1 DEF Queue, FeedInv, TypeOK, Written, FlushesOrdered, DueIsRead
  <2>3. OffsetsCovered'
    BY <1>1 DEF Queue, FeedInv, TypeOK, Written, OffsetsCovered, Covered, FlushesOrdered
  <2>4. FlushesOrdered'
    BY <1>1 DEF Queue, FeedInv, TypeOK, Written, OffsetsCovered, Covered, FlushesOrdered
  <2> QED
    BY <2>1, <2>2, <2>3, <2>4 DEF FeedInv
<1>2. CASE Start
  <2>1. TypeOK'
    BY <1>2 DEF Start, FeedInv, TypeOK
  <2>2. Written' /\ DueIsRead'
    BY <1>2 DEF Start, FeedInv, TypeOK, Written, FlushesOrdered, DueIsRead
  <2>3. OffsetsCovered'
    BY <1>2 DEF Start, FeedInv, TypeOK, Written, OffsetsCovered, Covered, FlushesOrdered
  <2>4. FlushesOrdered'
    BY <1>2 DEF Start, FeedInv, TypeOK, Written, OffsetsCovered, Covered, FlushesOrdered
  <2> QED
    BY <2>1, <2>2, <2>3, <2>4 DEF FeedInv
<1>3. CASE Spawn
  <2>1. TypeOK'
    <3>1. watcher' \in Watchers
      BY <1>3 DEF Spawn, FeedInv, TypeOK
    <3> HIDE DEF Records, Watchers, Flushes, WatcherPcs
    <3>2. live' \subseteq {"own", "old"} /\ reported' \in BOOLEAN
      BY <1>3 DEF Spawn, FeedInv, TypeOK
    <3>3. cut' = written /\ due' = written /\ UNCHANGED <<written, told, rec, flush, gateway, downs>>
      BY <1>3 DEF Spawn
    <3> QED
      BY <3>1, <3>2, <3>3 DEF FeedInv, TypeOK
  <2>2. Written' /\ DueIsRead'
    BY <1>3 DEF Spawn, FeedInv, TypeOK, Written, FlushesOrdered, DueIsRead
  <2>3. OffsetsCovered'
    BY <1>3 DEF Spawn, FeedInv, TypeOK, Written, OffsetsCovered, Covered, FlushesOrdered
  <2>4. FlushesOrdered'
    BY <1>3 DEF Spawn, FeedInv, TypeOK, Written, OffsetsCovered, Covered, FlushesOrdered
  <2> QED
    BY <2>1, <2>2, <2>3, <2>4 DEF FeedInv
<1>4. CASE Watch
  <2>1. TypeOK'
    BY <1>4 DEF Watch, AdoptedOffset, FeedInv, TypeOK
  <2>2. Written' /\ DueIsRead'
    BY <1>4 DEF Watch, AdoptedOffset, FeedInv, TypeOK, Written, FlushesOrdered, DueIsRead
  <2>3. OffsetsCovered'
    BY <1>4
    DEF Watch, AdoptedOffset, FeedInv, TypeOK, Written, OffsetsCovered, Covered, FlushesOrdered
  <2>4. FlushesOrdered'
    BY <1>4
    DEF Watch, AdoptedOffset, FeedInv, TypeOK, Written, OffsetsCovered, Covered, FlushesOrdered
  <2> QED
    BY <2>1, <2>2, <2>3, <2>4 DEF FeedInv
<1> QED
  BY <1>1, <1>2, <1>3, <1>4

\* A run is left, or flushed once more and completed.
LEMMA EndFeed ==
    ASSUME FeedInv, \/ Leave \/ Requeue \/ GiveUp \/ Finalize \/ FinalizeAdopted \/ FinalizeAgain
                    \/ Complete
    PROVE  FeedInv'
<1> USE MaxLinesAssumption, MaxDownsAssumption
    DEF Lines, Offsets, Flushers, Records, Watchers, WatcherPcs, Flushes
<1>1. CASE Leave
  <2>1. TypeOK'
    BY <1>1 DEF Leave, IdleWatcher, FeedInv, TypeOK
  <2>2. Written' /\ DueIsRead'
    BY <1>1 DEF Leave, IdleWatcher, FeedInv, TypeOK, Written, FlushesOrdered, DueIsRead
  <2>3. OffsetsCovered'
    BY <1>1
    DEF Leave, IdleWatcher, FeedInv, TypeOK, Written, OffsetsCovered, Covered, FlushesOrdered
  <2>4. FlushesOrdered'
    BY <1>1
    DEF Leave, IdleWatcher, FeedInv, TypeOK, Written, OffsetsCovered, Covered, FlushesOrdered
  <2> QED
    BY <2>1, <2>2, <2>3, <2>4 DEF FeedInv
<1>2. CASE Requeue
  <2>1. TypeOK'
    BY <1>2 DEF Requeue, IdleWatcher, Kill, DueNow, FeedInv, TypeOK
  <2>2. Written' /\ DueIsRead'
    BY <1>2
    DEF Requeue, IdleWatcher, Kill, DueNow, FeedInv, TypeOK, Written, FlushesOrdered, DueIsRead
  <2>3. OffsetsCovered'
    BY <1>2
    DEF Requeue, IdleWatcher, Kill, DueNow, FeedInv, TypeOK, Written, OffsetsCovered, Covered,
        FlushesOrdered
  <2>4. FlushesOrdered'
    BY <1>2
    DEF Requeue, IdleWatcher, Kill, DueNow, FeedInv, TypeOK, Written, OffsetsCovered, Covered,
        FlushesOrdered
  <2> QED
    BY <2>1, <2>2, <2>3, <2>4 DEF FeedInv
<1>3. CASE GiveUp
  <2>1. TypeOK'
    BY <1>3 DEF GiveUp, IdleWatcher, NoRecord, Kill, DueNow, FeedInv, TypeOK
  <2>2. Written' /\ DueIsRead'
    BY <1>3
    DEF GiveUp, IdleWatcher, NoRecord, Kill, DueNow, FeedInv, TypeOK, Written, FlushesOrdered,
        DueIsRead
  <2>3. OffsetsCovered'
    BY <1>3
    DEF GiveUp, IdleWatcher, NoRecord, Kill, DueNow, FeedInv, TypeOK, Written, OffsetsCovered,
        Covered, FlushesOrdered
  <2>4. FlushesOrdered'
    BY <1>3
    DEF GiveUp, IdleWatcher, NoRecord, Kill, DueNow, FeedInv, TypeOK, Written, OffsetsCovered,
        Covered, FlushesOrdered
  <2> QED
    BY <2>1, <2>2, <2>3, <2>4 DEF FeedInv
<1>4. CASE Finalize
  <2>1. TypeOK'
    <3>1. watcher' \in Watchers
      <4>1. rec.offset \in Offsets
        BY DEF FeedInv, TypeOK
      <4>2. watcher' = [watcher EXCEPT !.pc = "pending", !.offset = rec.offset]
        BY <1>4 DEF Finalize, Read, Size, Least
      <4> DEFINE from == rec.offset
      <4> HIDE DEF from
      <4> QED
        BY <4>1, <4>2 DEF FeedInv, TypeOK
    <3>2. flush' \in [Flushers -> Flushes]
      BY <1>4 DEF Finalize, Read, Size, Least, FeedInv, TypeOK
    <3> HIDE DEF Records, Watchers, Flushes, WatcherPcs
    <3>3. UNCHANGED <<written, cut, told, rec, live, reported, due, gateway, downs>>
      BY <1>4 DEF Finalize, Read, Size, Least
    <3> QED
      BY <3>1, <3>2, <3>3 DEF FeedInv, TypeOK
  <2>2. Written' /\ DueIsRead'
    BY <1>4 DEF Finalize, Read, Size, Least, FeedInv, TypeOK, Written, FlushesOrdered, DueIsRead
  <2>3. OffsetsCovered'
    BY <1>4
    DEF Finalize, Read, Size, Least, FeedInv, TypeOK, Written, OffsetsCovered, Covered,
        FlushesOrdered
  <2>4. FlushesOrdered'
    BY <1>4
    DEF Finalize, Read, Size, Least, FeedInv, TypeOK, Written, OffsetsCovered, Covered,
        FlushesOrdered
  <2> QED
    BY <2>1, <2>2, <2>3, <2>4 DEF FeedInv
<1>5. CASE FinalizeAdopted
  <2>1. TypeOK'
    BY <1>5 DEF FinalizeAdopted, Read, Size, Least, FeedInv, TypeOK
  <2>2. Written' /\ DueIsRead'
    BY <1>5
    DEF FinalizeAdopted, Read, Size, Least, FeedInv, TypeOK, Written, FlushesOrdered, DueIsRead
  <2>3. OffsetsCovered'
    BY <1>5
    DEF FinalizeAdopted, Read, Size, Least, FeedInv, TypeOK, Written, OffsetsCovered, Covered,
        FlushesOrdered
  <2>4. FlushesOrdered'
    BY <1>5
    DEF FinalizeAdopted, Read, Size, Least, FeedInv, TypeOK, Written, OffsetsCovered, Covered,
        FlushesOrdered
  <2> QED
    BY <2>1, <2>2, <2>3, <2>4 DEF FeedInv
<1>6. CASE FinalizeAgain
  <2>1. TypeOK'
    <3>1. rec' \in Records
      <4> DEFINE to == flush["main"].to
      <4>1. to \in Offsets /\ rec' = [rec EXCEPT !.offset = to]
        BY <1>6 DEF FinalizeAgain, FeedInv, TypeOK
      <4> HIDE DEF to
      <4> QED
        BY <4>1 DEF FeedInv, TypeOK
    <3>2. watcher' \in Watchers
      BY <1>6 DEF FinalizeAgain, FeedInv, TypeOK
    <3>3. flush' \in [Flushers -> Flushes]
      BY <1>6 DEF FinalizeAgain, Read, Size, Least, FeedInv, TypeOK
    <3> HIDE DEF Records, Watchers, Flushes, WatcherPcs
    <3>4. UNCHANGED <<written, cut, told, live, reported, due, gateway, downs>>
      BY <1>6 DEF FinalizeAgain, Read, Size, Least
    <3> QED
      BY <3>1, <3>2, <3>3, <3>4 DEF FeedInv, TypeOK
  <2>2. Written' /\ DueIsRead'
    BY <1>6
    DEF FinalizeAgain, Read, Size, Least, FeedInv, TypeOK, Written, FlushesOrdered, DueIsRead
  <2>3. OffsetsCovered'
    BY <1>6
    DEF FinalizeAgain, Read, Size, Least, FeedInv, TypeOK, Written, OffsetsCovered, Covered,
        FlushesOrdered
  <2>4. FlushesOrdered'
    BY <1>6
    DEF FinalizeAgain, Read, Size, Least, FeedInv, TypeOK, Written, OffsetsCovered, Covered,
        FlushesOrdered
  <2> QED
    BY <2>1, <2>2, <2>3, <2>4 DEF FeedInv
<1>7. CASE Complete
  <2>1. TypeOK'
    BY <1>7 DEF Complete, NoFlush, NoRecord, IdleWatcher, Kill, DueNow, FeedInv, TypeOK
  <2>2. Written' /\ DueIsRead'
    BY <1>7
    DEF Complete, NoFlush, NoRecord, IdleWatcher, Kill, DueNow, FeedInv, TypeOK, Written,
        FlushesOrdered, DueIsRead
  <2>3. OffsetsCovered'
    BY <1>7
    DEF Complete, NoFlush, NoRecord, IdleWatcher, Kill, DueNow, FeedInv, TypeOK, Written,
        OffsetsCovered, Covered, FlushesOrdered
  <2>4. FlushesOrdered'
    BY <1>7
    DEF Complete, NoFlush, NoRecord, IdleWatcher, Kill, DueNow, FeedInv, TypeOK, Written,
        OffsetsCovered, Covered, FlushesOrdered
  <2> QED
    BY <2>1, <2>2, <2>3, <2>4 DEF FeedInv
<1> QED
  BY <1>1, <1>2, <1>3, <1>4, <1>5, <1>6, <1>7

\* The gateway goes down and comes up again.
LEMMA GatewayFeed ==
    ASSUME FeedInv, Stop \/ ProcessExit \/ Crash \/ Adopt \/ Recover
    PROVE  FeedInv'
<1> USE MaxLinesAssumption, MaxDownsAssumption
    DEF Lines, Offsets, Flushers, Records, Watchers, WatcherPcs, Flushes
<1>1. CASE Stop
  <2>1. TypeOK'
    BY <1>1 DEF Stop, Kill, DueNow, FeedInv, TypeOK
  <2>2. Written' /\ DueIsRead'
    BY <1>1 DEF Stop, Kill, DueNow, FeedInv, TypeOK, Written, FlushesOrdered, DueIsRead
  <2>3. OffsetsCovered'
    BY <1>1
    DEF Stop, Kill, DueNow, FeedInv, TypeOK, Written, OffsetsCovered, Covered, FlushesOrdered
  <2>4. FlushesOrdered'
    BY <1>1
    DEF Stop, Kill, DueNow, FeedInv, TypeOK, Written, OffsetsCovered, Covered, FlushesOrdered
  <2> QED
    BY <2>1, <2>2, <2>3, <2>4 DEF FeedInv
<1>2. CASE ProcessExit
  <2>1. TypeOK'
    BY <1>2 DEF ProcessExit, Down, IdleWatcher, NoFlush, DueNow, FeedInv, TypeOK
  <2>2. Written' /\ DueIsRead'
    BY <1>2
    DEF ProcessExit, Down, IdleWatcher, NoFlush, DueNow, FeedInv, TypeOK, Written,
        FlushesOrdered, DueIsRead
  <2>3. OffsetsCovered'
    BY <1>2
    DEF ProcessExit, Down, IdleWatcher, NoFlush, DueNow, FeedInv, TypeOK, Written,
        OffsetsCovered, Covered, FlushesOrdered
  <2>4. FlushesOrdered'
    BY <1>2
    DEF ProcessExit, Down, IdleWatcher, NoFlush, DueNow, FeedInv, TypeOK, Written,
        OffsetsCovered, Covered, FlushesOrdered
  <2> QED
    BY <2>1, <2>2, <2>3, <2>4 DEF FeedInv
<1>3. CASE Crash
  <2>1. TypeOK'
    BY <1>3 DEF Crash, Down, IdleWatcher, NoFlush, DueNow, FeedInv, TypeOK
  <2>2. Written' /\ DueIsRead'
    BY <1>3
    DEF Crash, Down, IdleWatcher, NoFlush, DueNow, FeedInv, TypeOK, Written, FlushesOrdered,
        DueIsRead
  <2>3. OffsetsCovered'
    BY <1>3
    DEF Crash, Down, IdleWatcher, NoFlush, DueNow, FeedInv, TypeOK, Written, OffsetsCovered,
        Covered, FlushesOrdered
  <2>4. FlushesOrdered'
    BY <1>3
    DEF Crash, Down, IdleWatcher, NoFlush, DueNow, FeedInv, TypeOK, Written, OffsetsCovered,
        Covered, FlushesOrdered
  <2> QED
    BY <2>1, <2>2, <2>3, <2>4 DEF FeedInv
<1>4. CASE Adopt
  <2>1. TypeOK'
    BY <1>4 DEF Adopt, FeedInv, TypeOK
  <2>2. Written' /\ DueIsRead'
    BY <1>4 DEF Adopt, FeedInv, TypeOK, Written, FlushesOrdered, DueIsRead
  <2>3. OffsetsCovered'
    BY <1>4 DEF Adopt, FeedInv, TypeOK, Written, OffsetsCovered, Covered, FlushesOrdered
  <2>4. FlushesOrdered'
    BY <1>4 DEF Adopt, FeedInv, TypeOK, Written, OffsetsCovered, Covered, FlushesOrdered
  <2> QED
    BY <2>1, <2>2, <2>3, <2>4 DEF FeedInv
<1>5. CASE Recover
  <2>1. TypeOK'
    <3>1. NoRecord \in Records /\ [state |-> "armed", offset |-> 0] \in Records
      BY DEF NoRecord
    <3> HIDE DEF Records, Watchers, Flushes, WatcherPcs
    <3>2. rec' \in Records /\ reported' \in BOOLEAN /\ gateway' = "up"
      BY <1>5, <3>1 DEF Recover
    <3>3. UNCHANGED <<written, cut, told, watcher, flush, live, due, downs>>
      BY <1>5 DEF Recover
    <3> QED
      BY <3>2, <3>3 DEF FeedInv, TypeOK
  <2>2. Written' /\ DueIsRead'
    BY <1>5 DEF Recover, NoRecord, FeedInv, TypeOK, Written, FlushesOrdered, DueIsRead
  <2>3. OffsetsCovered'
    BY <1>5 DEF Recover, NoRecord, FeedInv, TypeOK, Written, OffsetsCovered, Covered, FlushesOrdered
  <2>4. FlushesOrdered'
    BY <1>5 DEF Recover, NoRecord, FeedInv, TypeOK, Written, OffsetsCovered, Covered, FlushesOrdered
  <2> QED
    BY <2>1, <2>2, <2>3, <2>4 DEF FeedInv
<1> QED
  BY <1>1, <1>2, <1>3, <1>4, <1>5

-----------------------------------------------------------------------------
(* Results.                                                                *)

\* Every step keeps the invariant.
LEMMA NextFeed == FeedInv /\ [Next]_vars => FeedInv'
<1>1. FeedInv /\ UNCHANGED vars => FeedInv'
  BY DEF vars, FeedInv, TypeOK, Written, OffsetsCovered, Covered, FlushesOrdered, DueIsRead, Size
<1>2. FeedInv /\ Next => FeedInv'
  BY WorkerFeed, FlushFeed, TurnFeed, EndFeed, GatewayFeed DEF Next, WatcherStep
<1> QED
  BY <1>1, <1>2

\* The invariant above holds of every reachable state.
THEOREM FeedInvariant == Spec => []FeedInv
  BY InitFeed, NextFeed, PTL DEF Spec

\* Offsets, flushes and the record have their types: no offset is behind the
\* lines that exist.
THEOREM FeedTypes == Spec => []TypeOK
<1>1. FeedInv => TypeOK
  BY DEF FeedInv
<1> QED
  BY <1>1, FeedInvariant, PTL

\* However many lines a worker writes and however often the gateway goes down,
\* a flush of src/watchers/manager.ts skips no line that was not told.
THEOREM OffsetsAreTold == Spec => []OffsetsTold
<1>1. FeedInv => OffsetsTold
  BY DEF FeedInv, OffsetsCovered, Covered, OffsetsTold
<1> QED
  BY <1>1, FeedInvariant, PTL

\* The lines of a run reach the chat for the first time in the order of the
\* file, whichever of the three flushes sends them.
THEOREM FirstInOrder == Spec => ToldInOrder
<1> DEFINE InOrder == \A l \in told' \ told : cut + 1 .. l - 1 \subseteq told
<1>1. FeedInv /\ [Next]_vars => [InOrder]_vars
  <2> SUFFICES ASSUME FeedInv, Next, NEW l \in told' \ told
               PROVE  cut + 1 .. l - 1 \subseteq told
    OBVIOUS
  <2>1. CASE \E f \in Flushers : Send(f)
    <3>1. PICK f \in Flushers : Send(f)
      BY <2>1
    <3>2. l = flush[f].next /\ flush[f].busy
      BY <3>1 DEF Send
    <3>3. \A k \in cut + 1 .. flush[f].next - 1 : k \in told
      BY <3>1, <3>2 DEF FeedInv, FlushesOrdered
    <3> QED
      BY <3>2, <3>3
  <2>2. CASE ~\E f \in Flushers : Send(f)
    <3>1. told' = told
      BY <2>2
      DEF Next, WatcherStep, Write, Report, WorkerEnds, Queue, Start, Spawn, Watch, EventFlush,
          EventFlushed, WatchFlush, WatchFlushed, LastFlush, LastFlushed, Leave, Requeue, GiveUp,
          Finalize, FinalizeAdopted, FinalizeAgain, Complete, Stop, ProcessExit, Crash, Down,
          Adopt, Recover
    <3> QED
      BY <3>1
  <2> QED
    BY <2>1, <2>2
<1> QED
  BY <1>1, FeedInvariant, PTL DEF Spec, ToldInOrder

\* The message of the completion comes after every line that the worker wrote
\* before it reported, however often the run changed hands.
THEOREM CompletionIsLast == Spec => CompletionLast
<1> DEFINE Late == watcher.pc = "pending" /\ watcher'.pc = "idle" /\ gateway' = "up"
                       => cut + 1 .. due \subseteq told
<1>1. FeedInv /\ [Next]_vars => [Late]_vars
  <2> SUFFICES ASSUME FeedInv, Next, watcher.pc = "pending", watcher'.pc = "idle", gateway' = "up"
               PROVE  cut + 1 .. due \subseteq told
    OBVIOUS
  <2>1. flush["main"].next > flush["main"].last
    <3>1. ~Down
      BY DEF Down
    <3>2. watcher' # watcher
      OBVIOUS
    <3> QED
      BY <3>1, <3>2
      DEF Next, WatcherStep, Write, Report, WorkerEnds, Queue, Start, Spawn, Watch, Send,
          EventFlush, EventFlushed, WatchFlush, WatchFlushed, Flushed, FlushesOrdered, FeedInv,
          LastFlush, LastFlushed, Leave, Requeue, GiveUp, Finalize, FinalizeAdopted,
          FinalizeAgain, Complete, Stop, ProcessExit, Crash, Adopt, Recover
  <2>2. flush["main"].busy /\ "main" \in Flushers
    BY DEF FeedInv, FlushesOrdered, Flushers
  <2>3. /\ flush["main"].last + 1 = flush["main"].next
        /\ \A l \in cut + 1 .. flush["main"].next - 1 : l \in told
    BY <2>1, <2>2 DEF FeedInv, FlushesOrdered, TypeOK, Flushes, Offsets
  <2>4. due <= flush["main"].last
    BY DEF FeedInv, DueIsRead
  <2> QED
    BY <2>2, <2>3, <2>4 DEF FeedInv, TypeOK, Flushes, Offsets
<1> QED
  BY <1>1, FeedInvariant, PTL DEF Spec, CompletionLast
=============================================================================
