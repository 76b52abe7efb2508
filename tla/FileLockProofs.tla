--------------------------- MODULE FileLockProofs ---------------------------
(* What holds of the lock file for any number of processes, callers,       *)
(* retries and faults.                                                     *)
EXTENDS FileLock, TLAPS

\* Steps of a call whose turn on the chain of promises has come.
Served == Pcs \ {"idle", "queued"}

\* Two calls of one process are ordered by the chain: one waits for the other.
Ordered ==
    \A c, d \in Callers :
        /\ Home[c] = Home[d] /\ c # d
        /\ pc[c] # "idle" /\ pc[d] # "idle"
        => c \in ahead[d] \/ d \in ahead[c]

\* A call whose turn has come waits for nobody.
ServedWaitsForNone == \A c \in Callers : pc[c] \in Served => ahead[c] = {}

\* Unless a lock was removed under its holder, the file is the holder's.
HolderOwnsFile == ~robbed => \A c \in Callers : pc[c] \in InHand => Mine(c)

LockInv ==
    /\ TypeOK
    /\ Ordered
    /\ ServedWaitsForNone
    /\ HolderOwnsFile

-----------------------------------------------------------------------------
(* Consequences of the invariant.                                          *)

\* The calls of one process are served one after the other.
LEMMA OneServed ==
  ASSUME LockInv, NEW c \in Callers, NEW d \in Callers, Home[c] = Home[d],
         pc[c] \in Served, pc[d] \in Served
  PROVE  c = d
  BY DEF LockInv, Ordered, ServedWaitsForNone, Served

\* While no lock was robbed, at most one call has the file in hand.
LEMMA OneInHand ==
  ASSUME LockInv, ~robbed, NEW c \in Callers, NEW d \in Callers,
         pc[c] \in InHand, pc[d] \in InHand
  PROVE  c = d
  BY DEF LockInv, HolderOwnsFile, Mine

-----------------------------------------------------------------------------
(* The invariant is inductive.                                             *)

\* The empty file is told apart from every lock file.
LEMMA NoFileLemma == NoFile \notin Files
  BY DEF NoFile, Files

\* A file that is created, or whose token is written, is its creator's.
LEMMA FileLemma ==
  ASSUME NEW c \in Callers, NEW w \in BOOLEAN,
         file' = [by |-> c, written |-> w, stale |-> FALSE]
  PROVE  file' \in Files /\ Mine(c)'
  <1>1. file' \in Files
    BY DEF Files
  <1>2. file'.by = c
    OBVIOUS
  <1> QED
    BY <1>1, <1>2, NoFileLemma DEF Mine, Exists

\* The invariant holds at first.
LEMMA LockInit == Init => LockInv
  <1> SUFFICES ASSUME Init PROVE LockInv
    OBVIOUS
  <1>1. pc \in [Callers -> Pcs] /\ ahead \in [Callers -> SUBSET Callers]
    BY DEF Init, Pcs
  <1>2. attempt \in [Callers -> 0..Retries] /\ faults \in 0..MaxFaults
    BY FaultsAssumption, RetriesAssumption DEF Init
  <1>3. TypeOK
    BY <1>1, <1>2 DEF Init, TypeOK
  <1>4. Ordered /\ ServedWaitsForNone /\ HolderOwnsFile
    BY DEF Init, Ordered, ServedWaitsForNone, HolderOwnsFile, InHand
  <1> QED
    BY <1>3, <1>4 DEF LockInv

\* A call that is over leaves the chain as it found it.
LEMMA LeavesInv ==
  ASSUME LockInv, NEW c \in Callers, Leaves(c), file' = file, robbed' = robbed,
         faults' \in 0..MaxFaults
  PROVE  LockInv'
  <1>1. TypeOK'
    BY RetriesAssumption DEF LockInv, TypeOK, Leaves, Resolved, Goes, Pcs
  <1>2. Ordered'
    BY DEF LockInv, TypeOK, Ordered, Leaves, Resolved, Goes
  <1>3. ServedWaitsForNone'
    BY DEF LockInv, TypeOK, ServedWaitsForNone, Served, Leaves, Resolved, Goes
  <1>4. HolderOwnsFile'
    BY DEF LockInv, TypeOK, HolderOwnsFile, Leaves, Goes, InHand, Mine, Exists
  <1> QED
    BY <1>1, <1>2, <1>3, <1>4 DEF LockInv

\* A call that goes on to a step without the file, when its turn has come.
LEMMA GoesInv ==
  ASSUME LockInv, NEW c \in Callers, NEW to \in Served,
         pc[c] \in Served \/ (pc[c] = "queued" /\ ahead[c] = {}),
         Goes(c, to), to \in InHand => pc[c] \in InHand,
         UNCHANGED <<ahead, file, robbed, faults>>,
         attempt' \in [Callers -> 0..Retries]
  PROVE  LockInv'
  <1>1. TypeOK'
    BY DEF LockInv, TypeOK, Goes, Served
  <1>2. Ordered'
    BY DEF LockInv, TypeOK, Ordered, Goes, Served
  <1>3. ServedWaitsForNone'
    BY DEF LockInv, TypeOK, ServedWaitsForNone, Served, Goes
  <1>4. HolderOwnsFile'
    BY DEF LockInv, TypeOK, HolderOwnsFile, Goes, Mine, Exists
  <1> QED
    BY <1>1, <1>2, <1>3, <1>4 DEF LockInv

\* Trying again and giving up.
LEMMA TriesAgainInv ==
  ASSUME LockInv, NEW c \in Callers, TriesAgain(c), pc[c] \in {"check", "stat"},
         UNCHANGED <<file, faults, robbed>>
  PROVE  LockInv'
  <1>1. CASE GivesUp(c) /\ Leaves(c)
    BY <1>1, LeavesInv DEF LockInv, TypeOK
  <1>2. CASE ~GivesUp(c) /\ Goes(c, "open") /\ attempt' = [attempt EXCEPT ![c] = @ + 1]
             /\ UNCHANGED ahead
    <2>1. attempt' \in [Callers -> 0..Retries]
      BY <1>2, RetriesAssumption DEF LockInv, TypeOK, GivesUp
    <2> QED
      BY <1>2, <2>1, GoesInv DEF Served, Pcs, InHand
  <1> QED
    BY <1>1, <1>2 DEF TriesAgain

\* Every step keeps the invariant.
LEMMA LockStep == LockInv /\ [Next]_vars => LockInv'
  <1> SUFFICES ASSUME LockInv, [Next]_vars PROVE LockInv'
    OBVIOUS
  <1>1. ASSUME NEW c \in Callers, Enter(c) PROVE LockInv'
    <2>1. TypeOK'
      BY <1>1 DEF Enter, LockInv, TypeOK, Goes, Pcs, Before
    <2>2. Ordered'
      BY <1>1 DEF Enter, LockInv, TypeOK, Ordered, Goes, Before
    <2>3. ServedWaitsForNone'
      BY <1>1 DEF Enter, LockInv, TypeOK, ServedWaitsForNone, Served, Goes
    <2>4. HolderOwnsFile'
      BY <1>1 DEF Enter, LockInv, TypeOK, HolderOwnsFile, Goes, InHand, Mine, Exists
    <2> QED
      BY <2>1, <2>2, <2>3, <2>4 DEF LockInv
  <1>2. ASSUME NEW c \in Callers, Proceed(c) PROVE LockInv'
    BY <1>2, GoesInv DEF Proceed, NobodyAhead, Served, Pcs, InHand, LockInv, TypeOK
  <1>3. ASSUME NEW c \in Callers, Open(c) PROVE LockInv'
    <2>1. CASE ~Exists
      <3>1. file' \in Files /\ Mine(c)'
        BY <1>3, <2>1, FileLemma DEF Open, CanCreate
      <3>2. TypeOK'
        BY <1>3, <2>1, <3>1 DEF Open, CanCreate, LockInv, TypeOK, Goes, Pcs, InHand
      <3>3. Ordered'
        BY <1>3, <2>1 DEF Open, CanCreate, LockInv, TypeOK, Ordered, Goes
      <3>4. ServedWaitsForNone'
        BY <1>3, <2>1 DEF Open, CanCreate, LockInv, TypeOK, ServedWaitsForNone, Served, Pcs, Goes
      <3>5. HolderOwnsFile'
        BY <1>3, <2>1, <3>1 DEF Open, CanCreate, LockInv, TypeOK, HolderOwnsFile, Goes, Mine
      <3> QED
        BY <3>2, <3>3, <3>4, <3>5 DEF LockInv
    <2>2. CASE Exists
      BY <1>3, <2>2, GoesInv DEF Open, CanCreate, Served, Pcs, InHand, LockInv, TypeOK
    <2> QED
      BY <2>1, <2>2
  <1>4. ASSUME NEW c \in Callers, Write(c) PROVE LockInv'
    <2>1. Mine(c) => file' \in Files /\ Mine(c)'
      BY <1>4, FileLemma DEF Write
    <2>2. TypeOK'
      BY <1>4, <2>1 DEF Write, LockInv, TypeOK, Goes, Pcs, InHand
    <2>3. Ordered'
      BY <1>4 DEF Write, LockInv, TypeOK, Ordered, Goes
    <2>4. ServedWaitsForNone'
      BY <1>4 DEF Write, LockInv, TypeOK, ServedWaitsForNone, Served, Pcs, InHand, Goes
    <2>5. \A d \in Callers : Mine(d) => Mine(d)'
      BY <1>4, <2>1 DEF Write, Mine, Exists
    <2>6. HolderOwnsFile'
      BY <1>4, <2>5 DEF Write, LockInv, TypeOK, HolderOwnsFile, Goes, InHand
    <2> QED
      BY <2>2, <2>3, <2>4, <2>6 DEF LockInv
  <1>5. ASSUME NEW c \in Callers, Check(c) PROVE LockInv'
    <2>1. CASE TriesAgain(c)
      BY <1>5, <2>1, TriesAgainInv DEF Check
    <2>2. CASE Goes(c, "stat") /\ UNCHANGED <<ahead, attempt>>
      BY <1>5, <2>2, GoesInv DEF Check, Served, Pcs, InHand, LockInv, TypeOK
    <2>3. CASE Goes(c, "break") /\ UNCHANGED <<ahead, attempt>>
      BY <1>5, <2>3, GoesInv DEF Check, Served, Pcs, InHand, LockInv, TypeOK
    <2> QED
      BY <1>5, <2>1, <2>2, <2>3 DEF Check
  <1>6. ASSUME NEW c \in Callers, Stat(c) PROVE LockInv'
    <2>1. CASE TriesAgain(c)
      BY <1>6, <2>1, TriesAgainInv DEF Stat
    <2>2. CASE Goes(c, "break") /\ UNCHANGED <<ahead, attempt>>
      BY <1>6, <2>2, GoesInv DEF Stat, Served, Pcs, InHand, LockInv, TypeOK
    <2> QED
      BY <1>6, <2>1, <2>2 DEF Stat
  <1>7. ASSUME NEW c \in Callers, Break(c) PROVE LockInv'
    <2>1. TypeOK'
      BY <1>7 DEF Break, Removes, LockInv, TypeOK, Goes, Pcs
    <2>2. Ordered'
      BY <1>7 DEF Break, LockInv, TypeOK, Ordered, Goes
    <2>3. ServedWaitsForNone'
      BY <1>7 DEF Break, LockInv, TypeOK, ServedWaitsForNone, Served, Pcs, Goes
    <2>4. HolderOwnsFile'
      BY <1>7 DEF Break, Removes, LockInv, TypeOK, HolderOwnsFile, Goes, InHand, Mine
    <2> QED
      BY <2>1, <2>2, <2>3, <2>4 DEF LockInv
  <1>8. ASSUME NEW c \in Callers, Done(c) PROVE LockInv'
    BY <1>8, GoesInv DEF Done, Served, Pcs, InHand, LockInv, TypeOK
  <1>9. ASSUME NEW c \in Callers, ReadToken(c) PROVE LockInv'
    <2>1. CASE Leaves(c)
      BY <1>9, <2>1, LeavesInv DEF ReadToken, LockInv, TypeOK
    <2>2. CASE Goes(c, "unlink") /\ UNCHANGED <<ahead, attempt>>
      BY <1>9, <2>2, GoesInv DEF ReadToken, Served, Pcs, InHand, LockInv, TypeOK
    <2> QED
      BY <1>9, <2>1, <2>2 DEF ReadToken
  <1>10. ASSUME NEW c \in Callers, Unlink(c) PROVE LockInv'
    <2>1. TypeOK'
      BY <1>10, RetriesAssumption DEF Unlink, Removes, Leaves, Resolved, LockInv, TypeOK, Goes, Pcs
    <2>2. Ordered'
      BY <1>10 DEF Unlink, Leaves, Resolved, LockInv, TypeOK, Ordered, Goes
    <2>3. ServedWaitsForNone'
      BY <1>10 DEF Unlink, Leaves, Resolved, LockInv, TypeOK, ServedWaitsForNone, Served, Goes
    <2>4. HolderOwnsFile'
      BY <1>10 DEF Unlink, Removes, Leaves, LockInv, TypeOK, HolderOwnsFile, Goes, InHand, Mine
    <2> QED
      BY <2>1, <2>2, <2>3, <2>4 DEF LockInv
  <1>11. ASSUME NEW c \in Callers, WriteFails(c) PROVE LockInv'
    <2>1. faults' \in 0..MaxFaults
      BY <1>11, FaultsAssumption DEF WriteFails, Fault, LockInv, TypeOK
    <2> QED
      BY <1>11, <2>1, LeavesInv DEF WriteFails
  <1>12. ASSUME NEW p \in Processes, Crash(p) PROVE LockInv'
    <2>1. TypeOK'
      BY <1>12, RetriesAssumption, FaultsAssumption DEF Crash, Fault, LockInv, TypeOK, Pcs
    <2>2. Ordered'
      BY <1>12 DEF Crash, LockInv, TypeOK, Ordered
    <2>3. ServedWaitsForNone'
      BY <1>12 DEF Crash, LockInv, TypeOK, ServedWaitsForNone, Served
    <2>4. HolderOwnsFile'
      BY <1>12 DEF Crash, LockInv, TypeOK, HolderOwnsFile, InHand, Mine, Exists
    <2> QED
      BY <2>1, <2>2, <2>3, <2>4 DEF LockInv
  <1>13. CASE Ages
    <2>1. file \in Files /\ file' \in Files /\ file'.by = file.by
      BY <1>13 DEF Ages, Exists, LockInv, TypeOK, Files
    <2>2. TypeOK'
      BY <1>13, <2>1, FaultsAssumption DEF Ages, Fault, LockInv, TypeOK
    <2>3. HolderOwnsFile'
      BY <1>13, <2>1, NoFileLemma DEF Ages, LockInv, HolderOwnsFile, Mine, Exists
    <2> QED
      BY <1>13, <2>2, <2>3 DEF Ages, LockInv, Ordered, ServedWaitsForNone
  <1>14. CASE UNCHANGED vars
    BY <1>14 DEF vars, LockInv, TypeOK, Ordered, ServedWaitsForNone, HolderOwnsFile, Mine, Exists
  <1> QED
    BY <1>1, <1>2, <1>3, <1>4, <1>5, <1>6, <1>7, <1>8, <1>9, <1>10, <1>11, <1>12, <1>13, <1>14
       DEF Next, Step

\* The invariant holds of every behaviour.
LEMMA LockInvariant == Spec => []LockInv
  BY LockInit, LockStep, PTL DEF Spec

-----------------------------------------------------------------------------
(* Results.                                                                *)

\* Two actions of withFileLock overlap, in whatever processes, only after a
\* lock file was removed under the caller that held it.
THEOREM ExclusionUnlessRobbed == Spec => []ExclusiveUnlessRobbed
  <1>1. LockInv => ExclusiveUnlessRobbed
    BY OneInHand DEF ExclusiveUnlessRobbed, Holders, InHand
  <1> QED
    BY <1>1, LockInvariant, PTL

\* The chains, attempts and the lock file have their types: no call makes more
\* attempts than it has.
THEOREM LockTypes == Spec => []TypeOK
  <1>1. LockInv => TypeOK
    BY DEF LockInv
  <1> QED
    BY <1>1, LockInvariant, PTL

\* For the callers of one process withFileLock implements a lock, whatever
\* crashes, failing writes, slow holders and other processes do to the file.
THEOREM FileLockIsProcessLock == Spec => ImplementsProcessLock
  <1> DEFINE held(p) == {c \in Holders : Home[c] = p}
             holders == [p \in Processes |-> held(p)]
  <1>1. Init => PL!Init
    BY DEF Init, PL!Init, Holders
  <1>2. LockInv /\ LockInv' /\ [Next]_vars => [PL!Next]_holders
    <2> SUFFICES ASSUME LockInv, LockInv', [Next]_vars PROVE [PL!Next]_holders
      OBVIOUS
    <2>1. \A c \in Holders : pc[c] \in Served /\ c \in Callers
      BY DEF Holders, Served, Pcs, InHand
    <2>2. \A c \in Holders : held(Home[c]) = {c}
      BY <2>1, OneServed DEF Holders
    <2>3. ASSUME Holders' = Holders PROVE UNCHANGED holders
      BY <2>3
    <2>4. ASSUME NEW c \in Callers, Write(c) PROVE PL!Acquire(c)
      <3>1. pc[c] \in Served /\ pc[c] \notin {"hold"}
        BY <2>4 DEF Write, Served, Pcs, InHand
      <3>2. held(Home[c]) = {}
        BY <2>1, <3>1, OneServed DEF Holders
      <3>3. Holders' = Holders \cup {c}
        BY <2>4 DEF Write, Goes, Holders, LockInv, TypeOK
      <3>4. \A p \in Processes : held(p)' = IF p = Home[c] THEN {c} ELSE held(p)
        BY <3>2, <3>3
      <3>5. holders' = [holders EXCEPT ![Home[c]] = {c}]
        BY <3>4, HomeAssumption
      <3> QED
        BY <3>2, <3>5, HomeAssumption DEF PL!Acquire
    <2>5. ASSUME NEW c \in Callers, Done(c) PROVE PL!Release(c)
      <3>1. c \in Holders
        BY <2>5 DEF Done, Holders
      <3>2. Holders' = Holders \ {c}
        BY <2>5 DEF Done, Goes, Holders, LockInv, TypeOK
      <3>3. held(Home[c]) = {c}
        BY <2>2, <3>1
      <3>4. holders' = [holders EXCEPT ![Home[c]] = {}]
        BY <3>2, <3>3, HomeAssumption
      <3> QED
        BY <3>3, <3>4, HomeAssumption DEF PL!Release
    <2>6. ASSUME NEW p \in Processes, Crash(p) PROVE [PL!Next]_holders
      <3>1. Holders' = {c \in Holders : Home[c] # p}
        BY <2>6 DEF Crash, Holders
      <3>2. CASE held(p) = {}
        BY <3>1, <3>2, <2>3
      <3>3. CASE held(p) # {}
        <4>1. PICK c \in Holders : Home[c] = p
          BY <3>3
        <4>2. held(p) = {c}
          BY <2>2, <4>1
        <4>3. holders' = [holders EXCEPT ![Home[c]] = {}]
          BY <3>1, <4>1, HomeAssumption
        <4>4. PL!Release(c)
          BY <4>1, <4>2, <4>3, HomeAssumption DEF PL!Release
        <4> QED
          BY <4>1, <4>4 DEF PL!Next, Holders
      <3> QED
        BY <3>2, <3>3
    <2>7. ASSUME NEW c \in Callers,
                 \/ Enter(c) \/ Proceed(c) \/ Open(c) \/ Check(c) \/ Stat(c) \/ Break(c)
                 \/ ReadToken(c) \/ Unlink(c) \/ WriteFails(c)
          PROVE  Holders' = Holders
      <3>1. pc[c] # "hold"
        BY <2>7 DEF Enter, Proceed, Open, Check, Stat, Break, ReadToken, Unlink, WriteFails
      <3>2. \E to \in Pcs \ {"hold"} : Goes(c, to)
        BY <2>7 DEF Enter, Proceed, Open, Check, Stat, Break, ReadToken, Unlink, WriteFails,
           TriesAgain, Leaves, Pcs, InHand
      <3> QED
        BY <3>1, <3>2 DEF Goes, Holders, LockInv, TypeOK
    <2>8. Ages \/ UNCHANGED vars => Holders' = Holders
      BY DEF Ages, vars, Holders
    <2> HIDE DEF holders
    <2> QED
      BY <2>3, <2>4, <2>5, <2>6, <2>7, <2>8 DEF Next, Step, PL!Next
  <1> QED
    BY <1>1, <1>2, LockInvariant, PTL DEF Spec, ImplementsProcessLock, PL!Spec
=============================================================================
