-------------------------- MODULE StateStoreProofs --------------------------
(* What holds of the project records and of the map of active projects for *)
(* any number of requests, channels, repositories and crashes.             *)
EXTENDS StateStore, TLAPS

\* Where a call holds the lock of its channel, and where it stores a record.
Storing == {"write", "remove", "map"}
Locked == {"record", "file", "drop"} \cup Storing

\* A call that changes records.
Updates(c) == InFlight(c) /\ Kind(c) \notin Reads

-----------------------------------------------------------------------------
(* The invariant of the types.                                             *)

Others == [id : Ids, status : {"idle", "open", "done", "archived"}]
CallRecords ==
    [pc : Pcs, req : AnyRequest \cup {None}, at : 1..5, path : Paths \cup {None},
     project : Projects \cup {None}, seen : Projects \cup {None}, id : Ids \cup {None},
     left : SUBSET Channels, gone : SUBSET Channels, others : SUBSET Others]

StoreTypes ==
    /\ files \in [Paths -> Projects \cup {None}]
    /\ map \in [Channels -> Paths \cup {None}]
    /\ locks \in [Locks -> Calls \cup {None}]
    /\ closed \subseteq Changes \cup {None}
    /\ crashes \in 0..MaxCrashes
    /\ call \in [Calls -> CallRecords]

\* A call that was made is at an operation of its script, and what the operation
\* has read by now is there.
CallOK(c) ==
    /\ call[c].pc = "new" => call[c] = NewCall
    /\ call[c].pc # "new" =>
        /\ call[c].req # None
        /\ Kind(c) = "use" => Repo(c) \in Repos
        /\ call[c].at \in 1..Len(Script(Kind(c)))
        /\ call[c].pc \in Locked => Op(c) \in {"get", "create", "settle", "update"}
        /\ call[c].pc = "look" => Op(c) = "list" /\ \A ch \in call[c].left : map[ch] # None
        /\ call[c].pc \in Storing => Op(c) # "get" /\ call[c].project # None
        /\ call[c].pc \in {"file", "drop", "remove"} => call[c].path # None
        /\ call[c].pc = "start" => call[c].path = None /\ call[c].gone = {}

\* The locks, and who holds them.
LocksHeld ==
    /\ \A c \in Calls : /\ call[c].pc \in Locked => locks[Chan(c)] = c
                        /\ call[c].pc = "look" => locks["map"] = c
    /\ \A l \in Locks : locks[l] # None =>
          \/ call[locks[l]].pc \in Locked /\ Chan(locks[l]) = l
          \/ call[locks[l]].pc = "look" /\ l = "map"

\* A state file is in the repository of its record, or in the plugin's directory.
FilesPlaced ==
    /\ \A q \in Paths : files[q] # None => files[q].repo = IF q \in Repos THEN q ELSE None
    /\ \A c \in Calls : call[c].pc = "write" /\ call[c].project.repo = None => call[c].path \notin Repos

StoreInv ==
    /\ StoreTypes
    /\ \A c \in Calls : CallOK(c)
    /\ LocksHeld
    /\ FilesPlaced

-----------------------------------------------------------------------------
(* The invariant of the open changes.                                      *)

\* Requests that update are served one at a time, but for the touches of a channel.
OneAtATime ==
    \A c, d \in Calls : c # d /\ Updates(c) /\ Updates(d) =>
        Chan(c) = Chan(d) /\ "touch" \in {Kind(c), Kind(d)}

NotOpen(q) == files[q] # None => ~HasOpenChange(files[q])

\* While an update is under way its channel leads to the file that it found, and
\* no list takes that file for gone.
EntryStays(c) ==
    Updates(c) /\ call[c].pc \in {"file"} \cup Storing /\ call[c].path # None =>
        /\ call[c].pc = "write" => files[call[c].path] # None
        /\ files[call[c].path] # None =>
              /\ map[Chan(c)] = call[c].path
              /\ \A d \in Calls : call[d].pc = "look" => Chan(c) \notin call[d].gone

\* Only a selection moves a record; what a move leaves behind is not open.
Moves(c) == Kind(c) = "use" /\ call[c].at = 5
Stored(c) ==
    /\ call[c].pc \in Storing /\ Op(c) # "create" /\ ~Moves(c) =>
          call[c].path # None /\ Target(call[c].project, call[c].path) = call[c].path
    /\ call[c].pc \in Storing /\ Op(c) = "update" /\ Kind(c) = "propose" =>
          call[c].project.change = c /\ HasOpenChange(call[c].project)
    /\ call[c].pc \in {"remove", "map"} =>
          files[Target(call[c].project, call[c].path)] = call[c].project
    /\ call[c].pc = "remove" =>
          call[c].path # Target(call[c].project, call[c].path) /\ NotOpen(call[c].path)

\* The new project of a request: its file, its channel, its entry.
Creates(c) ==
    Kind(c) \in {"use", "propose"} =>
        /\ InFlight(c) /\ call[c].at = 2 /\ call[c].pc \in Storing =>
              /\ call[c].path = None
              /\ call[c].project.id = c /\ call[c].project.chan = Chan(c)
              /\ call[c].project.repo = None
        /\ InFlight(c) /\ call[c].at = 3 =>
              /\ call[c].path \in {None, c} /\ map[Chan(c)] \in {None, c}
              /\ files[c] # None => files[c].chan = Chan(c)

\* Only the last record of a request may name another channel than its own.
NamesOwn(c) ==
    call[c].project # None /\ call[c].project.chan # Chan(c) =>
        call[c].pc \in Ended \/ (call[c].pc \in Storing /\ Op(c) = "update")

\* A request that was let through to its update found no open change.
FindsNone(c) ==
    /\ Kind(c) \in {"use", "propose"} /\ call[c].at \in {4, 5}
    /\ InFlight(c) /\ call[c].pc \notin {"remove", "map"}
    => /\ map[Chan(c)] # None => NotOpen(map[Chan(c)])
       /\ call[c].path # None => NotOpen(call[c].path)

\* An open change in the repository of a selection is the one it has seen.
HasSeen(c) ==
    /\ Kind(c) = "use" /\ call[c].at = 5 /\ InFlight(c) /\ call[c].pc \notin Storing
    /\ files[Repo(c)] # None /\ HasOpenChange(files[Repo(c)])
    => /\ Resumes(c)
       /\ call[c].seen.change = files[Repo(c)].change

\* What an update makes of an open change.
Overwrites(c) ==
    call[c].pc = "write" =>
        /\ LET p == call[c].project
               o == files[Target(p, call[c].path)]
           IN  Target(p, call[c].path) \in Repos /\ o # None /\ HasOpenChange(o) =>
                   \/ p.status \in {"done", "archived"}
                   \/ p.change = o.change /\ HasOpenChange(p)
        /\ Kind(c) = "touch" => LET o == files[call[c].path] IN
              /\ call[c].project.status = o.status /\ call[c].project.change = o.change
              /\ call[c].project.chan = o.chan

UpdateOK(c) ==
    /\ EntryStays(c) /\ Stored(c) /\ Creates(c) /\ NamesOwn(c)
    /\ FindsNone(c) /\ HasSeen(c) /\ Overwrites(c)

\* The record of an open change.
RecordKept ==
    \A repo \in Repos : \A c \in OpenChanges(repo) :
        files[repo] # None /\ files[repo].change = c /\ HasOpenChange(files[repo])

\* A call that does not touch the entry of its channel, which leads to the
\* repository: it does not drop it, and has selected and proposed nothing yet.
Undisturbed(d, repo) ==
    /\ call[d].pc # "drop"
    /\ call[d].pc = "file" => call[d].path = repo
    /\ Kind(d) \in {"use", "propose"} => call[d].at = 1

\* Its entry in the map, and the calls of its channel.
EntryKept ==
    \A repo \in Repos : \A c \in OpenChanges(repo) : ~EnteredByOther(Chan(c)) =>
        /\ map[Chan(c)] = repo
        /\ \A d \in Calls :
              /\ call[d].pc = "look" => Chan(c) \notin call[d].gone
              /\ InFlight(d) /\ Chan(d) = Chan(c) => Undisturbed(d, repo)

OpenInv ==
    /\ OneAtATime
    /\ \A c \in Calls : call[c].pc # "new" => UpdateOK(c)
    /\ RecordKept
    /\ EntryKept

-----------------------------------------------------------------------------
(* The scripts, and the records of calls.                                  *)

KindNames == {"get", "list", "touch", "use", "propose", "finish", "archive"}

\* The operations of each kind of request.
LEMMA ScriptLemma ==
  ASSUME NEW k \in KindNames
  PROVE  /\ k = "get" => Len(Script(k)) = 1 /\ Script(k)[1] = "get"
         /\ k = "list" => Len(Script(k)) = 1 /\ Script(k)[1] = "list"
         /\ k = "touch" => Len(Script(k)) = 1 /\ Script(k)[1] = "update"
         /\ k \in {"finish", "archive"} =>
               Len(Script(k)) = 2 /\ Script(k)[1] = "get" /\ Script(k)[2] = "update"
         /\ k \in {"use", "propose"} =>
               /\ Len(Script(k)) = 5
               /\ Script(k)[1] = "get" /\ Script(k)[2] = "create" /\ Script(k)[3] = "settle"
               /\ Script(k)[5] = "update"
               /\ Script(k)[4] = IF k = "use" THEN "peek" ELSE "list"
  <1>1. CASE k = "get"
    BY <1>1 DEF Script
  <1>2. CASE k = "list"
    BY <1>2 DEF Script
  <1>3. CASE k = "touch"
    BY <1>3 DEF Script
  <1>4. CASE k = "use"
    BY <1>4 DEF Script
  <1>5. CASE k = "propose"
    BY <1>5 DEF Script
  <1>6. CASE k \in {"finish", "archive"}
    BY <1>6 DEF Script
  <1> QED
    BY <1>1, <1>2, <1>3, <1>4, <1>5, <1>6 DEF KindNames

\* The fields of a call.
LEMMA CallFields ==
  ASSUME NEW f \in CallRecords
  PROVE  /\ f.pc \in Pcs /\ f.at \in 1..5 /\ f.path \in Paths \cup {None}
         /\ f.project \in Projects \cup {None} /\ f.seen \in Projects \cup {None}
         /\ f.id \in Ids \cup {None} /\ f.left \subseteq Channels /\ f.gone \subseteq Channels
         /\ f.others \subseteq Others
         /\ f.req # None =>
               /\ f.req.kind \in Kinds /\ f.req.kind \in KindNames /\ f.req.chan \in Channels
               /\ f.req.repo \in Repos \cup {None}
  BY StoreAssumption DEF CallRecords, AnyRequest, KindNames

\* The fields of a project.
LEMMA ProjectFields ==
  ASSUME NEW p \in Projects
  PROVE  /\ p # None /\ p.id \in Ids /\ p.chan \in Channels /\ p.repo \in Repos \cup {None}
         /\ p.change \in Changes \cup {None}
         /\ p.status \in {"idle", "open", "done", "archived"} /\ p.log \subseteq Calls
  BY NamesAssumption DEF Projects

\* What each operation tells of its script.
LEMMA ScriptAt ==
  ASSUME NEW k \in KindNames, NEW i \in 1..Len(Script(k))
  PROVE  /\ Script(k)[i] = "get" <=> i = 1 /\ k \notin {"list", "touch"}
         /\ Script(k)[i] = "create" <=> i = 2 /\ k \in {"use", "propose"}
         /\ Script(k)[i] = "settle" <=> i = 3 /\ k \in {"use", "propose"}
         /\ Script(k)[i] = "peek" <=> i = 4 /\ k = "use"
         /\ Script(k)[i] = "list" <=> k = "list" \/ (i = 4 /\ k = "propose")
         /\ Script(k)[i] = "update" <=> i = Len(Script(k)) /\ k \notin Reads
  <1>1. CASE k \in {"get", "list", "touch"}
    <2>1. CASE k = "get"
      <3>1. Len(Script(k)) = 1 /\ Script(k)[1] = "get"
        BY <2>1, ScriptLemma
      <3>2. i = 1
        BY <3>1
      <3> QED
        BY <2>1, <3>1, <3>2 DEF Reads
    <2>2. CASE k = "list"
      <3>1. Len(Script(k)) = 1 /\ Script(k)[1] = "list"
        BY <2>2, ScriptLemma
      <3>2. i = 1
        BY <3>1
      <3> QED
        BY <2>2, <3>1, <3>2 DEF Reads
    <2>3. CASE k = "touch"
      <3>1. Len(Script(k)) = 1 /\ Script(k)[1] = "update"
        BY <2>3, ScriptLemma
      <3>2. i = 1
        BY <3>1
      <3> QED
        BY <2>3, <3>1, <3>2 DEF Reads
    <2> QED
      BY <1>1, <2>1, <2>2, <2>3
  <1>2. CASE k \in {"finish", "archive"}
    <2>1. Len(Script(k)) = 2 /\ Script(k)[1] = "get" /\ Script(k)[2] = "update"
      BY <1>2, ScriptLemma
    <2>2. CASE i = 1
      BY <1>2, <2>1, <2>2 DEF Reads
    <2>3. CASE i = 2
      BY <1>2, <2>1, <2>3 DEF Reads
    <2> QED
      BY <2>1, <2>2, <2>3
  <1>3. CASE k \in {"use", "propose"}
    <2>1. (i = 1 \/ i = 2 \/ i = 3 \/ i = 4 \/ i = 5) /\ Len(Script(k)) = 5
      BY <1>3, ScriptLemma
    <2> QED
      BY <1>3, <2>1, ScriptLemma DEF Reads
  <1> QED
    BY <1>1, <1>2, <1>3 DEF KindNames

\* A call that was made: its request and its operation.
LEMMA MadeCall ==
  ASSUME NEW c \in Calls, call[c] \in CallRecords, CallOK(c), call[c].pc # "new"
  PROVE  /\ call[c].req # None
         /\ Kind(c) \in Kinds /\ Kind(c) \in KindNames /\ Chan(c) \in Channels
         /\ Repo(c) \in Repos \cup {None} /\ (Kind(c) = "use" => Repo(c) \in Repos)
         /\ call[c].at \in 1..Len(Script(Kind(c)))
         /\ Op(c) = "get" <=> call[c].at = 1 /\ Kind(c) \notin {"list", "touch"}
         /\ Op(c) = "create" <=> call[c].at = 2 /\ Kind(c) \in {"use", "propose"}
         /\ Op(c) = "settle" <=> call[c].at = 3 /\ Kind(c) \in {"use", "propose"}
         /\ Op(c) = "peek" <=> call[c].at = 4 /\ Kind(c) = "use"
         /\ Op(c) = "list" <=> Kind(c) = "list" \/ (call[c].at = 4 /\ Kind(c) = "propose")
         /\ Op(c) = "update" <=> call[c].at = Len(Script(Kind(c))) /\ Kind(c) \notin Reads
         /\ Kind(c) \in {"use", "propose"} => Len(Script(Kind(c))) = 5
         /\ Kind(c) \in {"finish", "archive"} => Len(Script(Kind(c))) = 2
         /\ Kind(c) \in {"get", "list", "touch"} => Len(Script(Kind(c))) = 1
  <1>1. /\ call[c].req # None /\ Kind(c) \in Kinds /\ Kind(c) \in KindNames
        /\ Chan(c) \in Channels /\ Repo(c) \in Repos \cup {None}
        /\ (Kind(c) = "use" => Repo(c) \in Repos)
        /\ call[c].at \in 1..Len(Script(Kind(c)))
    BY CallFields DEF CallOK, Kind, Chan, Repo
  <1>2. Op(c) = Script(Kind(c))[call[c].at]
    BY DEF Op
  <1> QED
    BY <1>1, <1>2, ScriptAt, ScriptLemma

\* What a call is after one of its operations: at the next, answered or refused.
Answers(c, f) ==
    /\ f \in CallRecords
    /\ f.pc \in {"start", "ok", "error"}
    /\ f.req # None /\ f.req.kind = Kind(c) /\ f.req.chan = Chan(c)
    /\ Kind(c) = "use" => f.req.repo = Repo(c)
    /\ f.at \in 1..Len(Script(Kind(c))) /\ (f.pc # "start" => f.at = call[c].at)
    /\ f.project = call[c].project /\ f.seen = call[c].seen
    /\ f.path \in {call[c].path, None} /\ (f.pc # "error" => f.path = None /\ f.gone = {})

\* The next operation of the script.
LEMMA AtLemma ==
  ASSUME NEW c \in Calls, call[c] \in CallRecords, CallOK(c), call[c].pc # "new",
         NEW i \in Nat \ {0}
  PROVE  /\ Answers(c, At(c, i)) /\ At(c, i).pc # "error" /\ At(c, i).req = call[c].req
         /\ At(c, i).pc = "start" <=> i <= Len(Script(Kind(c)))
         /\ At(c, i).pc = "start" => At(c, i).at = i
         /\ At(c, i).pc = "ok" => At(c, i).at = call[c].at
  <1>1. Len(Script(Kind(c))) \in 1..5 /\ call[c].at \in 1..Len(Script(Kind(c)))
    BY MadeCall, ScriptLemma DEF KindNames
  <1>2. call[c].req # None
    BY MadeCall
  <1>3. CASE i > Len(Script(Kind(c)))
    <2>1. At(c, i) = [call[c] EXCEPT !.pc = "ok", !.path = None, !.left = {}, !.gone = {}, !.others = {}]
      BY <1>3 DEF At
    <2>2. At(c, i) \in CallRecords
      BY <2>1 DEF CallRecords, Pcs, Ended
    <2> QED
      BY <1>1, <1>2, <1>3, <2>1, <2>2 DEF Answers, CallRecords, Kind, Chan, Repo
  <1>4. CASE ~(i > Len(Script(Kind(c))))
    <2>1. At(c, i) = [call[c] EXCEPT !.pc = "start", !.at = i, !.path = None, !.left = {}, !.gone = {},
                         !.others = {}]
      BY <1>4 DEF At
    <2> DEFINE n == Len(Script(Kind(c)))
    <2>a. i \in 1..5
      <3>1. n \in 1..5 /\ ~(i > n)
        BY <1>1, <1>4
      <3> HIDE DEF n
      <3> QED
        BY <3>1
    <2>2. At(c, i) \in CallRecords
      BY <2>a, <2>1 DEF CallRecords, Pcs, Ended
    <2>3. LET f == At(c, i)
          IN  /\ f.pc = "start" /\ f.at = i /\ f.path = None /\ f.gone = {} /\ f.req = call[c].req
              /\ f.project = call[c].project /\ f.seen = call[c].seen
      BY <2>1 DEF CallRecords
    <2> QED
      <3>1. Answers(c, At(c, i))
        BY <1>1, <1>2, <1>4, <2>2, <2>3 DEF Answers, Kind, Chan, Repo
      <3> QED
        BY <1>1, <1>4, <2>3, <3>1
  <1> QED
    BY <1>3, <1>4

\* A refused request.
LEMMA RefusedLemma ==
  ASSUME NEW c \in Calls, call[c] \in CallRecords, CallOK(c), call[c].pc # "new"
  PROVE  Answers(c, Refused(c)) /\ Refused(c).pc = "error"
  <1>1. Refused(c) = [call[c] EXCEPT !.pc = "error"]
    BY DEF Refused
  <1>2. Refused(c) \in CallRecords
    BY <1>1 DEF CallRecords, Pcs, Ended
  <1>3. LET f == Refused(c)
        IN  /\ f.pc = "error" /\ f.at = call[c].at /\ f.req = call[c].req /\ f.path = call[c].path
            /\ f.project = call[c].project /\ f.seen = call[c].seen
    BY <1>1 DEF CallRecords
  <1> QED
    BY <1>2, <1>3, MadeCall DEF Answers, Kind, Chan, Repo

\* The operation after this one.
LEMMA FollowingLemma ==
  ASSUME NEW c \in Calls, call[c] \in CallRecords, CallOK(c), call[c].pc # "new"
  PROVE  LET f == Following(c)
         IN  /\ Answers(c, f) /\ f.req = call[c].req
             /\ IF call[c].at = Len(Script(Kind(c)))
                THEN f.pc = "ok" /\ f.at = call[c].at
                ELSE f.pc = "start" /\ f.at = call[c].at + 1
  <1>1. call[c].at \in 1..Len(Script(Kind(c))) /\ Len(Script(Kind(c))) \in Nat
    BY MadeCall, ScriptLemma DEF KindNames
  <1>2. call[c].at + 1 \in Nat \ {0}
    BY <1>1
  <1>3. Following(c) = At(c, call[c].at + 1)
    BY DEF Following
  <1> DEFINE n == Len(Script(Kind(c)))
             f == At(c, call[c].at + 1)
  <1>4. /\ Answers(c, f) /\ f.pc # "error" /\ f.req = call[c].req
        /\ f.pc = "start" <=> call[c].at + 1 <= n
        /\ f.pc = "start" => f.at = call[c].at + 1
        /\ f.pc = "ok" => f.at = call[c].at
    BY <1>2, AtLemma
  <1>5. f.pc \in {"start", "ok"}
    BY <1>4 DEF Answers
  <1>6. call[c].at \in 1..n /\ n \in Nat
    BY <1>1
  <1> HIDE DEF n, f
  <1>7. IF call[c].at = n THEN f.pc = "ok" /\ f.at = call[c].at
        ELSE f.pc = "start" /\ f.at = call[c].at + 1
    BY <1>4, <1>5, <1>6
  <1> QED
    BY <1>3, <1>4, <1>7 DEF n, f

\* A request that goes on with a project, or is refused.
LEMMA GoesOnLemma ==
  ASSUME NEW c \in Calls, call[c] \in CallRecords, CallOK(c), call[c].pc # "new",
         NEW p \in Projects, NEW i \in Nat \ {0}, i <= Len(Script(Kind(c)))
  PROVE  LET f == GoesOnWith(c, p, i)
         IN  /\ Answers(c, f)
             /\ IF Serves(c, p) THEN f.pc = "start" /\ f.at = i ELSE f.pc = "error"
  <1> DEFINE to == IF Kind(c) = "use" THEN Repo(c) ELSE p.repo
             g == At(c, i)
             f == GoesOnWith(c, p, i)
  <1>1. CASE Serves(c, p)
    <2>1. Answers(c, g) /\ g.pc = "start" /\ g.at = i /\ g.req = call[c].req
      BY AtLemma
    <2>2. f = [g EXCEPT !.id = p.id, !.req.repo = IF Kind(c) = "use" THEN @ ELSE p.repo]
      BY <1>1 DEF GoesOnWith
    <2>3. g.req \in AnyRequest /\ g.req.repo = Repo(c) /\ g.req.kind = Kind(c) /\ g.req.chan = Chan(c)
      BY <2>1 DEF Answers, CallRecords, Repo, Kind, Chan
    <2>4. to \in Repos \cup {None} /\ p.id \in Ids
      BY MadeCall, ProjectFields
    <2>5. f = [g EXCEPT !.id = p.id, !.req = [g.req EXCEPT !.repo = to]]
      <3>1. g \in CallRecords
        BY <2>1 DEF Answers
      <3>2. CASE Kind(c) = "use"
        <4>1. to = g.req.repo
          BY <2>3, <3>2
        <4>2. f = [g EXCEPT !.id = p.id, !.req.repo = @]
          BY <2>2, <3>2
        <4> HIDE DEF to, g, f
        <4> QED
          BY <4>1, <4>2, <3>1 DEF CallRecords
      <3>3. CASE Kind(c) # "use"
        <4>1. to = p.repo
          BY <3>3
        <4>2. f = [g EXCEPT !.id = p.id, !.req.repo = p.repo]
          BY <2>2, <3>3
        <4> HIDE DEF to, g, f
        <4> QED
          BY <4>1, <4>2, <3>1 DEF CallRecords
      <3> QED
        BY <3>2, <3>3
    <2> HIDE DEF to, g, f
    <2> DEFINE q == [g.req EXCEPT !.repo = to]
    <2>6. /\ q \in AnyRequest /\ q.kind = Kind(c) /\ q.chan = Chan(c) /\ q.repo = to
      BY <2>3, <2>4 DEF AnyRequest
    <2>7. q # None
      BY <2>6, NamesAssumption
    <2> HIDE DEF q
    <2>8. g \in CallRecords
      BY <2>1 DEF Answers
    <2>9. f \in CallRecords
      BY <2>4, <2>5, <2>6, <2>8 DEF q, CallRecords
    <2>10. /\ f.pc = g.pc /\ f.at = g.at /\ f.req = q /\ f.project = g.project /\ f.seen = g.seen
           /\ f.path = g.path /\ f.gone = g.gone
      BY <2>5, <2>8 DEF q, CallRecords
    <2>11. Kind(c) = "use" => to = Repo(c)
      BY DEF to
    <2>12. Answers(c, f)
      BY <2>1, <2>6, <2>7, <2>9, <2>10, <2>11 DEF Answers
    <2> QED
      BY <1>1, <2>1, <2>10, <2>12 DEF f
  <1>2. CASE ~Serves(c, p)
    BY <1>2, RefusedLemma DEF GoesOnWith
  <1> QED
    BY <1>1, <1>2

\* What becomes of a request that was told the active project.
LEMMA AfterGetLemma ==
  ASSUME NEW c \in Calls, call[c] \in CallRecords, CallOK(c), call[c].pc # "new", Op(c) = "get",
         NEW p \in Projects \cup {None}
  PROVE  LET f == AfterGet(c, p)
         IN  /\ Answers(c, f)
             /\ Kind(c) \in {"use", "propose"} =>
                   \/ f.pc = "error"
                   \/ f.pc = "start" /\ p = None /\ f.at = 2
                   \/ f.pc = "start" /\ p # None /\ f.at = 4 /\ Serves(c, p)
             /\ f.pc = "ok" => Kind(c) = "get"
  <1>1. /\ Kind(c) \in KindNames /\ call[c].at = 1 /\ Kind(c) \notin {"list", "touch"}
        /\ Kind(c) \in {"use", "propose"} => Len(Script(Kind(c))) = 5
        /\ Kind(c) \in {"finish", "archive"} => Len(Script(Kind(c))) = 2
        /\ Kind(c) = "get" => Len(Script(Kind(c))) = 1
    BY MadeCall
  <1>2. CASE Kind(c) = "get"
    BY <1>1, <1>2, FollowingLemma DEF AfterGet
  <1>3. CASE Kind(c) \in {"use", "propose"} /\ p = None
    <2>1. AfterGet(c, p) = Following(c)
      BY <1>3 DEF AfterGet
    <2>2. Following(c).pc = "start" /\ Following(c).at = 2
      BY <1>1, <1>3, FollowingLemma
    <2> QED
      BY <1>3, <2>1, <2>2, FollowingLemma
  <1>4. CASE Kind(c) \in {"use", "propose"} /\ p # None
    <2> DEFINE n == IF Kind(c) \in {"use", "propose"} THEN 4 ELSE 2
    <2>a. n = 4
      BY <1>4
    <2> DEFINE A == Kind(c) = "get" \/ (p = None /\ Kind(c) \in {"use", "propose"})
               B == p = None /\ Kind(c) \notin {"get", "use", "propose"}
    <2>c. A \in BOOLEAN /\ B \in BOOLEAN /\ ~A /\ ~B
      BY <1>4
    <2>d. AfterGet(c, p) = CASE A -> Following(c) [] B -> Refused(c) [] OTHER -> GoesOnWith(c, p, n)
      BY DEF AfterGet
    <2> HIDE DEF n, A, B
    <2>b. AfterGet(c, p) = GoesOnWith(c, p, n)
      BY <2>c, <2>d
    <2>1. AfterGet(c, p) = GoesOnWith(c, p, 4)
      BY <2>a, <2>b
    <2>2. Len(Script(Kind(c))) = 5 /\ p \in Projects
      BY <1>1, <1>4
    <2>3. LET f == GoesOnWith(c, p, 4)
          IN  /\ Answers(c, f)
              /\ IF Serves(c, p) THEN f.pc = "start" /\ f.at = 4 ELSE f.pc = "error"
      BY <2>2, GoesOnLemma
    <2> HIDE DEF Serves
    <2> QED
      BY <1>4, <2>1, <2>3
  <1>5. CASE Kind(c) \in {"finish", "archive"} /\ p = None
    <2>1. AfterGet(c, p) = Refused(c)
      BY <1>5 DEF AfterGet
    <2> QED
      BY <1>5, <2>1, RefusedLemma
  <1>6. CASE Kind(c) \in {"finish", "archive"} /\ p # None
    <2> DEFINE n == IF Kind(c) \in {"use", "propose"} THEN 4 ELSE 2
    <2>a. n = 2
      BY <1>6
    <2> DEFINE A == Kind(c) = "get" \/ (p = None /\ Kind(c) \in {"use", "propose"})
               B == p = None /\ Kind(c) \notin {"get", "use", "propose"}
    <2>c. A \in BOOLEAN /\ B \in BOOLEAN /\ ~A /\ ~B
      BY <1>6
    <2>d. AfterGet(c, p) = CASE A -> Following(c) [] B -> Refused(c) [] OTHER -> GoesOnWith(c, p, n)
      BY DEF AfterGet
    <2> HIDE DEF n, A, B
    <2>b. AfterGet(c, p) = GoesOnWith(c, p, n)
      BY <2>c, <2>d
    <2>1. AfterGet(c, p) = GoesOnWith(c, p, 2)
      BY <2>a, <2>b
    <2>2. Len(Script(Kind(c))) = 2 /\ p \in Projects
      BY <1>1, <1>6
    <2>3. Answers(c, GoesOnWith(c, p, 2)) /\ GoesOnWith(c, p, 2).pc \in {"start", "error"}
      BY <2>2, GoesOnLemma
    <2> QED
      BY <1>6, <2>1, <2>3
  <1> QED
    BY <1>1, <1>2, <1>3, <1>4, <1>5, <1>6 DEF KindNames

-----------------------------------------------------------------------------
(* What the updates make of a record.                                      *)

\* The record of a new project.
LEMMA CreatedLemma ==
  ASSUME NEW c \in Calls, Chan(c) \in Channels
  PROVE  /\ Created(c) \in Projects
         /\ Created(c).id = c /\ Created(c).chan = Chan(c) /\ Created(c).repo = None
         /\ Created(c).status = "idle"
  BY DEF Created, Fresh, Projects, Ids

\* The record that a selection makes.
LEMMA SelectedLemma ==
  ASSUME NEW c \in Calls, call[c].seen \in Projects \cup {None}, Repo(c) \in Repos,
         NEW cur \in Projects
  PROVE  LET p == Selected(c, cur)
             base == IF Resumes(c) THEN call[c].seen ELSE cur
         IN  /\ p \in Projects /\ p.repo = Repo(c)
             /\ IF base.repo = Repo(c) THEN p.change = base.change /\ p.status = base.status
                                       ELSE p.status = "idle"
  <1> DEFINE base == IF Resumes(c) THEN [call[c].seen EXCEPT !.chan = cur.chan] ELSE cur
             rest == IF Resumes(c) THEN call[c].seen ELSE cur
             p == Selected(c, cur)
  <1>1. base \in Projects /\ base.repo = rest.repo /\ base.change = rest.change
        /\ base.status = rest.status
    <2>1. CASE Resumes(c)
      <3>1. call[c].seen \in Projects
        BY <2>1 DEF Resumes
      <3>2. base = [call[c].seen EXCEPT !.chan = cur.chan] /\ rest = call[c].seen
        BY <2>1
      <3> HIDE DEF base, rest
      <3> QED
        BY <3>1, <3>2, ProjectFields DEF Projects
    <2>2. CASE ~Resumes(c)
      BY <2>2
    <2> QED
      BY <2>1, <2>2
  <1>2. p = IF base.repo = Repo(c) THEN base
            ELSE [base EXCEPT !.repo = Repo(c), !.change = None, !.status = "idle"]
    BY DEF Selected
  <1> HIDE DEF base, p
  <1>3. CASE base.repo = Repo(c)
    <2>1. p = base
      BY <1>2, <1>3
    <2> QED
      BY <1>1, <1>3, <2>1 DEF p
  <1>4. CASE base.repo # Repo(c)
    <2>1. p = [base EXCEPT !.repo = Repo(c), !.change = None, !.status = "idle"]
      BY <1>2, <1>4
    <2>2. p \in Projects /\ p.repo = Repo(c) /\ p.status = "idle"
      BY <1>1, <2>1 DEF Projects
    <2>3. rest.repo # Repo(c)
      BY <1>1, <1>4
    <2> HIDE DEF rest
    <2> QED
      BY <2>2, <2>3 DEF p, rest
  <1> QED
    BY <1>3, <1>4

\* The record that each kind of request makes.
LEMMA UpdatedLemma ==
  ASSUME NEW c \in Calls, call[c] \in CallRecords, CallOK(c), call[c].pc # "new",
         NEW cur \in Projects, Op(c) \in {"settle", "update"}
  PROVE  LET p == Updated(c, cur)
             base == IF Resumes(c) THEN call[c].seen ELSE cur
         IN  /\ p \in Projects
             /\ Op(c) = "settle" =>
                   p.chan = cur.chan /\ p.repo = cur.repo /\ p.status = "idle"
             /\ Op(c) = "update" /\ Kind(c) # "use" => p.chan = cur.chan /\ p.repo = cur.repo
             /\ Kind(c) = "touch" => p.change = cur.change /\ p.status = cur.status
             /\ Op(c) = "update" /\ Kind(c) = "propose" => p.change = c /\ p.status = "open"
             /\ Kind(c) \in {"finish", "archive"} => p.status \in {"done", "archived"}
             /\ Op(c) = "update" /\ Kind(c) = "use" =>
                   /\ p.repo = Repo(c)
                   /\ IF base.repo = Repo(c) THEN p.change = base.change /\ p.status = base.status
                                             ELSE p.status = "idle"
  <1> DEFINE p == Updated(c, cur)
             base == IF Resumes(c) THEN call[c].seen ELSE cur
             Logged(q) == [q EXCEPT !.log = @ \cup {c}]
  <1>1. ASSUME NEW q \in Projects
        PROVE  /\ Logged(q) \in Projects
               /\ Logged(q).id = q.id /\ Logged(q).chan = q.chan /\ Logged(q).repo = q.repo
               /\ Logged(q).change = q.change /\ Logged(q).status = q.status
    BY DEF Projects
  <1>2. /\ Kind(c) \in KindNames /\ call[c].seen \in Projects \cup {None}
        /\ Kind(c) = "use" => Repo(c) \in Repos
        /\ Op(c) = "settle" => Kind(c) \in {"use", "propose"}
        /\ Op(c) = "update" => Kind(c) \notin Reads
    BY MadeCall, CallFields
  <1> HIDE DEF Logged, base
  <1>3. CASE Op(c) = "settle"
    <2> DEFINE q == [cur EXCEPT !.status = "idle"]
    <2>1. q \in Projects /\ q.chan = cur.chan /\ q.repo = cur.repo /\ q.status = "idle"
      BY DEF Projects
    <2>2. p = Logged(q)
      BY <1>3 DEF Updated, Logged
    <2> HIDE DEF q, p
    <2>3. p \in Projects /\ p.chan = cur.chan /\ p.repo = cur.repo /\ p.status = "idle"
      BY <1>1, <2>1, <2>2
    <2> QED
      BY <1>2, <1>3, <2>3 DEF p
  <1>4. CASE Op(c) = "update" /\ Kind(c) = "touch"
    <2>1. p = Logged(cur)
      BY <1>4 DEF Updated, Logged
    <2> HIDE DEF p
    <2>2. /\ p \in Projects /\ p.chan = cur.chan /\ p.repo = cur.repo
          /\ p.change = cur.change /\ p.status = cur.status
      BY <1>1, <2>1
    <2> QED
      BY <1>4, <2>2 DEF p
  <1>5. CASE Op(c) = "update" /\ Kind(c) = "propose"
    <2> DEFINE q == [cur EXCEPT !.change = c, !.status = "open"]
    <2>1. /\ q \in Projects /\ q.chan = cur.chan /\ q.repo = cur.repo /\ q.change = c
          /\ q.status = "open"
      BY DEF Projects, Changes
    <2>2. p = Logged(q)
      BY <1>5 DEF Updated, Logged
    <2> HIDE DEF q, p
    <2>3. /\ p \in Projects /\ p.chan = cur.chan /\ p.repo = cur.repo /\ p.change = c
          /\ p.status = "open"
      BY <1>1, <2>1, <2>2
    <2> QED
      BY <1>5, <2>3 DEF p
  <1>6. CASE Op(c) = "update" /\ Kind(c) = "finish"
    <2> DEFINE q == [cur EXCEPT !.status = "done"]
    <2>1. q \in Projects /\ q.chan = cur.chan /\ q.repo = cur.repo /\ q.status = "done"
      BY DEF Projects
    <2>2. p = Logged(q)
      BY <1>6 DEF Updated, Logged
    <2> HIDE DEF q, p
    <2>3. p \in Projects /\ p.chan = cur.chan /\ p.repo = cur.repo /\ p.status = "done"
      BY <1>1, <2>1, <2>2
    <2> QED
      BY <1>6, <2>3 DEF p
  <1>7. CASE Op(c) = "update" /\ Kind(c) = "archive"
    <2> DEFINE q == [cur EXCEPT !.change = None, !.status = "archived"]
    <2>1. q \in Projects /\ q.chan = cur.chan /\ q.repo = cur.repo /\ q.status = "archived"
      BY DEF Projects
    <2>2. p = Logged(q)
      BY <1>7 DEF Updated, Logged
    <2> HIDE DEF q, p
    <2>3. p \in Projects /\ p.chan = cur.chan /\ p.repo = cur.repo /\ p.status = "archived"
      BY <1>1, <2>1, <2>2
    <2> QED
      BY <1>7, <2>3 DEF p
  <1>8. CASE Op(c) = "update" /\ Kind(c) = "use"
    <2> DEFINE q == Selected(c, cur)
    <2>1. /\ q \in Projects /\ q.repo = Repo(c)
          /\ IF base.repo = Repo(c) THEN q.change = base.change /\ q.status = base.status
                                    ELSE q.status = "idle"
      BY <1>2, <1>8, SelectedLemma DEF base
    <2>2. p = Logged(q)
      BY <1>8 DEF Updated, Logged
    <2> HIDE DEF q, p
    <2>3. /\ p \in Projects /\ p.repo = Repo(c)
          /\ IF base.repo = Repo(c) THEN p.change = base.change /\ p.status = base.status
                                    ELSE p.status = "idle"
      BY <1>1, <2>1, <2>2
    <2> QED
      BY <1>8, <2>3 DEF p, base
  <1> QED
    BY <1>2, <1>3, <1>4, <1>5, <1>6, <1>7, <1>8 DEF KindNames, Reads

\* Where a record is stored: in its repository, if it has one.
LEMMA TargetLemma ==
  ASSUME NEW p \in Projects, NEW path \in Paths \cup {None}
  PROVE  /\ Target(p, path) \in Paths /\ Target(p, path) # None
         /\ p.repo # None => Target(p, path) = p.repo /\ p.repo \in Repos
         /\ p.repo = None /\ path # None => Target(p, path) = path
         /\ p.repo = None /\ path = None => Target(p, path) = p.id /\ p.id \notin Repos
  BY ProjectFields, NamesAssumption DEF Target, Paths

-----------------------------------------------------------------------------
(* Steps.                                                                  *)

\* Only call c changes, and its request stays.
OnlyCall(c) ==
    /\ call' \in [Calls -> CallRecords]
    /\ \A d \in Calls : d # c => call'[d] = call[d]

\* A call that goes on with its operation.
LEMMA GoesLemma ==
  ASSUME call \in [Calls -> CallRecords], NEW c \in Calls, NEW pc \in Pcs, Goes(c, pc)
  PROVE  /\ OnlyCall(c)
         /\ call'[c].pc = pc /\ call'[c].req = call[c].req /\ call'[c].at = call[c].at
         /\ call'[c].path = call[c].path /\ call'[c].project = call[c].project
         /\ call'[c].seen = call[c].seen /\ call'[c].left = call[c].left
         /\ call'[c].gone = call[c].gone
  <1> DEFINE f == [call[c] EXCEPT !.pc = pc]
  <1>1. call' = [call EXCEPT ![c] = f]
    BY DEF Goes
  <1>2. f \in CallRecords
    BY DEF CallRecords
  <1>3. /\ f.pc = pc /\ f.req = call[c].req /\ f.at = call[c].at
        /\ f.path = call[c].path /\ f.project = call[c].project
        /\ f.seen = call[c].seen /\ f.left = call[c].left
        /\ f.gone = call[c].gone
    BY DEF CallRecords
  <1> HIDE DEF f
  <1>4. call'[c] = f
    BY <1>1
  <1> QED
    BY <1>1, <1>2, <1>3, <1>4 DEF OnlyCall

\* A call that is over with its operation.
LEMMA AnswersLemma ==
  ASSUME call \in [Calls -> CallRecords], NEW c \in Calls, NEW f, Answers(c, f),
         call' = [call EXCEPT ![c] = f]
  PROVE  OnlyCall(c) /\ call'[c] = f
  BY DEF OnlyCall, Answers

\* An answered call is in order.
LEMMA AnsweredOK ==
  ASSUME NEW c \in Calls, Answers(c, call'[c]),
         Kind(c) = "use" => Repo(c) \in Repos
  PROVE  /\ CallOK(c)'
         /\ call'[c].pc \notin Locked \cup {"look", "new"}
         /\ Kind(c)' = Kind(c) /\ Chan(c)' = Chan(c)
  <1>1. call'[c].pc \notin Locked \cup {"look", "new"}
    BY DEF Answers, Locked, Storing
  <1> QED
    BY <1>1 DEF Answers, CallOK, Kind, Chan, Repo, Locked, Storing

\* While the map is free nobody reads the list.
LEMMA NoLook ==
  ASSUME LocksHeld, IsFree("map"), NEW c \in Calls
  PROVE  call[c].pc # "look"
  BY NamesAssumption DEF LocksHeld, IsFree, Ids

\* The one who holds a lock.
LEMMA OneHolder ==
  ASSUME LocksHeld, NEW c \in Calls, NEW d \in Calls
  PROVE  /\ call[c].pc = "look" /\ call[d].pc = "look" => c = d
         /\ call[c].pc \in Locked /\ call[d].pc \in Locked /\ Chan(c) = Chan(d) => c = d
  BY DEF LocksHeld

\* The other calls stay in order, while the map does or while none of them reads it.
LEMMA OtherCalls ==
  ASSUME \A d \in Calls : CallOK(d), NEW c \in Calls, OnlyCall(c), CallOK(c)',
         map' = map \/ \A d \in Calls : d # c => call[d].pc # "look"
  PROVE  \A d \in Calls : CallOK(d)'
  <1> SUFFICES ASSUME NEW d \in Calls, d # c PROVE CallOK(d)'
    OBVIOUS
  <1>1. call'[d] = call[d] /\ CallOK(d)
    BY DEF OnlyCall
  <1>2. CASE map' = map
    BY <1>1, <1>2 DEF CallOK, Kind, Repo, Op
  <1>3. CASE call[d].pc # "look"
    BY <1>1, <1>3 DEF CallOK, Kind, Repo, Op
  <1> QED
    BY <1>2, <1>3

\* A call keeps the lock that it has, or stays without.
LEMMA KeepsLock ==
  ASSUME LocksHeld, locks \in [Locks -> Calls \cup {None}], NEW c \in Calls, OnlyCall(c), locks' = locks,
         \/ /\ call[c].pc \in Locked /\ call'[c].pc \in Locked /\ Chan(c)' = Chan(c)
         \/ call[c].pc = "look" /\ call'[c].pc = "look"
         \/ /\ call[c].pc \notin Locked \cup {"look"}
            /\ call'[c].pc \notin Locked \cup {"look"}
  PROVE  LocksHeld'
  <1>1. "look" \notin Locked
    BY DEF Locked, Storing
  <1>2. ASSUME NEW d \in Calls
        PROVE  /\ call'[d].pc \in Locked <=> call[d].pc \in Locked
               /\ call'[d].pc = "look" <=> call[d].pc = "look"
               /\ call[d].pc \in Locked => Chan(d)' = Chan(d)
    BY <1>1 DEF OnlyCall, Chan
  <1>3. \A l \in Locks : locks[l] # None => locks[l] \in Calls
    OBVIOUS
  <1> QED
    BY <1>2, <1>3 DEF LocksHeld

\* A call takes the lock of its channel, or of the map.
LEMMA TakesLock ==
  ASSUME LocksHeld, locks \in [Locks -> Calls \cup {None}], NEW c \in Calls, OnlyCall(c),
         NEW l \in Locks, IsFree(l), Takes(c, l),
         call[c].pc \notin Locked \cup {"look"},
         \A d \in Calls : call[d].pc \in Locked => Chan(d) \in Channels,
         \/ call'[c].pc \in Locked /\ Chan(c)' = l
         \/ call'[c].pc = "look" /\ l = "map"
  PROVE  LocksHeld'
  <1>1. "look" \notin Locked /\ None \notin Calls
    BY NamesAssumption DEF Locked, Storing, Ids
  <1>2. ASSUME NEW d \in Calls, d # c
        PROVE  call'[d] = call[d] /\ Chan(d)' = Chan(d)
    BY <1>2 DEF OnlyCall, Chan
  <1>3. ASSUME NEW d \in Calls
        PROVE  /\ call'[d].pc \in Locked => locks'[Chan(d)'] = d
               /\ call'[d].pc = "look" => locks'["map"] = d
    <2>1. CASE d = c
      BY <1>1, <2>1 DEF Takes
    <2>2. CASE d # c
      <3>1. /\ call[d].pc \in Locked => locks[Chan(d)] = d
            /\ call[d].pc = "look" => locks["map"] = d
        BY DEF LocksHeld
      <3>2. call'[d] = call[d] /\ Chan(d)' = Chan(d) /\ d # None
        BY <1>1, <1>2, <2>2
      <3>3. locks[l] = None
        BY DEF IsFree
      <3>4. \A m \in Locks : locks[m] = d => locks'[m] = d
        BY <3>2, <3>3 DEF Takes
      <3>5. "map" \in Locks /\ (call[d].pc \in Locked => Chan(d) \in Locks)
        BY DEF Locks
      <3> QED
        BY <3>1, <3>2, <3>4, <3>5
    <2> QED
      BY <2>1, <2>2
  <1>4. ASSUME NEW m \in Locks, locks'[m] # None
        PROVE  \/ call'[locks'[m]].pc \in Locked /\ call'[locks'[m]].req.chan = m
               \/ call'[locks'[m]].pc = "look" /\ m = "map"
    <2>1. CASE m = l
      BY <2>1 DEF Takes, Chan
    <2>2. CASE m # l
      <3>1. locks'[m] = locks[m] /\ locks[m] \in Calls
        BY <1>4, <2>2 DEF Takes
      <3>2. \/ call[locks[m]].pc \in Locked /\ Chan(locks[m]) = m
            \/ call[locks[m]].pc = "look" /\ m = "map"
        BY <1>4, <3>1 DEF LocksHeld
      <3>3. locks[m] # c
        BY <3>2
      <3> QED
        BY <1>2, <3>1, <3>2, <3>3 DEF Chan
    <2> QED
      BY <2>1, <2>2
  <1> QED
    BY <1>3, <1>4 DEF LocksHeld, Chan

\* A call gives its lock up.
LEMMA ReleasesLock ==
  ASSUME LocksHeld, locks \in [Locks -> Calls \cup {None}], NEW c \in Calls, OnlyCall(c),
         NEW l \in Locks, Releases(l), call'[c].pc \notin Locked \cup {"look"},
         \A d \in Calls : call[d].pc \in Locked => Chan(d) \in Channels,
         \/ call[c].pc \in Locked /\ Chan(c) = l
         \/ call[c].pc = "look" /\ l = "map"
  PROVE  LocksHeld'
  <1>1. "look" \notin Locked /\ None \notin Calls
    BY NamesAssumption DEF Locked, Storing, Ids
  <1>2. ASSUME NEW d \in Calls, d # c
        PROVE  call'[d] = call[d] /\ Chan(d)' = Chan(d)
    BY <1>2 DEF OnlyCall, Chan
  <1>3. locks[l] = c
    BY DEF LocksHeld
  <1>4. ASSUME NEW d \in Calls
        PROVE  /\ call'[d].pc \in Locked => locks'[Chan(d)'] = d
               /\ call'[d].pc = "look" => locks'["map"] = d
    <2>1. CASE d = c
      BY <2>1
    <2>2. CASE d # c
      <3>1. /\ call[d].pc \in Locked => locks[Chan(d)] = d
            /\ call[d].pc = "look" => locks["map"] = d
        BY DEF LocksHeld
      <3>2. call'[d] = call[d] /\ Chan(d)' = Chan(d)
        BY <1>2, <2>2
      <3>4. \A m \in Locks : locks[m] = d => locks'[m] = d
        BY <1>3, <2>2 DEF Releases
      <3>5. "map" \in Locks /\ (call[d].pc \in Locked => Chan(d) \in Locks)
        BY DEF Locks
      <3> QED
        BY <3>1, <3>2, <3>4, <3>5
    <2> QED
      BY <2>1, <2>2
  <1>5. ASSUME NEW m \in Locks, locks'[m] # None
        PROVE  \/ call'[locks'[m]].pc \in Locked /\ call'[locks'[m]].req.chan = m
               \/ call'[locks'[m]].pc = "look" /\ m = "map"
    <2>1. m # l
      BY <1>5 DEF Releases
    <2>2. locks'[m] = locks[m] /\ locks[m] \in Calls
      BY <1>5, <2>1 DEF Releases
    <2>3. \/ call[locks[m]].pc \in Locked /\ Chan(locks[m]) = m
          \/ call[locks[m]].pc = "look" /\ m = "map"
      BY <1>5, <2>2 DEF LocksHeld
    <2>4. locks[m] # c
      BY <1>1, <2>1, <2>3
    <2> QED
      BY <1>2, <2>2, <2>3, <2>4 DEF Chan
  <1> QED
    BY <1>4, <1>5 DEF LocksHeld, Chan

-----------------------------------------------------------------------------
(* What each action does to its call.                                      *)

\* The call is elsewhere in its operation.
MovesTo(c, pc, path, project) ==
    /\ OnlyCall(c)
    /\ call'[c].pc = pc /\ call'[c].path = path /\ call'[c].project = project
    /\ call'[c].req = call[c].req /\ call'[c].at = call[c].at /\ call'[c].seen = call[c].seen

\* What the invariant says of one call.
LEMMA StoreFacts ==
  ASSUME StoreInv, NEW c \in Calls
  PROVE  /\ call \in [Calls -> CallRecords] /\ call[c] \in CallRecords /\ CallOK(c)
         /\ locks \in [Locks -> Calls \cup {None}]
         /\ \A d \in Calls : call[d].pc \in Locked => Chan(d) \in Channels
         /\ \A d \in Calls : call[d].pc = "look" => call[d].pc # "new"
         /\ call[c].pc # "new" => Chan(c) \in Channels /\ Chan(c) \in Locks
  <1>1. /\ call \in [Calls -> CallRecords] /\ locks \in [Locks -> Calls \cup {None}]
        /\ \A d \in Calls : CallOK(d)
    BY DEF StoreInv, StoreTypes
  <1>2. ASSUME NEW d \in Calls, call[d].pc # "new" PROVE Chan(d) \in Channels
    BY <1>1, <1>2, MadeCall
  <1>3. "new" \notin Locked
    BY DEF Locked, Storing
  <1> QED
    BY <1>1, <1>2, <1>3 DEF Locks

\* An operation that finds no project answers, creates one, or refuses.
LEMMA NoProjectEffect ==
  ASSUME StoreInv, NEW c \in Calls, call[c].pc \in {"record", "drop"}, NoProject(c)
  PROVE  \/ /\ Op(c) = "get" /\ OnlyCall(c) /\ call'[c] = AfterGet(c, None)
            /\ Answers(c, call'[c]) /\ Releases(Chan(c))
         \/ /\ Op(c) = "create" /\ MovesTo(c, "write", None, Created(c)) /\ locks' = locks
         \/ /\ Op(c) \in {"settle", "update"} /\ OnlyCall(c) /\ call'[c].pc = "error"
            /\ Answers(c, call'[c]) /\ Releases(Chan(c))
  <1>1. call \in [Calls -> CallRecords] /\ call[c] \in CallRecords /\ CallOK(c)
        /\ call[c].pc # "new" /\ Chan(c) \in Channels
    BY StoreFacts
  <1>2. CASE Op(c) = "get" /\ call' = [call EXCEPT ![c] = AfterGet(c, None)] /\ Releases(Chan(c))
    BY <1>1, <1>2, AfterGetLemma, AnswersLemma
  <1>3. CASE /\ Op(c) = "create" /\ UNCHANGED locks
             /\ call' = [call EXCEPT ![c].project = Created(c), ![c].path = None, ![c].pc = "write"]
    <2> DEFINE p == Created(c)
               f == [call[c] EXCEPT !.project = p, !.path = None, !.pc = "write"]
    <2>1. p \in Projects
      BY <1>1, CreatedLemma
    <2> HIDE DEF p
    <2>2. call' = [call EXCEPT ![c] = f]
      BY <1>3 DEF p
    <2>3. f \in CallRecords
      BY <1>1, <2>1 DEF CallRecords, Pcs
    <2>4. /\ f.pc = "write" /\ f.path = None /\ f.project = p
          /\ f.req = call[c].req /\ f.at = call[c].at /\ f.seen = call[c].seen
      BY <1>1 DEF CallRecords
    <2> HIDE DEF f
    <2>5. OnlyCall(c) /\ call'[c] = f
      BY <1>1, <2>2, <2>3 DEF OnlyCall
    <2>6. MovesTo(c, "write", None, p)
      BY <2>4, <2>5 DEF MovesTo
    <2> QED
      BY <1>3, <2>6 DEF p
  <1>4. CASE /\ Op(c) \in {"settle", "update"} /\ call' = [call EXCEPT ![c] = Refused(c)]
             /\ ReleasesUnanswered(c)
    BY <1>1, <1>4, RefusedLemma, AnswersLemma DEF ReleasesUnanswered
  <1> QED
    BY <1>2, <1>3, <1>4 DEF NoProject

\* readActiveRecord leads to a state file, or there is no project.
LEMMA ReadRecordEffect ==
  ASSUME StoreInv, NEW c \in Calls, ReadRecord(c)
  PROVE  /\ call[c].pc = "record" /\ IsFree("map")
         /\ UNCHANGED <<files, map, closed, crashes>>
         /\ \/ map[Chan(c)] = None /\ NoProject(c)
            \/ /\ map[Chan(c)] # None /\ locks' = locks
               /\ MovesTo(c, "file", map[Chan(c)], call[c].project)
  <1>1. call \in [Calls -> CallRecords] /\ call[c] \in CallRecords /\ call[c].pc # "new"
        /\ Chan(c) \in Channels
    BY StoreFacts DEF ReadRecord
  <1>2. map[Chan(c)] \in Paths \cup {None}
    BY <1>1 DEF StoreInv, StoreTypes
  <1>3. CASE call' = [call EXCEPT ![c].path = map[Chan(c)], ![c].pc = "file"]
    <2> DEFINE q == map[Chan(c)]
               f == [call[c] EXCEPT !.path = q, !.pc = "file"]
    <2>1. q \in Paths \cup {None}
      BY <1>2
    <2> HIDE DEF q
    <2>2. call' = [call EXCEPT ![c] = f]
      BY <1>3 DEF q
    <2>3. f \in CallRecords
      BY <1>1, <2>1 DEF CallRecords, Pcs
    <2>4. /\ f.pc = "file" /\ f.path = q /\ f.project = call[c].project
          /\ f.req = call[c].req /\ f.at = call[c].at /\ f.seen = call[c].seen
      BY <1>1 DEF CallRecords
    <2> HIDE DEF f
    <2>5. OnlyCall(c) /\ call'[c] = f
      BY <1>1, <2>2, <2>3 DEF OnlyCall
    <2>6. MovesTo(c, "file", q, call[c].project)
      BY <2>4, <2>5 DEF MovesTo
    <2> QED
      BY <2>6 DEF q, ReadRecord
  <1> QED
    BY <1>3 DEF ReadRecord

\* The file is gone, it is the answer, or the record to store is made.
LEMMA ReadFileEffect ==
  ASSUME StoreInv, NEW c \in Calls, ReadFile(c)
  PROVE  LET cur == files[call[c].path]
         IN  /\ call[c].pc = "file" /\ call[c].path \in Paths /\ cur \in Projects \cup {None}
             /\ UNCHANGED <<files, map, closed, crashes>>
             /\ \/ /\ cur = None /\ Op(c) # "create" /\ locks' = locks
                   /\ MovesTo(c, "drop", call[c].path, call[c].project)
                \/ /\ cur # None /\ OnlyCall(c) /\ Answers(c, call'[c]) /\ Releases(Chan(c))
                   /\ \/ Op(c) = "get" /\ call'[c] = AfterGet(c, cur)
                      \/ Op(c) = "create" /\ call'[c].pc = "error"
                \/ /\ Op(c) = "create" /\ locks' = locks /\ ~Conflicts(c, cur)
                   /\ MovesTo(c, "write", None, Created(c))
                \/ /\ cur # None /\ Op(c) \in {"settle", "update"} /\ locks' = locks
                   /\ MovesTo(c, "write", call[c].path, Updated(c, cur))
  <1> DEFINE cur == files[call[c].path]
  <1>1. call \in [Calls -> CallRecords] /\ call[c] \in CallRecords /\ CallOK(c)
        /\ call[c].pc = "file" /\ call[c].pc # "new" /\ Chan(c) \in Channels
    BY StoreFacts DEF ReadFile
  <1>2. call[c].path \in Paths /\ Op(c) \in {"get", "create", "settle", "update"}
    BY <1>1, CallFields DEF CallOK, Locked
  <1>3. cur \in Projects \cup {None}
    BY <1>2 DEF StoreInv, StoreTypes
  <1>4. UNCHANGED <<files, map, closed, crashes>>
    BY DEF ReadFile
  <1>5. CASE cur = None /\ Op(c) # "create" /\ Goes(c, "drop") /\ UNCHANGED locks
    <2>1. MovesTo(c, "drop", call[c].path, call[c].project)
      BY <1>1, <1>5, GoesLemma DEF MovesTo, Pcs
    <2> QED
      BY <1>1, <1>2, <1>3, <1>4, <1>5, <2>1
  <1>6. CASE /\ cur # None /\ (Op(c) = "get" \/ Conflicts(c, cur))
             /\ call' = [call EXCEPT ![c] = IF Op(c) = "get" THEN AfterGet(c, cur) ELSE Refused(c)]
             /\ Releases(Chan(c))
    <2>1. CASE Op(c) = "get"
      <3>1. Answers(c, AfterGet(c, cur)) /\ call' = [call EXCEPT ![c] = AfterGet(c, cur)]
        BY <1>1, <1>3, <1>6, <2>1, AfterGetLemma
      <3>2. OnlyCall(c) /\ call'[c] = AfterGet(c, cur)
        BY <1>1, <3>1, AnswersLemma
      <3> HIDE DEF cur
      <3> QED
        BY <1>1, <1>2, <1>3, <1>4, <1>6, <2>1, <3>1, <3>2 DEF cur
    <2>2. CASE Op(c) # "get"
      <3>1. Answers(c, Refused(c)) /\ Refused(c).pc = "error" /\ call' = [call EXCEPT ![c] = Refused(c)]
        BY <1>1, <1>6, <2>2, RefusedLemma
      <3>2. OnlyCall(c) /\ call'[c] = Refused(c)
        BY <1>1, <3>1, AnswersLemma
      <3>3. Op(c) = "create"
        BY <1>6, <2>2 DEF Conflicts
      <3> HIDE DEF cur
      <3> QED
        BY <1>1, <1>2, <1>3, <1>4, <1>6, <3>1, <3>2, <3>3 DEF cur
    <2> QED
      BY <2>1, <2>2
  <1>7. CASE /\ cur # None \/ Op(c) = "create"
             /\ Op(c) # "get" /\ ~Conflicts(c, cur) /\ UNCHANGED locks
             /\ call' = [call EXCEPT
                           ![c].project = IF Op(c) = "create" THEN Created(c) ELSE Updated(c, cur),
                           ![c].path = IF Op(c) = "create" THEN None ELSE @,
                           ![c].pc = "write"]
    <2> DEFINE p == IF Op(c) = "create" THEN Created(c) ELSE Updated(c, cur)
               q == IF Op(c) = "create" THEN None ELSE call[c].path
               f == [call[c] EXCEPT !.project = p, !.path = q, !.pc = "write"]
    <2>1. p \in Projects /\ q \in Paths \cup {None}
      <3>1. CASE Op(c) = "create"
        BY <1>1, <3>1, CreatedLemma
      <3>2. CASE Op(c) # "create"
        <4>1. Op(c) \in {"settle", "update"} /\ cur \in Projects
          BY <1>2, <1>3, <1>7, <3>2
        <4> HIDE DEF cur
        <4>2. Updated(c, cur) \in Projects
          BY <1>1, <4>1, UpdatedLemma
        <4> QED
          BY <1>2, <3>2, <4>2
      <3> QED
        BY <3>1, <3>2
    <2>2. call' = [call EXCEPT ![c] = f]
      <3>1. CASE Op(c) = "create"
        BY <1>1, <1>7, <3>1
      <3>2. CASE Op(c) # "create"
        BY <1>1, <1>7, <3>2
      <3> QED
        BY <3>1, <3>2
    <2> HIDE DEF p, q, cur
    <2>3. f \in CallRecords
      BY <1>1, <2>1 DEF CallRecords, Pcs
    <2>4. /\ f.pc = "write" /\ f.path = q /\ f.project = p
          /\ f.req = call[c].req /\ f.at = call[c].at /\ f.seen = call[c].seen
      BY <1>1 DEF CallRecords
    <2> HIDE DEF f
    <2>5. OnlyCall(c) /\ call'[c] = f
      BY <1>1, <2>2, <2>3 DEF OnlyCall
    <2>6. MovesTo(c, "write", q, p)
      BY <2>4, <2>5 DEF MovesTo
    <2>7. Op(c) = "create" => q = None /\ p = Created(c)
      BY DEF p, q
    <2>8. Op(c) # "create" => q = call[c].path /\ p = Updated(c, cur)
      BY DEF p, q
    <2>9. CASE Op(c) = "create"
      BY <1>1, <1>2, <1>3, <1>4, <1>7, <2>6, <2>7, <2>9 DEF cur
    <2>10. CASE Op(c) # "create"
      <3>1. cur # None /\ Op(c) \in {"settle", "update"}
        BY <1>2, <1>7, <2>10
      <3> QED
        BY <1>1, <1>2, <1>3, <1>4, <1>7, <2>6, <2>8, <2>10, <3>1 DEF cur
    <2> QED
      BY <2>9, <2>10
  <1> QED
    BY <1>5, <1>6, <1>7 DEF ReadFile

\* An entry is dropped if it still leads to the file that is gone.
LEMMA DropRecordEffect ==
  ASSUME StoreInv, NEW c \in Calls, DropRecord(c)
  PROVE  /\ call[c].pc = "drop" /\ IsFree("map") /\ NoProject(c)
         /\ UNCHANGED <<files, closed, crashes>>
         /\ Chan(c) \in Channels
         /\ map' \in [Channels -> Paths \cup {None}]
         /\ \A ch \in Channels :
               map'[ch] = IF ch = Chan(c) /\ map[ch] = call[c].path THEN None ELSE map[ch]
  <1>1. Chan(c) \in Channels /\ map \in [Channels -> Paths \cup {None}]
    BY StoreFacts DEF DropRecord, StoreInv, StoreTypes
  <1>2. map' = [map EXCEPT ![Chan(c)] = IF @ = call[c].path THEN None ELSE @]
    BY DEF DropRecord
  <1> DEFINE q == IF map[Chan(c)] = call[c].path THEN None ELSE map[Chan(c)]
  <1>3. map' = [map EXCEPT ![Chan(c)] = q]
    BY <1>2
  <1>4. q \in Paths \cup {None}
    BY <1>1
  <1>5. \A ch \in Channels : ch = Chan(c) =>
           q = IF ch = Chan(c) /\ map[ch] = call[c].path THEN None ELSE map[ch]
    OBVIOUS
  <1> HIDE DEF q
  <1>6. map' \in [Channels -> Paths \cup {None}]
    BY <1>1, <1>3, <1>4
  <1>7. \A ch \in Channels :
           map'[ch] = IF ch = Chan(c) /\ map[ch] = call[c].path THEN None ELSE map[ch]
    BY <1>1, <1>3, <1>5
  <1> QED
    BY <1>1, <1>6, <1>7 DEF DropRecord

\* Where the record of a call goes.
Place(c) == Target(call[c].project, call[c].path)

\* A record that is stored is one, and so is the path where it goes.
LEMMA PlaceLemma ==
  ASSUME StoreInv, NEW c \in Calls, call[c].pc \in Storing
  PROVE  /\ call[c].project \in Projects /\ Place(c) \in Paths /\ Place(c) # None
         /\ call[c].pc # "new"
         /\ call[c].project.repo # None => Place(c) = call[c].project.repo /\ Place(c) \in Repos
         /\ call[c].project.repo = None /\ call[c].path # None => Place(c) = call[c].path
         /\ call[c].project.repo = None /\ call[c].path = None =>
               Place(c) = call[c].project.id /\ Place(c) \notin Repos
         /\ Op(c) \in {"create", "settle", "update"} /\ Chan(c) \in Channels
         /\ call[c].path \in Paths \cup {None}
  <1>1. call[c] \in CallRecords /\ CallOK(c) /\ call[c].pc # "new" /\ Chan(c) \in Channels
    BY StoreFacts DEF Storing
  <1>2. call[c].project \in Projects
    BY <1>1, CallFields DEF CallOK
  <1>3. call[c].path \in Paths \cup {None}
    BY <1>1, CallFields
  <1>4. Op(c) \in {"create", "settle", "update"}
    BY <1>1 DEF CallOK, Locked
  <1> QED
    BY <1>1, <1>2, <1>3, <1>4, TargetLemma DEF Place

\* A record is written to one file; what it closes is remembered.
LEMMA WriteFileEffect ==
  ASSUME StoreInv, NEW c \in Calls, WriteFile(c)
  PROVE  /\ call[c].pc = "write" /\ call[c].pc \in Storing
         /\ files' \in [Paths -> Projects \cup {None}]
         /\ files'[Place(c)] = call[c].project
         /\ \A q \in Paths : q # Place(c) => files'[q] = files[q]
         /\ MovesTo(c, IF call[c].path \in {None, Place(c)} THEN "map" ELSE "remove",
                    call[c].path, call[c].project)
         /\ closed \subseteq closed' /\ closed' \subseteq Changes \cup {None}
         /\ call[c].project.status \in {"done", "archived"} /\ files[Place(c)] # None =>
               files[Place(c)].change \in closed'
         /\ UNCHANGED <<map, locks, crashes>>
  <1>1. call[c].pc = "write" /\ call[c].pc \in Storing
    BY DEF WriteFile, Storing
  <1>2. Place(c) \in Paths /\ call[c].project \in Projects
    BY <1>1, PlaceLemma
  <1>3. files \in [Paths -> Projects \cup {None}] /\ closed \subseteq Changes \cup {None}
    BY DEF StoreInv, StoreTypes
  <1>4. files' = [files EXCEPT ![Place(c)] = call[c].project]
    BY DEF WriteFile, Place
  <1>5. /\ files' \in [Paths -> Projects \cup {None}]
        /\ files'[Place(c)] = call[c].project
        /\ \A q \in Paths : q # Place(c) => files'[q] = files[q]
    BY <1>2, <1>3, <1>4
  <1> DEFINE pc == IF call[c].path \in {None, Place(c)} THEN "map" ELSE "remove"
  <1>6. Goes(c, pc) /\ pc \in Pcs
    BY DEF WriteFile, Place, Pcs
  <1> HIDE DEF pc
  <1>7. MovesTo(c, pc, call[c].path, call[c].project)
    BY <1>6, GoesLemma, StoreFacts DEF MovesTo
  <1>8. closed' = IF call[c].project.status \in {"done", "archived"}
                  THEN closed \cup {o.change : o \in {files[Place(c)]} \ {None}} ELSE closed
    BY DEF WriteFile, Place
  <1>9. /\ closed \subseteq closed' /\ closed' \subseteq Changes \cup {None}
        /\ call[c].project.status \in {"done", "archived"} /\ files[Place(c)] # None =>
              files[Place(c)].change \in closed'
    <2>1. files[Place(c)] # None => files[Place(c)].change \in Changes \cup {None}
      BY <1>2, <1>3, ProjectFields
    <2> QED
      BY <1>3, <1>8, <2>1
  <1>10. UNCHANGED <<map, locks, crashes>>
    BY DEF WriteFile
  <1> QED
    BY <1>1, <1>5, <1>7, <1>9, <1>10 DEF pc

\* One file is removed.
LEMMA RemoveFileEffect ==
  ASSUME StoreInv, NEW c \in Calls, RemoveFile(c)
  PROVE  /\ call[c].pc = "remove" /\ call[c].pc \in Storing
         /\ call[c].path \in Paths
         /\ files' \in [Paths -> Projects \cup {None}]
         /\ files'[call[c].path] = None
         /\ \A q \in Paths : q # call[c].path => files'[q] = files[q]
         /\ MovesTo(c, "map", call[c].path, call[c].project)
         /\ UNCHANGED <<map, locks, closed, crashes>>
  <1>1. call[c].pc = "remove" /\ call[c].pc \in Storing
    BY DEF RemoveFile, Storing
  <1>2. call[c].path \in Paths
    BY <1>1, StoreFacts, CallFields DEF CallOK
  <1>3. files \in [Paths -> Projects \cup {None}]
    BY DEF StoreInv, StoreTypes
  <1>4. MovesTo(c, "map", call[c].path, call[c].project)
    BY GoesLemma, StoreFacts DEF RemoveFile, Pcs, MovesTo
  <1> QED
    BY <1>1, <1>2, <1>3, <1>4 DEF RemoveFile

\* One entry of the map changes, and the operation is over.
LEMMA WriteRecordEffect ==
  ASSUME StoreInv, NEW c \in Calls, WriteRecord(c)
  PROVE  /\ call[c].pc = "map" /\ call[c].pc \in Storing /\ IsFree("map")
         /\ map' \in [Channels -> Paths \cup {None}]
         /\ call[c].project.chan \in Channels
         /\ map'[call[c].project.chan] =
               IF call[c].project.status = "archived" THEN None ELSE Place(c)
         /\ \A ch \in Channels : ch # call[c].project.chan => map'[ch] = map[ch]
         /\ OnlyCall(c) /\ Answers(c, call'[c])
         /\ IF Op(c) = "update"
            THEN call'[c].pc = "ok" /\ call'[c].at = call[c].at
            ELSE \/ call'[c].pc = "error"
                 \/ /\ call'[c].pc = "start" /\ call'[c].at = call[c].at + 1
                    /\ Op(c) = "settle" => Serves(c, call[c].project)
         /\ Releases(Chan(c))
         /\ UNCHANGED <<files, closed, crashes>>
  <1>1. call[c].pc = "map" /\ call[c].pc \in Storing
    BY DEF WriteRecord, Storing
  <1>2. /\ call[c].project \in Projects /\ Place(c) \in Paths /\ call[c].pc # "new"
        /\ Op(c) \in {"create", "settle", "update"}
    BY <1>1, PlaceLemma
  <1>3. /\ call \in [Calls -> CallRecords] /\ call[c] \in CallRecords /\ CallOK(c)
    BY StoreFacts
  <1>4. map \in [Channels -> Paths \cup {None}] /\ call[c].project.chan \in Channels
    BY <1>2, ProjectFields DEF StoreInv, StoreTypes
  <1> DEFINE to == IF call[c].project.status = "archived" THEN None ELSE Place(c)
  <1>5. map' = [map EXCEPT ![call[c].project.chan] = to] /\ to \in Paths \cup {None}
    BY <1>2 DEF WriteRecord, Place
  <1> HIDE DEF to
  <1>6. /\ map' \in [Channels -> Paths \cup {None}]
        /\ map'[call[c].project.chan] = to
        /\ \A ch \in Channels : ch # call[c].project.chan => map'[ch] = map[ch]
    BY <1>4, <1>5
  <1>7. call' = [call EXCEPT ![c] = AfterWrite(c)]
    BY DEF WriteRecord
  <1>8. /\ Answers(c, AfterWrite(c))
        /\ IF Op(c) = "update"
           THEN AfterWrite(c).pc = "ok" /\ AfterWrite(c).at = call[c].at
           ELSE \/ AfterWrite(c).pc = "error"
                \/ /\ AfterWrite(c).pc = "start" /\ AfterWrite(c).at = call[c].at + 1
                   /\ Op(c) = "settle" => Serves(c, call[c].project)
    <2> DEFINE n == Len(Script(Kind(c)))
    <2>a. /\ Op(c) = "settle" => call[c].at = 3 /\ n = 5
          /\ Op(c) = "create" => call[c].at = 2 /\ n = 5
          /\ Op(c) = "update" => call[c].at = n
      BY <1>2, <1>3, MadeCall
    <2>1. CASE Op(c) = "settle"
      <3>1. AfterWrite(c) = GoesOnWith(c, call[c].project, 4)
        BY <2>1 DEF AfterWrite
      <3>2. n = 5 /\ call[c].at = 3
        BY <2>a, <2>1
      <3>3. LET f == GoesOnWith(c, call[c].project, 4)
            IN  /\ Answers(c, f)
                /\ IF Serves(c, call[c].project) THEN f.pc = "start" /\ f.at = 4 ELSE f.pc = "error"
        <4>1. 4 \in Nat \ {0} /\ 4 <= Len(Script(Kind(c)))
          <5>1. n = 5
            BY <3>2
          <5> HIDE DEF n
          <5>2. 4 <= n
            BY <5>1
          <5> QED
            BY <5>2 DEF n
        <4> QED
          BY <1>2, <1>3, <4>1, GoesOnLemma, Zenon
      <3>4. 4 = call[c].at + 1
        <4>1. call[c].at = 3
          BY <3>2
        <4> QED
          BY <4>1
      <3>5. \/ AfterWrite(c).pc = "error"
            \/ /\ AfterWrite(c).pc = "start" /\ AfterWrite(c).at = call[c].at + 1
               /\ Serves(c, call[c].project)
        BY <3>1, <3>3, <3>4, Zenon
      <3> QED
        BY <2>1, <3>1, <3>3, <3>5
    <2>2. CASE Op(c) = "create"
      <3>1. AfterWrite(c) = Following(c)
        BY <2>2 DEF AfterWrite
      <3>2. n = 5 /\ call[c].at = 2
        BY <2>a, <2>2
      <3>a. call[c].at # n
        BY <3>2
      <3>3. LET f == Following(c)
            IN  Answers(c, f) /\ f.pc = "start" /\ f.at = call[c].at + 1
        BY <1>2, <1>3, <3>a, FollowingLemma, Zenon
      <3> QED
        BY <2>2, <3>1, <3>3
    <2>3. CASE Op(c) = "update"
      <3>1. AfterWrite(c) = Following(c)
        BY <2>3 DEF AfterWrite
      <3>2. call[c].at = n
        BY <2>a, <2>3
      <3>3. LET f == Following(c)
            IN  Answers(c, f) /\ f.pc = "ok" /\ f.at = call[c].at
        BY <1>2, <1>3, <3>2, FollowingLemma
      <3> QED
        BY <2>3, <3>1, <3>3
    <2> QED
      BY <1>2, <2>1, <2>2, <2>3
  <1>9. OnlyCall(c) /\ call'[c] = AfterWrite(c)
    BY <1>3, <1>7, <1>8, AnswersLemma
  <1> HIDE DEF Serves
  <1> QED
    BY <1>1, <1>4, <1>6, <1>8, <1>9 DEF WriteRecord, to

\* The record of the repository is read.
LEMMA PeekEffect ==
  ASSUME StoreInv, NEW c \in Calls, Peek(c)
  PROVE  /\ call[c].pc = "start" /\ Kind(c) = "use" /\ call[c].at = 4
         /\ Repo(c) \in Repos /\ Repo(c) \in Paths
         /\ OnlyCall(c) /\ call'[c].pc = "start" /\ call'[c].at = 5 /\ call'[c].path = None
         /\ call'[c].gone = {}
         /\ call'[c].req = call[c].req /\ call'[c].project = call[c].project
         /\ call'[c].seen = files[Repo(c)]
         /\ UNCHANGED <<files, map, locks, closed, crashes>>
  <1>1. call \in [Calls -> CallRecords] /\ call[c] \in CallRecords /\ CallOK(c)
        /\ call[c].pc = "start" /\ call[c].pc # "new"
    BY StoreFacts DEF Peek
  <1>2. Op(c) = "peek"
    BY DEF Peek
  <1>3. Kind(c) = "use" /\ call[c].at = 4 /\ Len(Script(Kind(c))) = 5 /\ Repo(c) \in Repos
    BY <1>1, <1>2, MadeCall
  <1>4. /\ Answers(c, Following(c)) /\ Following(c).req = call[c].req
        /\ Following(c).pc = "start" /\ Following(c).at = 5
    BY <1>1, <1>3, FollowingLemma
  <1>5. Repo(c) \in Paths /\ files[Repo(c)] \in Projects \cup {None}
    BY <1>3 DEF Paths, StoreInv, StoreTypes
  <1> DEFINE g == Following(c)
             s == files[Repo(c)]
             f == [g EXCEPT !.seen = s]
  <1>6. call' = [call EXCEPT ![c] = f]
    BY DEF Peek
  <1>7. g \in CallRecords /\ g.path = None /\ g.gone = {} /\ g.project = call[c].project
    BY <1>4 DEF Answers
  <1>8. g.pc = "start" /\ g.at = 5 /\ g.req = call[c].req /\ s \in Projects \cup {None}
    BY <1>4, <1>5
  <1> HIDE DEF g, s
  <1>9. f \in CallRecords /\ f.seen = s /\ f.pc = g.pc /\ f.at = g.at /\ f.path = g.path
        /\ f.gone = g.gone /\ f.req = g.req /\ f.project = g.project
    BY <1>7, <1>8 DEF CallRecords
  <1> HIDE DEF f
  <1>10. OnlyCall(c) /\ call'[c] = f
    BY <1>1, <1>6, <1>9 DEF OnlyCall
  <1> QED
    BY <1>1, <1>3, <1>5, <1>7, <1>8, <1>9, <1>10 DEF Peek, s

\* The list takes the lock of the map.
LEMMA ListRecordsEffect ==
  ASSUME StoreInv, NEW c \in Calls, ListRecords(c)
  PROVE  /\ call[c].pc = "start" /\ Op(c) = "list" /\ IsFree("map") /\ Takes(c, "map")
         /\ MovesTo(c, "look", call[c].path, call[c].project)
         /\ call'[c].left = {ch \in Channels : map[ch] # None}
         /\ call'[c].gone = call[c].gone
         /\ UNCHANGED <<files, map, closed, crashes>>
  <1>1. call \in [Calls -> CallRecords] /\ call[c] \in CallRecords
    BY StoreFacts
  <1> DEFINE l == {ch \in Channels : map[ch] # None}
             f == [call[c] EXCEPT !.pc = "look", !.left = l]
  <1>2. l \in SUBSET Channels
    OBVIOUS
  <1>3. call' = [call EXCEPT ![c] = f]
    BY <1>1 DEF ListRecords
  <1> HIDE DEF l
  <1>4. f \in CallRecords
    BY <1>1, <1>2 DEF CallRecords, Pcs
  <1>5. /\ f.pc = "look" /\ f.left = l /\ f.req = call[c].req /\ f.at = call[c].at
        /\ f.path = call[c].path /\ f.project = call[c].project /\ f.seen = call[c].seen
        /\ f.gone = call[c].gone
    BY <1>1 DEF CallRecords
  <1> HIDE DEF f
  <1>6. OnlyCall(c) /\ call'[c] = f
    BY <1>1, <1>3, <1>4 DEF OnlyCall
  <1>7. MovesTo(c, "look", call[c].path, call[c].project)
    BY <1>5, <1>6 DEF MovesTo
  <1> QED
    BY <1>5, <1>6, <1>7 DEF ListRecords, l

\* The list reads one file, or finds it gone.
LEMMA LookAtEffect ==
  ASSUME StoreInv, NEW c \in Calls, NEW ch \in Channels, LookAt(c, ch)
  PROVE  /\ call[c].pc = "look" /\ ch \in call[c].left
         /\ map[ch] \in Paths
         /\ MovesTo(c, "look", call[c].path, call[c].project)
         /\ call'[c].left \subseteq call[c].left
         /\ call'[c].gone = IF files[map[ch]] = None THEN call[c].gone \cup {ch} ELSE call[c].gone
         /\ UNCHANGED <<files, map, locks, closed, crashes>>
  <1>1. call \in [Calls -> CallRecords] /\ call[c] \in CallRecords /\ CallOK(c)
        /\ call[c].pc = "look" /\ ch \in call[c].left
    BY StoreFacts DEF LookAt
  <1>2. map[ch] \in Paths
    <2>1. map[ch] # None
      BY <1>1 DEF CallOK
    <2> QED
      BY <2>1 DEF StoreInv, StoreTypes
  <1> DEFINE p == files[map[ch]]
             gone == IF p = None THEN call[c].gone \cup {ch} ELSE call[c].gone
             others == IF Kind(c) = "propose" /\ IsOther(c, p)
                       THEN {o \in call[c].others : o.id # p.id}
                            \cup {[id |-> p.id, status |-> p.status]}
                       ELSE call[c].others
             left == call[c].left \ {ch}
             f == [call[c] EXCEPT !.left = left, !.gone = gone, !.others = others]
  <1>3. p \in Projects \cup {None}
    BY <1>2 DEF StoreInv, StoreTypes
  <1>4. gone \in SUBSET Channels /\ left \in SUBSET Channels
    BY <1>1, CallFields
  <1>5. others \in SUBSET Others
    <2>1. call[c].others \subseteq Others
      BY <1>1, CallFields
    <2>2. CASE Kind(c) = "propose" /\ IsOther(c, p)
      <3>1. p \in Projects
        BY <1>3, <2>2 DEF IsOther
      <3>2. p.id \in Ids /\ p.status \in {"idle", "open", "done", "archived"}
        BY <3>1, ProjectFields
      <3> HIDE DEF p
      <3>3. [id |-> p.id, status |-> p.status] \in Others
        BY <3>2 DEF Others
      <3> QED
        BY <2>1, <2>2, <3>3
    <2>3. CASE ~(Kind(c) = "propose" /\ IsOther(c, p))
      <3> HIDE DEF p
      <3> QED
        BY <2>1, <2>3
    <2> QED
      BY <2>2, <2>3
  <1>6. call' = [call EXCEPT ![c] = f]
    <2>1. LookAt(c, ch)
      OBVIOUS
    <2> QED
      BY <1>1, <2>1 DEF LookAt
  <1>7. /\ files' = files /\ map' = map /\ locks' = locks /\ closed' = closed
        /\ crashes' = crashes
    BY DEF LookAt
  <1>8. gone = IF files[map[ch]] = None THEN call[c].gone \cup {ch} ELSE call[c].gone
    OBVIOUS
  <1>9. left \subseteq call[c].left
    OBVIOUS
  <1> HIDE DEF p, gone, others, left
  <1>10. f \in CallRecords
    BY <1>1, <1>4, <1>5 DEF CallRecords
  <1>11. /\ f.pc = call[c].pc /\ f.left = left /\ f.gone = gone
         /\ f.req = call[c].req /\ f.at = call[c].at
         /\ f.path = call[c].path /\ f.project = call[c].project /\ f.seen = call[c].seen
    BY <1>1 DEF CallRecords
  <1> HIDE DEF f
  <1>12. OnlyCall(c) /\ call'[c] = f
    BY <1>1, <1>6, <1>10 DEF OnlyCall
  <1>13. MovesTo(c, "look", call[c].path, call[c].project)
    BY <1>1, <1>11, <1>12 DEF MovesTo
  <1> QED
    BY <1>1, <1>2, <1>7, <1>8, <1>9, <1>11, <1>12, <1>13

\* The channels whose file is gone leave the map, and the list is over.
LEMMA PruneEffect ==
  ASSUME StoreInv, NEW c \in Calls, Prune(c)
  PROVE  /\ call[c].pc = "look" /\ Op(c) = "list"
         /\ map' \in [Channels -> Paths \cup {None}]
         /\ \A ch \in Channels : map'[ch] = IF ch \in call[c].gone THEN None ELSE map[ch]
         /\ OnlyCall(c) /\ Answers(c, call'[c])
         /\ \/ call'[c].pc = "error"
            \/ /\ Kind(c) = "list" /\ call'[c].pc = "ok"
            \/ /\ Kind(c) = "propose" /\ call'[c].pc = "start" /\ call'[c].at = call[c].at + 1
         /\ Releases("map")
         /\ UNCHANGED <<files, closed, crashes>>
  <1>1. call \in [Calls -> CallRecords] /\ call[c] \in CallRecords /\ CallOK(c)
        /\ call[c].pc = "look" /\ call[c].pc # "new"
    BY StoreFacts DEF Prune
  <1>2. Op(c) = "list"
    BY <1>1 DEF CallOK
  <1>3. /\ map' \in [Channels -> Paths \cup {None}]
        /\ \A ch \in Channels : map'[ch] = IF ch \in call[c].gone THEN None ELSE map[ch]
    BY DEF Prune, StoreInv, StoreTypes
  <1>4. PICK other \in Found(c) :
           call' = [call EXCEPT ![c] = IF other # None /\ HasOpenChange(other)
                                       THEN Refused(c) ELSE Following(c)]
    BY DEF Prune
  <1> DEFINE n == Len(Script(Kind(c)))
  <1>5. /\ Kind(c) = "list" \/ (call[c].at = 4 /\ Kind(c) = "propose")
        /\ Kind(c) = "list" => n = 1 /\ call[c].at = 1
        /\ Kind(c) = "propose" => n = 5
    <2>1. /\ Kind(c) = "list" \/ (call[c].at = 4 /\ Kind(c) = "propose")
          /\ call[c].at \in 1..n
      BY <1>1, <1>2, MadeCall
    <2>2. /\ Kind(c) = "list" => n = 1
          /\ Kind(c) = "propose" => n = 5
      BY <1>1, MadeCall
    <2> HIDE DEF n
    <2> QED
      BY <2>1, <2>2
  <1>6. /\ Answers(c, Following(c))
        /\ \/ Kind(c) = "list" /\ Following(c).pc = "ok"
           \/ /\ Kind(c) = "propose" /\ Following(c).pc = "start"
              /\ Following(c).at = call[c].at + 1
    <2>1. LET f == Following(c)
          IN  /\ Answers(c, f)
              /\ IF call[c].at = n
                 THEN f.pc = "ok" /\ f.at = call[c].at
                 ELSE f.pc = "start" /\ f.at = call[c].at + 1
      BY <1>1, FollowingLemma, Zenon
    <2> HIDE DEF n
    <2>2. CASE Kind(c) = "list"
      BY <1>5, <2>1, <2>2
    <2>3. CASE Kind(c) = "propose" /\ call[c].at = 4
      BY <1>5, <2>1, <2>3
    <2> QED
      BY <1>5, <2>2, <2>3
  <1>7. Answers(c, Refused(c)) /\ Refused(c).pc = "error"
    BY <1>1, RefusedLemma
  <1>8. \/ call' = [call EXCEPT ![c] = Refused(c)]
        \/ call' = [call EXCEPT ![c] = Following(c)]
    <2>1. CASE other # None /\ HasOpenChange(other)
      BY <1>4, <2>1
    <2>2. CASE ~(other # None /\ HasOpenChange(other))
      BY <1>4, <2>2
    <2> QED
      BY <2>1, <2>2
  <1>9. CASE call' = [call EXCEPT ![c] = Refused(c)]
    <2>1. OnlyCall(c) /\ call'[c] = Refused(c)
      BY <1>1, <1>7, <1>9, AnswersLemma
    <2> QED
      BY <1>1, <1>2, <1>3, <1>7, <2>1 DEF Prune
  <1>10. CASE call' = [call EXCEPT ![c] = Following(c)]
    <2>1. OnlyCall(c) /\ call'[c] = Following(c)
      BY <1>1, <1>6, <1>10, AnswersLemma
    <2> QED
      BY <1>1, <1>2, <1>3, <1>6, <2>1 DEF Prune
  <1> QED
    BY <1>8, <1>9, <1>10

\* A request is made.
LEMMA BeginEffect ==
  ASSUME StoreInv, NEW c \in Calls, Begin(c)
  PROVE  /\ call[c].pc = "new" /\ call[c] = NewCall
         /\ OnlyCall(c) /\ call'[c].pc = "start" /\ call'[c].at = 1 /\ call'[c].path = None
         /\ call'[c].gone = {} /\ call'[c].project = None /\ call'[c].seen = None
         /\ call'[c].req \in Requests /\ call'[c].req # None /\ MayBegin(call'[c].req)
         /\ call'[c].req.kind = "use" => call'[c].req.repo \in Repos
         /\ call'[c].req.kind \in KindNames /\ call'[c].req.chan \in Channels
         /\ UNCHANGED <<files, map, locks, closed, crashes>>
  <1>1. call \in [Calls -> CallRecords] /\ call[c] \in CallRecords /\ call[c] = NewCall
        /\ call[c].pc = "new"
    BY StoreFacts DEF Begin, CallOK
  <1>2. PICK req \in Requests :
           MayBegin(req) /\ call' = [call EXCEPT ![c].req = req, ![c].pc = "start"]
    BY DEF Begin
  <1>3. /\ req \in AnyRequest /\ req # None
        /\ req.kind = "use" => req.repo \in Repos
        /\ req.kind \in KindNames /\ req.chan \in Channels
    <2>1. req \in AnyRequest /\ (req.kind = "use" <=> req.repo # None)
      BY DEF Requests
    <2>2. req # None
      BY <2>1, NamesAssumption
    <2>3. req.kind \in Kinds /\ req.chan \in Channels /\ req.repo \in Repos \cup {None}
      BY <2>1 DEF AnyRequest
    <2> QED
      BY <2>1, <2>2, <2>3, StoreAssumption DEF KindNames
  <1> DEFINE f == [call[c] EXCEPT !.req = req, !.pc = "start"]
  <1>4. call' = [call EXCEPT ![c] = f]
    BY <1>1, <1>2
  <1>5. f \in CallRecords
    BY <1>1, <1>3 DEF CallRecords, Pcs
  <1>6. /\ f.pc = "start" /\ f.req = req /\ f.at = 1 /\ f.path = None /\ f.gone = {}
        /\ f.project = None /\ f.seen = None
    BY <1>1 DEF NewCall
  <1> HIDE DEF f
  <1>7. OnlyCall(c) /\ call'[c] = f
    BY <1>1, <1>4, <1>5 DEF OnlyCall
  <1>8. UNCHANGED <<files, map, locks, closed, crashes>>
    BY DEF Begin
  <1> QED
    BY <1>1, <1>2, <1>3, <1>6, <1>7, <1>8

-----------------------------------------------------------------------------
(* The types stay.                                                         *)

\* A call that is elsewhere in its operation is in order.
LEMMA MovesOK ==
  ASSUME StoreInv, NEW c \in Calls, call[c].pc # "new", NEW pc, NEW path, NEW project,
         MovesTo(c, pc, path, project)
  PROVE  /\ Kind(c)' = Kind(c) /\ Chan(c)' = Chan(c) /\ Repo(c)' = Repo(c) /\ Op(c)' = Op(c)
         /\ /\ pc \in Locked /\ Op(c) \in {"get", "create", "settle", "update"}
            /\ pc \in Storing => Op(c) # "get" /\ project # None
            /\ pc \in {"file", "drop", "remove"} => path # None
            => CallOK(c)'
  <1>1. CallOK(c)
    BY StoreFacts
  <1>2. Kind(c)' = Kind(c) /\ Chan(c)' = Chan(c) /\ Repo(c)' = Repo(c) /\ Op(c)' = Op(c)
    BY DEF MovesTo, Kind, Chan, Repo, Op
  <1>3. "new" \notin Locked /\ "look" \notin Locked /\ "start" \notin Locked
    BY DEF Locked, Storing
  <1> QED
    BY <1>1, <1>2, <1>3 DEF MovesTo, CallOK

\* The files stay where they belong, while no call takes up a wrong place.
LEMMA PlacedStays ==
  ASSUME FilesPlaced, NEW c \in Calls, OnlyCall(c), files' = files,
         \/ call'[c].pc # "write"
         \/ call'[c].project.repo = None => call'[c].path \notin Repos
  PROVE  FilesPlaced'
  BY DEF FilesPlaced, OnlyCall

\* The parts of the invariant, after a step of one call.
LEMMA StoreInvLemma ==
  ASSUME StoreInv, NEW c \in Calls, OnlyCall(c), CallOK(c)', LocksHeld', FilesPlaced',
         files' \in [Paths -> Projects \cup {None}], map' \in [Channels -> Paths \cup {None}],
         map' = map \/ \A d \in Calls : d # c => call[d].pc # "look",
         locks' \in [Locks -> Calls \cup {None}], closed' \subseteq Changes \cup {None},
         crashes' = crashes
  PROVE  StoreInv'
  <1>1. \A d \in Calls : CallOK(d)'
    BY OtherCalls DEF StoreInv
  <1> QED
    BY <1>1 DEF StoreInv, StoreTypes, OnlyCall

\* A release of a lock keeps the types.
LEMMA ReleaseType ==
  ASSUME StoreInv, NEW l, Releases(l)
  PROVE  locks' \in [Locks -> Calls \cup {None}]
  BY DEF StoreInv, StoreTypes, Releases

\* A request that is made keeps the invariant.
LEMMA BeginStore ==
  ASSUME StoreInv, NEW c \in Calls, Begin(c)
  PROVE  StoreInv'
  <1>1. /\ call[c].pc = "new" /\ OnlyCall(c) /\ call'[c].pc = "start" /\ call'[c].at = 1
        /\ call'[c].path = None /\ call'[c].gone = {}
        /\ call'[c].req # None
        /\ call'[c].req.kind = "use" => call'[c].req.repo \in Repos
        /\ call'[c].req.kind \in KindNames
        /\ UNCHANGED <<files, map, locks, closed, crashes>>
    BY BeginEffect
  <1>2. 1 \in 1..Len(Script(call'[c].req.kind))
    <2> DEFINE k == call'[c].req.kind
               n == Len(Script(k))
    <2>1. n \in {1, 2, 5}
      <3>1. k \in KindNames
        BY <1>1
      <3> HIDE DEF k
      <3> QED
        BY <3>1, ScriptLemma DEF KindNames
    <2> HIDE DEF n
    <2>2. 1 \in 1..n
      BY <2>1
    <2> QED
      BY <2>2 DEF n
  <1>3. CallOK(c)'
    BY <1>1, <1>2 DEF CallOK, Kind, Repo, Locked, Storing
  <1>4. LocksHeld'
    <2>1. call[c].pc \notin Locked \cup {"look"} /\ call'[c].pc \notin Locked \cup {"look"}
      BY <1>1 DEF Locked, Storing
    <2> QED
      BY <1>1, <2>1, KeepsLock DEF StoreInv, StoreTypes
  <1>5. FilesPlaced'
    BY <1>1, PlacedStays DEF StoreInv
  <1> QED
    BY <1>1, <1>3, <1>4, <1>5, StoreInvLemma DEF StoreInv, StoreTypes

\* The lock of a channel is taken when it is free.
LEMMA LockChannelStore ==
  ASSUME StoreInv, NEW c \in Calls, LockChannel(c)
  PROVE  StoreInv' /\ MovesTo(c, "record", call[c].path, call[c].project) /\ call[c].pc = "start"
         /\ UNCHANGED <<files, map, closed, crashes>>
         /\ Op(c) \in {"get", "create", "settle", "update"} /\ IsFree(Chan(c))
  <1>1. /\ call[c].pc = "start" /\ Op(c) \in {"get", "create", "settle", "update"}
        /\ IsFree(Chan(c)) /\ Takes(c, Chan(c)) /\ Goes(c, "record")
        /\ UNCHANGED <<files, map, closed, crashes>>
    BY DEF LockChannel, CanLockChannel
  <1>2. MovesTo(c, "record", call[c].path, call[c].project)
    BY <1>1, GoesLemma, StoreFacts DEF MovesTo, Pcs
  <1>3. CallOK(c)' /\ Chan(c)' = Chan(c)
    BY <1>1, <1>2, MovesOK DEF Locked, Storing
  <1>4. OnlyCall(c) /\ call'[c].pc = "record" /\ Chan(c) \in Locks
    BY <1>1, <1>2, StoreFacts DEF MovesTo
  <1>5. LocksHeld'
    <2>1. call[c].pc \notin Locked \cup {"look"} /\ call'[c].pc \in Locked
      BY <1>1, <1>4 DEF Locked, Storing
    <2> QED
      BY <1>1, <1>3, <1>4, <2>1, StoreFacts, TakesLock DEF StoreInv
  <1>6. FilesPlaced'
    BY <1>1, <1>4, PlacedStays DEF StoreInv
  <1>7. locks' \in [Locks -> Calls \cup {None}]
    BY <1>1 DEF StoreInv, StoreTypes, Takes
  <1> QED
    BY <1>1, <1>2, <1>3, <1>4, <1>5, <1>6, <1>7, StoreInvLemma DEF StoreInv, StoreTypes

\* An operation that is over: its call is answered and its lock given up.
LEMMA AnswerStore ==
  ASSUME StoreInv, NEW c \in Calls, call[c].pc \in Locked, OnlyCall(c), Answers(c, call'[c]),
         Releases(Chan(c)),
         files' = files, map' \in [Channels -> Paths \cup {None}],
         map' = map \/ IsFree("map"), closed' = closed, crashes' = crashes
  PROVE  StoreInv'
  <1>1. call[c].pc # "new" /\ call[c].pc # "look"
    BY DEF Locked, Storing
  <1>2. /\ call[c] \in CallRecords /\ CallOK(c) /\ Chan(c) \in Locks
        /\ Kind(c) = "use" => Repo(c) \in Repos
    BY <1>1, StoreFacts DEF CallOK
  <1>3. CallOK(c)' /\ call'[c].pc \notin Locked \cup {"look", "new"}
    BY <1>2, AnsweredOK
  <1>4. LocksHeld'
    BY <1>2, <1>3, StoreFacts, ReleasesLock DEF StoreInv
  <1>5. FilesPlaced'
    BY <1>3, PlacedStays DEF StoreInv, Locked, Storing
  <1>6. locks' \in [Locks -> Calls \cup {None}]
    BY ReleaseType
  <1>7. map' = map \/ \A d \in Calls : call[d].pc # "look"
    BY NoLook DEF StoreInv
  <1> QED
    BY <1>3, <1>4, <1>5, <1>6, <1>7, StoreInvLemma DEF StoreInv, StoreTypes

\* An operation that goes on with the lock of its channel.
LEMMA MovesStore ==
  ASSUME StoreInv, NEW c \in Calls, call[c].pc \in Locked, NEW pc \in Locked, NEW path, NEW project,
         MovesTo(c, pc, path, project), locks' = locks,
         pc \in Storing => Op(c) # "get" /\ project # None,
         pc \in {"file", "drop", "remove"} => path # None,
         FilesPlaced', files' \in [Paths -> Projects \cup {None}],
         map' \in [Channels -> Paths \cup {None}],
         map' = map \/ IsFree("map"), closed' \subseteq Changes \cup {None}, crashes' = crashes
  PROVE  StoreInv'
  <1>1. call[c].pc # "new" /\ call[c].pc # "look"
    BY DEF Locked, Storing
  <1>2. CallOK(c) /\ Op(c) \in {"get", "create", "settle", "update"}
    BY <1>1, StoreFacts DEF CallOK
  <1>3. CallOK(c)' /\ Chan(c)' = Chan(c)
    BY <1>1, <1>2, MovesOK
  <1>4. OnlyCall(c) /\ call'[c].pc = pc
    BY DEF MovesTo
  <1>5. LocksHeld'
    BY <1>3, <1>4, StoreFacts, KeepsLock DEF StoreInv
  <1>6. map' = map \/ \A d \in Calls : call[d].pc # "look"
    BY NoLook DEF StoreInv
  <1>7. locks' \in [Locks -> Calls \cup {None}]
    BY DEF StoreInv, StoreTypes
  <1> QED
    BY <1>3, <1>4, <1>5, <1>6, <1>7, StoreInvLemma

\* An operation without a project keeps the invariant.
LEMMA NoProjectStore ==
  ASSUME StoreInv, NEW c \in Calls, call[c].pc \in {"record", "drop"}, NoProject(c),
         files' = files, map' \in [Channels -> Paths \cup {None}], IsFree("map"),
         closed' = closed, crashes' = crashes
  PROVE  StoreInv'
  <1>1. call[c].pc \in Locked /\ "write" \in Locked /\ call[c].pc # "new" /\ "write" \in Storing
    BY DEF Locked, Storing
  <1>2. CASE OnlyCall(c) /\ Answers(c, call'[c]) /\ Releases(Chan(c))
    BY <1>1, <1>2, AnswerStore
  <1>3. CASE Op(c) = "create" /\ MovesTo(c, "write", None, Created(c)) /\ locks' = locks
    <2>1. Created(c) \in Projects /\ Created(c) # None
      BY <1>1, StoreFacts, CreatedLemma, ProjectFields
    <2>2. FilesPlaced'
      <3>1. OnlyCall(c) /\ call'[c].path = None
        BY <1>3 DEF MovesTo
      <3> QED
        BY <3>1, NamesAssumption, PlacedStays DEF StoreInv
    <2>3. Op(c) # "get"
      BY <1>3
    <2>4. files' \in [Paths -> Projects \cup {None}] /\ closed' \subseteq Changes \cup {None}
      BY DEF StoreInv, StoreTypes
    <2> QED
      BY <1>1, <1>3, <2>1, <2>2, <2>3, <2>4, MovesStore
  <1> QED
    BY <1>2, <1>3, NoProjectEffect

\* So does reading an entry, ...
LEMMA ReadRecordStore ==
  ASSUME StoreInv, NEW c \in Calls, ReadRecord(c)
  PROVE  StoreInv'
  <1>1. /\ call[c].pc = "record" /\ IsFree("map")
        /\ UNCHANGED <<files, map, closed, crashes>>
        /\ \/ NoProject(c)
           \/ /\ map[Chan(c)] # None /\ locks' = locks
              /\ MovesTo(c, "file", map[Chan(c)], call[c].project)
    BY ReadRecordEffect
  <1>2. /\ files' \in [Paths -> Projects \cup {None}] /\ map' \in [Channels -> Paths \cup {None}]
        /\ closed' \subseteq Changes \cup {None}
    BY <1>1 DEF StoreInv, StoreTypes
  <1>3. CASE NoProject(c)
    BY <1>1, <1>2, <1>3, NoProjectStore
  <1>4. CASE /\ map[Chan(c)] # None /\ locks' = locks
             /\ MovesTo(c, "file", map[Chan(c)], call[c].project)
    <2>1. FilesPlaced'
      BY <1>1, <1>4, PlacedStays DEF StoreInv, MovesTo
    <2>2. call[c].pc \in Locked /\ "file" \in Locked /\ "file" \notin Storing
      BY <1>1 DEF Locked, Storing
    <2> QED
      BY <1>1, <1>2, <1>4, <2>1, <2>2, MovesStore
  <1> QED
    BY <1>1, <1>3, <1>4

\* ... reading a state file, ...
LEMMA ReadFileStore ==
  ASSUME StoreInv, NEW c \in Calls, ReadFile(c)
  PROVE  StoreInv'
  <1> DEFINE cur == files[call[c].path]
  <1>1. /\ call[c].pc = "file" /\ call[c].path \in Paths /\ cur \in Projects \cup {None}
        /\ UNCHANGED <<files, map, closed, crashes>>
    BY ReadFileEffect
  <1>2. /\ files' \in [Paths -> Projects \cup {None}] /\ map' \in [Channels -> Paths \cup {None}]
        /\ closed' \subseteq Changes \cup {None}
    BY <1>1 DEF StoreInv, StoreTypes
  <1>3. /\ call[c].pc \in Locked /\ "drop" \in Locked /\ "write" \in Locked /\ call[c].pc # "new"
        /\ "drop" \notin Storing /\ "write" \in Storing
    BY <1>1 DEF Locked, Storing
  <1>4. call[c].path # None
    BY <1>1, StoreFacts DEF CallOK
  <1>5. CASE locks' = locks /\ MovesTo(c, "drop", call[c].path, call[c].project)
    <2>1. FilesPlaced'
      BY <1>1, <1>5, PlacedStays DEF StoreInv, MovesTo
    <2> QED
      BY <1>1, <1>2, <1>3, <1>4, <1>5, <2>1, MovesStore
  <1>6. CASE OnlyCall(c) /\ Answers(c, call'[c]) /\ Releases(Chan(c))
    BY <1>1, <1>2, <1>3, <1>6, AnswerStore
  <1>7. CASE Op(c) = "create" /\ MovesTo(c, "write", None, Created(c)) /\ locks' = locks
    <2>1. Created(c) \in Projects /\ Created(c) # None
      BY <1>3, StoreFacts, CreatedLemma, ProjectFields
    <2>2. FilesPlaced'
      <3>1. OnlyCall(c) /\ call'[c].path = None
        BY <1>7 DEF MovesTo
      <3> QED
        BY <1>1, <3>1, NamesAssumption, PlacedStays DEF StoreInv
    <2>3. Op(c) # "get"
      BY <1>7
    <2> QED
      BY <1>1, <1>2, <1>3, <1>7, <2>1, <2>2, <2>3, MovesStore
  <1>8. CASE /\ cur # None /\ Op(c) \in {"settle", "update"} /\ locks' = locks
             /\ MovesTo(c, "write", call[c].path, Updated(c, cur))
    <2>1. cur \in Projects
      BY <1>1, <1>8
    <2> HIDE DEF cur
    <2>2. /\ Updated(c, cur) \in Projects /\ Updated(c, cur) # None
          /\ Updated(c, cur).repo = None => cur.repo = None
      <3>1. call[c] \in CallRecords /\ CallOK(c)
        BY StoreFacts
      <3>2. Kind(c) = "use" => Repo(c) # None
        BY <1>3, <3>1, MadeCall, NamesAssumption
      <3> QED
        BY <1>3, <1>8, <2>1, <3>1, <3>2, UpdatedLemma, ProjectFields
    <2>3. FilesPlaced'
      <3>1. OnlyCall(c) /\ call'[c].path = call[c].path /\ call'[c].project = Updated(c, cur)
        BY <1>8 DEF MovesTo
      <3>2. cur.repo = IF call[c].path \in Repos THEN call[c].path ELSE None
        BY <1>1, <1>8 DEF cur, StoreInv, FilesPlaced
      <3>3. call'[c].project.repo = None => call'[c].path \notin Repos
        BY <2>2, <3>1, <3>2, NamesAssumption
      <3> QED
        BY <1>1, <3>1, <3>3, PlacedStays DEF StoreInv
    <2>4. Op(c) # "get"
      BY <1>8
    <2> QED
      BY <1>1, <1>2, <1>3, <1>8, <2>2, <2>3, <2>4, MovesStore
  <1> HIDE DEF cur
  <1> QED
    BY <1>5, <1>6, <1>7, <1>8, ReadFileEffect DEF cur

\* ... and dropping an entry.
LEMMA DropRecordStore ==
  ASSUME StoreInv, NEW c \in Calls, DropRecord(c)
  PROVE  StoreInv'
  BY DropRecordEffect, NoProjectStore

\* A record is written where its repository is.
LEMMA WriteFileStore ==
  ASSUME StoreInv, NEW c \in Calls, WriteFile(c)
  PROVE  StoreInv'
  <1> DEFINE pc == IF call[c].path \in {None, Place(c)} THEN "map" ELSE "remove"
  <1>1. /\ call[c].pc = "write" /\ call[c].pc \in Storing
        /\ files' \in [Paths -> Projects \cup {None}]
        /\ files'[Place(c)] = call[c].project
        /\ \A q \in Paths : q # Place(c) => files'[q] = files[q]
        /\ MovesTo(c, pc, call[c].path, call[c].project)
        /\ closed' \subseteq Changes \cup {None}
        /\ UNCHANGED <<map, locks, crashes>>
    BY WriteFileEffect
  <1>2. /\ call[c].project \in Projects /\ Place(c) \in Paths /\ call[c].path \in Paths \cup {None}
        /\ call[c].project.repo # None => Place(c) = call[c].project.repo /\ Place(c) \in Repos
        /\ call[c].project.repo = None /\ call[c].path # None => Place(c) = call[c].path
        /\ call[c].project.repo = None /\ call[c].path = None => Place(c) \notin Repos
        /\ Op(c) \in {"create", "settle", "update"}
    BY <1>1, PlaceLemma
  <1>3. pc \in Locked /\ call[c].pc \in Locked /\ pc # "write" /\ pc \notin {"file", "drop"}
        /\ (pc = "remove" => call[c].path # None)
    BY DEF WriteFile, Locked, Storing
  <1> HIDE DEF pc
  <1>4. FilesPlaced'
    <2>1. files'[Place(c)].repo = IF Place(c) \in Repos THEN Place(c) ELSE None
      <3>1. CASE call[c].project.repo # None
        BY <1>1, <1>2, <3>1
      <3>2. CASE call[c].project.repo = None
        <4>1. call[c].path \notin Repos
          BY <1>1, <3>2 DEF StoreInv, FilesPlaced
        <4> QED
          BY <1>1, <1>2, <3>2, <4>1
      <3> QED
        BY <3>1, <3>2
    <2>2. ASSUME NEW q \in Paths, files'[q] # None
          PROVE  files'[q].repo = IF q \in Repos THEN q ELSE None
      <3>1. CASE q = Place(c)
        BY <2>1, <3>1
      <3>2. CASE q # Place(c)
        BY <1>1, <2>2, <3>2 DEF StoreInv, FilesPlaced
      <3> QED
        BY <3>1, <3>2
    <2>3. ASSUME NEW d \in Calls, call'[d].pc = "write", call'[d].project.repo = None
          PROVE  call'[d].path \notin Repos
      <3>1. d # c
        BY <1>1, <1>3, <2>3 DEF MovesTo
      <3>2. call'[d] = call[d]
        BY <1>1, <3>1 DEF MovesTo, OnlyCall
      <3> QED
        BY <2>3, <3>2 DEF StoreInv, FilesPlaced
    <2> QED
      BY <2>2, <2>3 DEF FilesPlaced
  <1>5. call[c].project # None /\ Op(c) # "get"
    BY <1>2, ProjectFields
  <1>6. map' \in [Channels -> Paths \cup {None}]
    BY <1>1 DEF StoreInv, StoreTypes
  <1> QED
    BY <1>1, <1>3, <1>4, <1>5, <1>6, MovesStore

\* Removing a file keeps the invariant, ...
LEMMA RemoveFileStore ==
  ASSUME StoreInv, NEW c \in Calls, RemoveFile(c)
  PROVE  StoreInv'
  <1>1. /\ call[c].pc = "remove" /\ call[c].pc \in Storing /\ call[c].path \in Paths
        /\ files' \in [Paths -> Projects \cup {None}]
        /\ files'[call[c].path] = None
        /\ \A q \in Paths : q # call[c].path => files'[q] = files[q]
        /\ MovesTo(c, "map", call[c].path, call[c].project)
        /\ UNCHANGED <<map, locks, closed, crashes>>
    BY RemoveFileEffect
  <1>2. /\ call[c].project \in Projects /\ Op(c) \in {"create", "settle", "update"}
    BY <1>1, PlaceLemma
  <1>3. "map" \in Locked /\ call[c].pc \in Locked
    BY <1>1 DEF Locked, Storing
  <1>4. FilesPlaced'
    <2>1. ASSUME NEW d \in Calls, call'[d].pc = "write"
          PROVE  call'[d] = call[d]
      BY <1>1, <2>1 DEF MovesTo, OnlyCall
    <2>2. ASSUME NEW q \in Paths, files'[q] # None
          PROVE  files'[q] = files[q]
      BY <1>1, <2>2
    <2> QED
      BY <2>1, <2>2 DEF StoreInv, FilesPlaced
  <1>5. call[c].project # None /\ Op(c) # "get"
    BY <1>2, ProjectFields
  <1>6. map' \in [Channels -> Paths \cup {None}] /\ closed' \subseteq Changes \cup {None}
    BY <1>1 DEF StoreInv, StoreTypes
  <1> QED
    BY <1>1, <1>3, <1>4, <1>5, <1>6, MovesStore

\* ... entering one in the map, ...
LEMMA WriteRecordStore ==
  ASSUME StoreInv, NEW c \in Calls, WriteRecord(c)
  PROVE  StoreInv'
  <1>1. call[c].pc \in Locked
    BY DEF WriteRecord, Locked, Storing
  <1> QED
    BY <1>1, WriteRecordEffect, AnswerStore

\* ... reading the record of a repository, ...
LEMMA PeekStore ==
  ASSUME StoreInv, NEW c \in Calls, Peek(c)
  PROVE  StoreInv'
  <1>1. /\ call[c].pc = "start" /\ Kind(c) = "use" /\ Repo(c) \in Repos
        /\ OnlyCall(c) /\ call'[c].pc = "start" /\ call'[c].at = 5
        /\ call'[c].path = None /\ call'[c].gone = {}
        /\ call'[c].req = call[c].req
        /\ UNCHANGED <<files, map, locks, closed, crashes>>
    BY PeekEffect
  <1>2. CallOK(c)'
    <2>1. CallOK(c) /\ Len(Script(Kind(c))) = 5
      BY <1>1, StoreFacts, MadeCall
    <2>2. Kind(c)' = Kind(c) /\ Repo(c)' = Repo(c)
      BY <1>1 DEF Kind, Repo
    <2>3. 5 \in 1..Len(Script(Kind(c)))
      BY <2>1
    <2> QED
      BY <1>1, <2>1, <2>2, <2>3 DEF CallOK, Locked, Storing
  <1>3. call[c].pc \notin Locked \cup {"look"} /\ call'[c].pc \notin Locked \cup {"look"}
    BY <1>1 DEF Locked, Storing
  <1>4. LocksHeld'
    BY <1>1, <1>3, KeepsLock DEF StoreInv, StoreTypes
  <1>5. FilesPlaced'
    BY <1>1, PlacedStays DEF StoreInv
  <1> QED
    BY <1>1, <1>2, <1>4, <1>5, StoreInvLemma DEF StoreInv, StoreTypes

\* ... and reading the list, ...
LEMMA ListRecordsStore ==
  ASSUME StoreInv, NEW c \in Calls, ListRecords(c)
  PROVE  StoreInv'
  <1>1. /\ call[c].pc = "start" /\ Op(c) = "list" /\ IsFree("map") /\ Takes(c, "map")
        /\ MovesTo(c, "look", call[c].path, call[c].project)
        /\ call'[c].left = {ch \in Channels : map[ch] # None}
        /\ UNCHANGED <<files, map, closed, crashes>>
    BY ListRecordsEffect
  <1>2. OnlyCall(c) /\ call'[c].pc = "look" /\ call'[c].req = call[c].req
        /\ call'[c].at = call[c].at
    BY <1>1 DEF MovesTo
  <1>3. CallOK(c)'
    <2>1. CallOK(c) /\ Op(c)' = Op(c) /\ Kind(c)' = Kind(c) /\ Repo(c)' = Repo(c)
      BY <1>1, StoreFacts, MovesOK
    <2> QED
      BY <1>1, <1>2, <2>1 DEF CallOK, Locked, Storing
  <1>4. LocksHeld'
    <2>1. call[c].pc \notin Locked \cup {"look"} /\ "map" \in Locks
      BY <1>1 DEF Locked, Storing, Locks
    <2> QED
      BY <1>1, <1>2, <2>1, StoreFacts, TakesLock DEF StoreInv
  <1>5. FilesPlaced'
    BY <1>1, <1>2, PlacedStays DEF StoreInv
  <1>6. locks' \in [Locks -> Calls \cup {None}]
    BY <1>1 DEF StoreInv, StoreTypes, Takes
  <1> QED
    BY <1>1, <1>2, <1>3, <1>4, <1>5, <1>6, StoreInvLemma DEF StoreInv, StoreTypes

\* ... file after file, ...
LEMMA LookAtStore ==
  ASSUME StoreInv, NEW c \in Calls, NEW ch \in Channels, LookAt(c, ch)
  PROVE  StoreInv'
  <1>1. /\ call[c].pc = "look"
        /\ MovesTo(c, "look", call[c].path, call[c].project)
        /\ call'[c].left \subseteq call[c].left
        /\ UNCHANGED <<files, map, locks, closed, crashes>>
    BY LookAtEffect
  <1>2. OnlyCall(c) /\ call'[c].pc = "look" /\ call'[c].req = call[c].req
        /\ call'[c].at = call[c].at
    BY <1>1 DEF MovesTo
  <1>3. CallOK(c)'
    <2>1. CallOK(c) /\ Op(c)' = Op(c) /\ Kind(c)' = Kind(c) /\ Repo(c)' = Repo(c)
      BY <1>1, StoreFacts, MovesOK
    <2> QED
      BY <1>1, <1>2, <2>1 DEF CallOK, Locked, Storing
  <1>4. LocksHeld'
    BY <1>1, <1>2, StoreFacts, KeepsLock DEF StoreInv
  <1>5. FilesPlaced'
    BY <1>1, <1>2, PlacedStays DEF StoreInv
  <1> QED
    BY <1>1, <1>2, <1>3, <1>4, <1>5, StoreInvLemma DEF StoreInv, StoreTypes

\* ... and dropping what is gone.
LEMMA PruneStore ==
  ASSUME StoreInv, NEW c \in Calls, Prune(c)
  PROVE  StoreInv'
  <1>1. /\ call[c].pc = "look" /\ call[c].pc # "new"
        /\ map' \in [Channels -> Paths \cup {None}]
        /\ OnlyCall(c) /\ Answers(c, call'[c]) /\ Releases("map")
        /\ UNCHANGED <<files, closed, crashes>>
    BY PruneEffect
  <1>2. CallOK(c)' /\ call'[c].pc \notin Locked \cup {"look", "new"}
    <2>1. Kind(c) = "use" => Repo(c) \in Repos
      BY <1>1, StoreFacts DEF CallOK
    <2> QED
      BY <1>1, <2>1, AnsweredOK
  <1>3. LocksHeld'
    <2>1. "map" \in Locks
      BY DEF Locks
    <2> QED
      BY <1>1, <1>2, <2>1, StoreFacts, ReleasesLock DEF StoreInv
  <1>4. FilesPlaced'
    BY <1>1, <1>2, PlacedStays DEF StoreInv, Locked, Storing
  <1>5. \A d \in Calls : d # c => call[d].pc # "look"
    BY <1>1, OneHolder DEF StoreInv
  <1>6. locks' \in [Locks -> Calls \cup {None}]
    BY <1>1, ReleaseType
  <1> QED
    BY <1>1, <1>2, <1>3, <1>4, <1>5, <1>6, StoreInvLemma DEF StoreInv, StoreTypes

\* A crash ends the calls under way and frees the locks.
LEMMA CrashEffect ==
  ASSUME StoreInv, Crash
  PROVE  /\ call' \in [Calls -> CallRecords]
         /\ \A c \in Calls : ~InFlight(c) => call'[c] = call[c]
         /\ \A c \in Calls : InFlight(c) =>
               /\ call'[c].pc = "dead" /\ call'[c].req = call[c].req /\ call'[c].at = call[c].at
               /\ call'[c].project = call[c].project /\ call'[c].path = call[c].path
               /\ call'[c].seen = call[c].seen
         /\ \A c \in Calls : call'[c].pc \in {"new"} \cup Ended
         /\ \A c \in Calls : call[c].pc # "new" <=> call'[c].pc # "new"
         /\ locks' = [l \in Locks |-> None] /\ crashes' \in 0..MaxCrashes
         /\ UNCHANGED <<files, map, closed>>
  <1>1. ASSUME NEW c \in Calls
        PROVE  LET f == IF InFlight(c) THEN [call[c] EXCEPT !.pc = "dead"] ELSE call[c]
               IN  /\ f \in CallRecords
                   /\ ~InFlight(c) => f = call[c]
                   /\ InFlight(c) =>
                        /\ f.pc = "dead" /\ f.req = call[c].req /\ f.at = call[c].at
                        /\ f.project = call[c].project /\ f.path = call[c].path
                        /\ f.seen = call[c].seen
                   /\ f.pc \in {"new"} \cup Ended
                   /\ call[c].pc # "new" <=> f.pc # "new"
    <2>1. call[c] \in CallRecords
      BY StoreFacts
    <2>2. CASE InFlight(c)
      BY <2>1, <2>2 DEF CallRecords, Pcs, Ended, InFlight
    <2>3. CASE ~InFlight(c)
      <3>1. call[c].pc \in {"new"} \cup Ended
        BY <2>3 DEF InFlight
      <3> QED
        BY <2>1, <2>3, <3>1
    <2> QED
      BY <2>2, <2>3
  <1>2. call' = [c \in Calls |-> IF InFlight(c) THEN [call[c] EXCEPT !.pc = "dead"] ELSE call[c]]
    BY DEF Crash
  <1>3. /\ locks' = [l \in Locks |-> None] /\ crashes' \in 0..MaxCrashes
        /\ UNCHANGED <<files, map, closed>>
    BY StoreAssumption DEF Crash, StoreInv, StoreTypes
  <1> QED
    BY <1>1, <1>2, <1>3

\* A crash keeps the invariant.
LEMMA CrashStore ==
  ASSUME StoreInv, Crash
  PROVE  StoreInv'
  <1>1. "dead" \notin Locked /\ "look" \notin Locked /\ "new" \notin Locked
        /\ Ended \cap (Locked \cup {"look"}) = {}
    BY DEF Locked, Storing, Ended
  <1>2. \A c \in Calls : call'[c].pc \notin Locked \cup {"look"}
    BY <1>1, CrashEffect
  <1>3. \A c \in Calls : /\ call[c].pc # "new" =>
                             call'[c].req = call[c].req /\ call'[c].at = call[c].at
                         /\ call'[c].pc = "new" => call'[c] = call[c]
    BY CrashEffect DEF InFlight
  <1>4. ASSUME NEW c \in Calls PROVE CallOK(c)'
    <2>1. CallOK(c)
      BY StoreFacts
    <2>2. call[c].pc # "new" <=> call'[c].pc # "new"
      BY CrashEffect
    <2>3. call'[c].pc \notin Locked \cup {"look"}
      BY <1>2
    <2>4. call'[c].pc \notin Storing \cup {"file", "drop", "remove"}
      BY <2>3 DEF Locked, Storing
    <2>5. call'[c].pc # "start"
      BY CrashEffect DEF Ended
    <2> QED
      BY <1>3, <2>1, <2>2, <2>3, <2>4, <2>5 DEF CallOK, Kind, Repo, Op
  <1>5. LocksHeld'
    BY <1>2, CrashEffect DEF LocksHeld
  <1>6. FilesPlaced'
    <2>1. "write" \in Locked
      BY DEF Locked, Storing
    <2> QED
      BY <1>2, <2>1, CrashEffect DEF StoreInv, FilesPlaced
  <1>7. StoreTypes'
    BY CrashEffect DEF StoreInv, StoreTypes
  <1> QED
    BY <1>4, <1>5, <1>6, <1>7 DEF StoreInv

\* The projects that are there at first.
LEMMA InitFiles ==
  ASSUME Init
  PROVE  /\ files \in [Paths -> Projects \cup {None}] /\ map \in [Channels -> Paths \cup {None}]
         /\ \A q \in Paths : files[q] # None =>
               /\ files[q].repo = IF q \in Repos THEN q ELSE None
               /\ files[q].status = "idle"
  <1>1. PICK active \in SUBSET Channels : \E repo \in [active -> Repos \cup {None}] :
           LET path(ch) == IF repo[ch] = None THEN ch ELSE repo[ch]
               project(ch) == [Fresh(ch, ch) EXCEPT !.repo = repo[ch]]
           IN  /\ \A ch, d \in active : path(ch) = path(d) => ch = d
               /\ map = [ch \in Channels |-> IF ch \in active THEN path(ch) ELSE None]
               /\ files = [p \in Paths |->
                             IF \E ch \in active : path(ch) = p
                             THEN project(CHOOSE ch \in active : path(ch) = p)
                             ELSE None]
    BY DEF Init
  <1>2. PICK repo \in [active -> Repos \cup {None}] :
           LET path(ch) == IF repo[ch] = None THEN ch ELSE repo[ch]
               project(ch) == [Fresh(ch, ch) EXCEPT !.repo = repo[ch]]
           IN  /\ \A ch, d \in active : path(ch) = path(d) => ch = d
               /\ map = [ch \in Channels |-> IF ch \in active THEN path(ch) ELSE None]
               /\ files = [p \in Paths |->
                             IF \E ch \in active : path(ch) = p
                             THEN project(CHOOSE ch \in active : path(ch) = p)
                             ELSE None]
    BY <1>1
  <1> DEFINE path(ch) == IF repo[ch] = None THEN ch ELSE repo[ch]
             project(ch) == [Fresh(ch, ch) EXCEPT !.repo = repo[ch]]
  <1>3. ASSUME NEW ch \in active
        PROVE  /\ path(ch) \in Paths /\ project(ch) \in Projects
               /\ project(ch).repo = IF path(ch) \in Repos THEN path(ch) ELSE None
               /\ project(ch).status = "idle"
    <2>1. ch \in Channels /\ ch \in Ids /\ ch \notin Repos /\ repo[ch] \in Repos \cup {None}
      BY NamesAssumption DEF Ids
    <2>2. Fresh(ch, ch) \in Projects /\ Fresh(ch, ch).status = "idle"
      BY <2>1 DEF Fresh, Projects
    <2>3. project(ch) \in Projects /\ project(ch).repo = repo[ch] /\ project(ch).status = "idle"
      BY <2>1, <2>2 DEF Projects
    <2> QED
      BY <2>1, <2>3, NamesAssumption DEF Paths
  <1>4. /\ map = [ch \in Channels |-> IF ch \in active THEN path(ch) ELSE None]
        /\ files = [p \in Paths |->
                      IF \E ch \in active : path(ch) = p
                      THEN project(CHOOSE ch \in active : path(ch) = p)
                      ELSE None]
    BY <1>2
  <1> HIDE DEF path, project
  <1>5. map \in [Channels -> Paths \cup {None}]
    BY <1>3, <1>4
  <1>6. ASSUME NEW q \in Paths
        PROVE  /\ files[q] \in Projects \cup {None}
               /\ files[q] # None =>
                     /\ files[q].repo = IF q \in Repos THEN q ELSE None
                     /\ files[q].status = "idle"
    <2>1. CASE \E ch \in active : path(ch) = q
      <3> DEFINE d == CHOOSE ch \in active : path(ch) = q
      <3>1. d \in active /\ path(d) = q
        BY <2>1
      <3>2. files[q] = project(d)
        BY <1>4, <2>1
      <3> HIDE DEF d
      <3> QED
        BY <1>3, <3>1, <3>2
    <2>2. CASE ~\E ch \in active : path(ch) = q
      BY <1>4, <2>2
    <2> QED
      BY <2>1, <2>2
  <1> QED
    BY <1>4, <1>5, <1>6

\* It holds at the start, ...
LEMMA StoreInit ==
  ASSUME Init
  PROVE  StoreInv /\ \A c \in Calls : call[c] = NewCall
  <1>1. call = [c \in Calls |-> NewCall] /\ locks = [l \in Locks |-> None] /\ closed = {}
        /\ crashes = 0
    BY DEF Init
  <1>2. NewCall \in CallRecords /\ NewCall.pc = "new"
    BY DEF NewCall, CallRecords, Pcs
  <1>3. StoreTypes
    BY <1>1, <1>2, InitFiles, StoreAssumption DEF StoreTypes
  <1>4. \A c \in Calls : CallOK(c)
    BY <1>1, <1>2 DEF CallOK
  <1>5. LocksHeld
    BY <1>1, <1>2 DEF LocksHeld, Locked, Storing
  <1>6. FilesPlaced
    BY <1>1, <1>2, InitFiles DEF FilesPlaced
  <1> QED
    BY <1>1, <1>3, <1>4, <1>5, <1>6 DEF StoreInv

\* ... and every step keeps it.
LEMMA StoreStep ==
  ASSUME StoreInv, [Next]_vars
  PROVE  StoreInv'
  <1>1. CASE Crash
    BY <1>1, CrashStore
  <1>2. ASSUME NEW c \in Calls, Begin(c) PROVE StoreInv'
    BY <1>2, BeginStore
  <1>3. ASSUME NEW c \in Calls, Step(c) PROVE StoreInv'
    <2>1. CASE LockChannel(c)
      BY <2>1, LockChannelStore
    <2>2. CASE ReadRecord(c) \/ ReadFile(c) \/ DropRecord(c)
      BY <2>2, ReadRecordStore, ReadFileStore, DropRecordStore
    <2>3. CASE WriteFile(c) \/ RemoveFile(c) \/ WriteRecord(c)
      BY <2>3, WriteFileStore, RemoveFileStore, WriteRecordStore
    <2>4. CASE Peek(c) \/ ListRecords(c) \/ Prune(c)
      BY <2>4, PeekStore, ListRecordsStore, PruneStore
    <2>5. CASE \E ch \in Channels : LookAt(c, ch)
      BY <2>5, LookAtStore
    <2> QED
      BY <1>3, <2>1, <2>2, <2>3, <2>4, <2>5 DEF Step
  <1>4. CASE UNCHANGED vars
    <2>1. StoreTypes' /\ LocksHeld' /\ FilesPlaced'
      BY <1>4 DEF vars, StoreInv, StoreTypes, LocksHeld, FilesPlaced, Chan
    <2>2. \A c \in Calls : CallOK(c)'
      BY <1>4 DEF vars, StoreInv, CallOK, Kind, Repo, Op
    <2> QED
      BY <2>1, <2>2 DEF StoreInv
  <1> QED
    BY <1>1, <1>2, <1>3, <1>4 DEF Next

\* Every state has the types of the store, and a lock has a holder only while
\* an operation of the holder is under way: whatever requests come together,
\* and wherever a crash cuts them short (state/store.ts, state/locks.ts).
THEOREM StoreTypesHold == Spec => []TypeOK
  <1>1. Init => StoreInv
    BY StoreInit
  <1>2. StoreInv /\ [Next]_vars => StoreInv'
    BY StoreStep
  <1>3. StoreInv => TypeOK
    <2> SUFFICES ASSUME StoreInv PROVE TypeOK
      OBVIOUS
    <2>1. \A c \in Calls : call[c].pc \in Pcs /\ call[c].project \in Projects \cup {None}
      BY StoreFacts, CallFields
    <2>2. \A l \in Locks : locks[l] # None => call[locks[l]].pc \in Locked \cup {"look"}
      BY DEF StoreInv, LocksHeld
    <2> QED
      BY <2>1, <2>2 DEF StoreInv, StoreTypes, TypeOK, Locked, Storing
  <1> QED
    BY <1>1, <1>2, <1>3, PTL DEF Spec

-----------------------------------------------------------------------------
(* The open changes stay, if requests of different channels are not served *)
(* side by side.                                                           *)

\* What holds of an update of a call while others take their turn.
LEMMA UpdateFacts ==
  ASSUME StoreInv, OpenInv, NEW c \in Calls, call[c].pc # "new"
  PROVE  /\ EntryStays(c) /\ Stored(c) /\ Creates(c) /\ NamesOwn(c) /\ FindsNone(c)
         /\ HasSeen(c) /\ Overwrites(c)
  BY DEF OpenInv, UpdateOK

\* A call that stores a record updates.
LEMMA StoringUpdates ==
  ASSUME StoreInv, NEW c \in Calls, call[c].pc # "new",
         Op(c) \in {"create", "settle", "update", "peek"}
  PROVE  /\ Kind(c) \notin Reads /\ Kind(c) \in KindNames
         /\ InFlight(c) => Updates(c)
         /\ Op(c) = "create" => call[c].at = 2 /\ Kind(c) \in {"use", "propose"}
         /\ Op(c) = "settle" => call[c].at = 3 /\ Kind(c) \in {"use", "propose"}
         /\ Op(c) = "update" /\ Kind(c) \in {"use", "propose"} => call[c].at = 5
  <1>1. call[c] \in CallRecords /\ CallOK(c)
    BY StoreFacts
  <1>2. Op(c) \in {"create", "settle", "peek"} => Kind(c) \in {"use", "propose"}
    BY <1>1, MadeCall
  <1>3. Kind(c) \notin Reads
    BY <1>1, <1>2, MadeCall DEF Reads
  <1> QED
    BY <1>1, <1>3, MadeCall DEF Updates

\* The places of a call that is under way.
LEMMA FlightLemma ==
  ASSUME NEW c \in Calls
  PROVE  /\ call[c].pc \in Locked \cup {"start", "look"} => InFlight(c) /\ call[c].pc # "new"
         /\ InFlight(c) => call[c].pc # "new" /\ call[c].pc # "ok" /\ call[c].pc \notin Ended
         /\ call[c].pc \in Storing => call[c].pc \in Locked
         /\ call[c].pc \in Ended => ~InFlight(c) /\ call[c].pc \notin Locked \cup {"look"}
  BY DEF InFlight, Locked, Storing, Ended

\* While one call updates, another one that does waits for the lock of their
\* common channel, and one of the two is a touch.
LEMMA OnlyWriter ==
  ASSUME StoreInv, OpenInv, NEW c \in Calls, NEW d \in Calls, c # d,
         call[c].pc \in Locked, Updates(c), Updates(d)
  PROVE  /\ Chan(d) = Chan(c) /\ call[d].pc \notin Locked /\ "touch" \in {Kind(c), Kind(d)}
         /\ call[d].pc \notin {"record", "file", "drop", "write", "remove", "map"}
         /\ Kind(d) \in {"use", "propose"} => Kind(c) = "touch"
         /\ Kind(c) \in {"use", "propose"} => Kind(d) = "touch"
  <1>1. Chan(d) = Chan(c) /\ "touch" \in {Kind(c), Kind(d)}
    BY DEF OpenInv, OneAtATime
  <1>2. call[d].pc \notin Locked
    BY <1>1, OneHolder DEF StoreInv
  <1> QED
    BY <1>1, <1>2 DEF Locked, Storing

\* Who is an open change stays as it is, and a step adds none, unless it answers
\* a proposal.
LEMMA NoNewOpen ==
  ASSUME NEW c \in Calls, OnlyCall(c), InFlight(c) \/ call[c].pc = "new",
         closed \subseteq closed', call'[c].pc = "ok" => call'[c].req.kind # "propose",
         NEW repo \in Repos, NEW x \in OpenChanges(repo)'
  PROVE  /\ x \in OpenChanges(repo) /\ x \in Calls /\ x # c /\ call'[x] = call[x]
         /\ Chan(x)' = Chan(x) /\ x \notin closed' /\ call[x].pc = "ok"
  <1>1. /\ x \in Calls /\ call'[x].pc = "ok" /\ call'[x].req.kind = "propose"
        /\ call'[x].project.repo = repo /\ x \notin closed'
    BY DEF OpenChanges, Answered
  <1>2. x # c
    BY <1>1
  <1>3. call'[x] = call[x]
    BY <1>1, <1>2 DEF OnlyCall
  <1> QED
    BY <1>1, <1>2, <1>3 DEF OpenChanges, Answered, Chan

\* A record that named another channel is not replaced.
LEMMA StillEntered ==
  ASSUME StoreInv, OpenInv, NEW c \in Calls, OnlyCall(c),
         \/ call[c].project = None
         \/ call[c].pc \notin Ended \cup Storing /\ call[c].pc # "new"
         \/ call'[c].project = call[c].project /\ Chan(c)' = Chan(c),
         NEW d \in Calls, call[d].project # None, call[d].project.chan # Chan(d)
  PROVE  call'[d].project = call[d].project /\ Chan(d)' = Chan(d)
  <1>1. CASE d # c
    BY <1>1 DEF OnlyCall, Chan
  <1>2. CASE d = c
    BY <1>2 DEF OpenInv, UpdateOK, NamesOwn
  <1> QED
    BY <1>1, <1>2

\* The request of a call stays, and a step starts no other call.
LEMMA OneAtATimeStays ==
  ASSUME OneAtATime, NEW c \in Calls, OnlyCall(c), InFlight(c),
         Kind(c)' = Kind(c), Chan(c)' = Chan(c)
  PROVE  OneAtATime'
  <1>1. ASSUME NEW d \in Calls, Updates(d)'
        PROVE  Updates(d) /\ Kind(d)' = Kind(d) /\ Chan(d)' = Chan(d)
    <2>1. CASE d = c
      BY <1>1, <2>1 DEF Updates
    <2>2. CASE d # c
      BY <1>1, <2>2 DEF OnlyCall, Updates, InFlight, Kind, Chan
    <2> QED
      BY <2>1, <2>2
  <1> QED
    BY <1>1 DEF OneAtATime

\* The other calls do not notice a step that leaves the files alone, takes
\* nothing out of the map that an update under way has found, and takes nothing
\* for gone but what is.
LEMMA OthersOK ==
  ASSUME StoreInv, OpenInv, NEW c \in Calls, OnlyCall(c), files' = files,
         map' \in [Channels -> Paths \cup {None}],
         \A ch \in Channels : map'[ch] \in {map[ch], None},
         \A d \in Calls : Updates(d) /\ EntryStays(d) /\ d # c /\ call[d].pc \in {"file"} \cup Storing
                          /\ call[d].path # None /\ files[call[d].path] # None
                             => map'[Chan(d)] = map[Chan(d)],
         call'[c].pc = "look" => \A ch \in call'[c].gone :
            (call[c].pc = "look" /\ ch \in call[c].gone) \/ files[map[ch]] = None,
         NEW d \in Calls, d # c, call[d].pc # "new"
  PROVE  UpdateOK(d)'
  <1>1. /\ call'[d] = call[d] /\ UpdateOK(d) /\ Kind(d)' = Kind(d) /\ Chan(d)' = Chan(d)
        /\ Repo(d)' = Repo(d) /\ Op(d)' = Op(d)
    BY DEF OnlyCall, OpenInv, Kind, Chan, Repo, Op
  <1>2. InFlight(d)' = InFlight(d) /\ Updates(d)' = Updates(d) /\ Chan(d) \in Channels
    BY <1>1, StoreFacts DEF InFlight, Updates
  <1>3. EntryStays(d)'
    <2> SUFFICES ASSUME Updates(d), call[d].pc \in {"file"} \cup Storing, call[d].path # None
                 PROVE  /\ call[d].pc = "write" => files[call[d].path] # None
                        /\ files[call[d].path] # None =>
                              /\ map'[Chan(d)] = call[d].path
                              /\ \A e \in Calls : call'[e].pc = "look" => Chan(d) \notin call'[e].gone
      BY <1>1, <1>2 DEF EntryStays
    <2>1. /\ call[d].pc = "write" => files[call[d].path] # None
          /\ files[call[d].path] # None =>
                /\ map[Chan(d)] = call[d].path
                /\ \A e \in Calls : call[e].pc = "look" => Chan(d) \notin call[e].gone
      BY <1>1 DEF UpdateOK, EntryStays
    <2>2. ASSUME files[call[d].path] # None
          PROVE  map'[Chan(d)] = map[Chan(d)]
      BY <1>1, <2>2 DEF UpdateOK
    <2>3. ASSUME files[call[d].path] # None, NEW e \in Calls, call'[e].pc = "look"
          PROVE  Chan(d) \notin call'[e].gone
      <3>1. CASE e = c
        BY <2>1, <2>3, <3>1
      <3>2. CASE e # c
        BY <2>1, <2>3, <3>2 DEF OnlyCall
      <3> QED
        BY <3>1, <3>2
    <2> QED
      BY <2>1, <2>2, <2>3
  <1>4. Stored(d)'
    BY <1>1 DEF UpdateOK, Stored, Moves, NotOpen
  <1>5. Creates(d)'
    BY <1>1, <1>2 DEF UpdateOK, Creates
  <1>6. NamesOwn(d)'
    BY <1>1 DEF UpdateOK, NamesOwn
  <1>7. FindsNone(d)'
    BY <1>1, <1>2 DEF UpdateOK, FindsNone, NotOpen
  <1>8. HasSeen(d)'
    BY <1>1, <1>2 DEF UpdateOK, HasSeen, Resumes
  <1>9. Overwrites(d)'
    BY <1>1 DEF UpdateOK, Overwrites
  <1> QED
    BY <1>3, <1>4, <1>5, <1>6, <1>7, <1>8, <1>9 DEF UpdateOK

\* A step that no open change notices: nothing is stored.
Unnoticed(c) ==
    /\ OnlyCall(c) /\ files' = files /\ closed' = closed
    /\ map' \in [Channels -> Paths \cup {None}]
    /\ \A ch \in Channels : map'[ch] \in {map[ch], None}
    /\ \A d \in Calls : Updates(d) /\ EntryStays(d) /\ d # c /\ call[d].pc \in {"file"} \cup Storing
                        /\ call[d].path # None /\ files[call[d].path] # None
                           => map'[Chan(d)] = map[Chan(d)]
    /\ call'[c].pc = "look" => \A ch \in call'[c].gone :
          (call[c].pc = "look" /\ ch \in call[c].gone) \/ files[map[ch]] = None
    /\ call'[c].pc = "ok" => call'[c].req.kind # "propose"
    /\ call[c].project = None \/ (call[c].pc \notin Ended \cup Storing /\ call[c].pc # "new")

\* The entry of an open change stays, and the call does not go for it.
EntryUntouched(c) ==
    \A repo \in Repos : \A x \in OpenChanges(repo) :
        ~EnteredByOther(Chan(x)) /\ map[Chan(x)] = repo =>
            /\ map'[Chan(x)] = repo
            /\ InFlight(c)' /\ Chan(c)' = Chan(x) => Undisturbed(c, repo)'

\* Such a step keeps the invariant.
LEMMA UnnoticedInv ==
  ASSUME StoreInv, OpenInv, NEW c \in Calls, InFlight(c) \/ call[c].pc = "new",
         Unnoticed(c), OneAtATime', UpdateOK(c)', EntryUntouched(c)
  PROVE  OpenInv'
  <1>1. \A d \in Calls : call'[d].pc # "new" => UpdateOK(d)'
    <2> SUFFICES ASSUME NEW d \in Calls, d # c, call'[d].pc # "new" PROVE UpdateOK(d)'
      OBVIOUS
    <2>1. call[d].pc # "new"
      BY DEF Unnoticed, OnlyCall
    <2> QED
      BY <2>1, OthersOK DEF Unnoticed
  <1>2. ASSUME NEW repo \in Repos, NEW x \in OpenChanges(repo)'
        PROVE  /\ x \in OpenChanges(repo) /\ x \in Calls /\ x # c /\ call'[x] = call[x]
               /\ Chan(x)' = Chan(x)
    BY NoNewOpen DEF Unnoticed
  <1>3. RecordKept'
    BY <1>2 DEF OpenInv, RecordKept, Unnoticed
  <1>4. EntryKept'
    <2> SUFFICES ASSUME NEW repo \in Repos, NEW x \in OpenChanges(repo)',
                        ~EnteredByOther(Chan(x))'
                 PROVE  /\ map'[Chan(x)] = repo
                        /\ \A d \in Calls :
                              /\ call'[d].pc = "look" => Chan(x) \notin call'[d].gone
                              /\ InFlight(d)' /\ Chan(d)' = Chan(x) => Undisturbed(d, repo)'
      BY <1>2 DEF EntryKept
    <2>1. /\ x \in OpenChanges(repo) /\ x \in Calls /\ Chan(x)' = Chan(x)
      BY <1>2
    <2>2. ~EnteredByOther(Chan(x))
      <3> SUFFICES ASSUME NEW d \in Calls, call[d].project # None,
                          call[d].project.chan = Chan(x), Chan(d) # Chan(x)
                   PROVE  FALSE
        BY DEF EnteredByOther
      <3>1. call'[d].project = call[d].project /\ Chan(d)' = Chan(d)
        BY StillEntered DEF Unnoticed
      <3> QED
        BY <2>1, <3>1 DEF EnteredByOther
    <2>3. /\ map[Chan(x)] = repo
          /\ \A d \in Calls :
                /\ call[d].pc = "look" => Chan(x) \notin call[d].gone
                /\ InFlight(d) /\ Chan(d) = Chan(x) => Undisturbed(d, repo)
      BY <2>1, <2>2 DEF OpenInv, EntryKept
    <2>4. /\ map'[Chan(x)] = repo
          /\ InFlight(c)' /\ Chan(c)' = Chan(x) => Undisturbed(c, repo)'
      BY <2>1, <2>2, <2>3 DEF EntryUntouched
    <2>5. files[repo] # None
      BY <2>1 DEF OpenInv, RecordKept
    <2>6. call'[c].pc = "look" => Chan(x) \notin call'[c].gone
      BY <2>3, <2>5 DEF Unnoticed
    <2>7. ASSUME NEW d \in Calls, d # c
          PROVE  /\ call'[d].pc = "look" => Chan(x) \notin call'[d].gone
                 /\ InFlight(d)' /\ Chan(d)' = Chan(x) => Undisturbed(d, repo)'
      <3>1. call'[d] = call[d]
        BY <2>7 DEF Unnoticed, OnlyCall
      <3> QED
        BY <2>3, <3>1 DEF InFlight, Chan, Kind, Undisturbed
    <2> QED
      BY <2>4, <2>6, <2>7
  <1> QED
    BY <1>1, <1>3, <1>4 DEF OpenInv

\* An answer leaves an update in order, unless the request may go on to its update.
LEMMA AnswerUpdate ==
  ASSUME StoreInv, NEW c \in Calls, call[c].pc # "new", Answers(c, call'[c]),
         NamesOwn(c), call[c].pc \in Storing => Op(c) # "update" \/ call'[c].pc # "start",
         InFlight(c),
         call'[c].pc = "start" => call'[c].at \in {1, 2} \/ Kind(c) \notin {"use", "propose"}
  PROVE  UpdateOK(c)'
  <1>1. /\ Kind(c)' = Kind(c) /\ Chan(c)' = Chan(c) /\ call'[c].project = call[c].project
        /\ call'[c].pc \in {"start", "ok", "error"}
    BY DEF Answers, Kind, Chan
  <1>2. call'[c].pc \notin Storing \cup {"file", "write", "map", "remove"}
        /\ (call'[c].pc # "start" => call'[c].pc \in Ended /\ ~InFlight(c)')
    BY <1>1 DEF Storing, Ended, InFlight
  <1>3. EntryStays(c)' /\ Stored(c)' /\ Overwrites(c)'
    BY <1>2 DEF EntryStays, Stored, Overwrites
  <1>4. NamesOwn(c)'
    <2>1. call[c].pc \notin Ended
      BY DEF InFlight
    <2> QED
      BY <1>1, <1>2, <2>1 DEF NamesOwn
  <1>5. Creates(c)'
    BY <1>1, <1>2 DEF Creates
  <1>6. FindsNone(c)'
    BY <1>1, <1>2 DEF FindsNone
  <1>7. HasSeen(c)'
    BY <1>1, <1>2 DEF HasSeen
  <1> QED
    BY <1>3, <1>4, <1>5, <1>6, <1>7 DEF UpdateOK

\* Where nobody reads the list, nobody takes a file for gone.
LEMMA WaitsUpdate ==
  ASSUME StoreInv, OpenInv, NEW c \in Calls, NEW pc, NEW path, MovesTo(c, pc, path, call[c].project),
         call[c].pc \in {"start", "record", "file", "drop", "look"},
         pc \in {"record", "file", "drop", "look"},
         path = call[c].path \/ path = map[Chan(c)],
         pc = "file" => path = map[Chan(c)] /\ \A d \in Calls : call'[d].pc # "look",
         files' = files, map' = map
  PROVE  UpdateOK(c)'
  <1>1. /\ call[c].pc # "new" /\ InFlight(c) /\ InFlight(c)' /\ call'[c].pc = pc
        /\ call'[c].path = path /\ call'[c].project = call[c].project /\ call'[c].at = call[c].at
        /\ call'[c].seen = call[c].seen
        /\ call[c].pc \notin Storing \cup Ended /\ pc \notin Storing
    BY DEF MovesTo, InFlight, Ended, Storing
  <1>2. Kind(c)' = Kind(c) /\ Chan(c)' = Chan(c) /\ Repo(c)' = Repo(c) /\ Op(c)' = Op(c)
    BY <1>1, MovesOK
  <1>3. /\ EntryStays(c) /\ Stored(c) /\ Creates(c) /\ NamesOwn(c) /\ FindsNone(c)
        /\ HasSeen(c) /\ Overwrites(c)
    BY <1>1, UpdateFacts
  <1>4. EntryStays(c)'
    BY <1>1, <1>2 DEF EntryStays, Storing
  <1>5. Stored(c)' /\ Overwrites(c)'
    BY <1>1 DEF Stored, Overwrites, Storing
  <1>6. Creates(c)'
    BY <1>1, <1>2, <1>3 DEF Creates
  <1>7. NamesOwn(c)'
    BY <1>1, <1>2, <1>3 DEF NamesOwn
  <1>8. FindsNone(c)'
    <2>1. call[c].pc \notin {"remove", "map"}
      BY <1>1 DEF Storing
    <2> QED
      BY <1>1, <1>2, <1>3, <2>1 DEF FindsNone, NotOpen
  <1>9. HasSeen(c)'
    BY <1>1, <1>2, <1>3 DEF HasSeen, Resumes
  <1> QED
    BY <1>4, <1>5, <1>6, <1>7, <1>8, <1>9 DEF UpdateOK

\* A call of another kind, or at another place, is none that an open change minds.
LEMMA SameUndisturbed ==
  ASSUME NEW c \in Calls, Kind(c)' = Kind(c), Chan(c)' = Chan(c), call'[c].at = call[c].at,
         call'[c].pc \notin {"drop", "file"}, InFlight(c),
         \A ch \in Channels : map'[ch] = map[ch], EntryKept,
         \A x \in Calls : call[x].pc = "ok" => Chan(x) \in Channels
  PROVE  EntryUntouched(c)
  <1> SUFFICES ASSUME NEW repo \in Repos, NEW x \in OpenChanges(repo),
                      ~EnteredByOther(Chan(x)), map[Chan(x)] = repo
               PROVE  /\ map'[Chan(x)] = repo
                      /\ Chan(c)' = Chan(x) => Undisturbed(c, repo)'
    BY DEF EntryUntouched
  <1>1. x \in Calls /\ call[x].pc = "ok"
    BY DEF OpenChanges, Answered
  <1>2. InFlight(c) /\ Chan(c) = Chan(x) => Undisturbed(c, repo)
    BY DEF EntryKept
  <1> QED
    BY <1>1, <1>2 DEF Undisturbed

\* In a channel without an open change of its own a call does as it likes.
LEMMA FreeChannel ==
  ASSUME NEW c \in Calls, Chan(c)' = Chan(c),
         \A ch \in Channels : ch # Chan(c) => map'[ch] = map[ch],
         \A x \in Calls : call[x].pc = "ok" => Chan(x) \in Channels,
         \A repo \in Repos : \A x \in OpenChanges(repo) :
            ~EnteredByOther(Chan(x)) /\ map[Chan(x)] = repo => Chan(x) # Chan(c)
  PROVE  EntryUntouched(c)
  <1>1. \A repo \in Repos : \A x \in OpenChanges(repo) : x \in Calls /\ call[x].pc = "ok"
    BY DEF OpenChanges, Answered
  <1> QED
    BY <1>1 DEF EntryUntouched

\* An answered call has a channel.
LEMMA ChannelsOfCalls ==
  ASSUME StoreInv
  PROVE  \A x \in Calls : call[x].pc = "ok" => Chan(x) \in Channels
  BY StoreFacts

\* The record of a new project.
LEMMA CreateUpdate ==
  ASSUME StoreInv, NEW c \in Calls, call[c].pc \in {"record", "drop", "file"}, Op(c) = "create",
         MovesTo(c, "write", None, Created(c))
  PROVE  UpdateOK(c)' /\ Kind(c)' = Kind(c) /\ Chan(c)' = Chan(c) /\ call[c].at = 2
         /\ Kind(c) \in {"use", "propose"}
  <1>1. call[c].pc # "new" /\ Chan(c) \in Channels
    BY StoreFacts
  <1>2. /\ Kind(c)' = Kind(c) /\ Chan(c)' = Chan(c) /\ Repo(c)' = Repo(c) /\ Op(c)' = "create"
    BY <1>1, MovesOK
  <1>3. call[c].at = 2 /\ Kind(c) \in {"use", "propose"}
    BY <1>1, StoringUpdates
  <1>4. /\ call'[c].pc = "write" /\ call'[c].path = None /\ call'[c].project = Created(c)
        /\ call'[c].at = 2 /\ OnlyCall(c)
    BY <1>3 DEF MovesTo
  <1>5. /\ Created(c) \in Projects
        /\ Created(c).id = c /\ Created(c).chan = Chan(c) /\ Created(c).repo = None
    BY <1>1, CreatedLemma
  <1>6. Target(Created(c), None) = c /\ c \notin Repos
    BY <1>5, TargetLemma
  <1>7. EntryStays(c)'
    BY <1>4 DEF EntryStays
  <1>8. Stored(c)' /\ Overwrites(c)'
    BY <1>2, <1>3, <1>4, <1>6 DEF Stored, Overwrites
  <1>9. Creates(c)'
    BY <1>2, <1>4, <1>5 DEF Creates
  <1>10. NamesOwn(c)' /\ FindsNone(c)' /\ HasSeen(c)'
    BY <1>2, <1>4, <1>5 DEF NamesOwn, FindsNone, HasSeen
  <1> QED
    BY <1>2, <1>3, <1>7, <1>8, <1>9, <1>10 DEF UpdateOK

\* An operation that found no project.
LEMMA NoProjectUpdate ==
  ASSUME StoreInv, OpenInv, NEW c \in Calls, call[c].pc \in {"record", "drop"}, NoProject(c),
         files' = files, map' \in [Channels -> Paths \cup {None}]
  PROVE  /\ UpdateOK(c)' /\ OnlyCall(c) /\ Kind(c)' = Kind(c) /\ Chan(c)' = Chan(c)
         /\ call'[c].pc = "ok" => Kind(c) # "propose"
         /\ call'[c].pc # "look"
  <1>1. /\ call[c].pc # "new" /\ InFlight(c) /\ call[c] \in CallRecords /\ CallOK(c)
        /\ call[c].pc \notin Storing /\ Chan(c) \in Channels
    BY StoreFacts DEF InFlight, Ended, Storing
  <1>2. /\ EntryStays(c) /\ Stored(c) /\ Creates(c) /\ NamesOwn(c) /\ FindsNone(c)
        /\ HasSeen(c) /\ Overwrites(c)
    BY <1>1, UpdateFacts
  <1>3. CASE /\ Op(c) = "get" /\ OnlyCall(c) /\ call'[c] = AfterGet(c, None)
             /\ Answers(c, call'[c])
    <2>1. /\ Kind(c) \in {"use", "propose"} =>
                call'[c].pc = "error" \/ (call'[c].pc = "start" /\ call'[c].at = 2)
          /\ call'[c].pc = "ok" => Kind(c) = "get"
      BY <1>1, <1>3, AfterGetLemma
    <2>2. UpdateOK(c)'
      BY <1>1, <1>2, <1>3, <2>1, AnswerUpdate
    <2> QED
      BY <1>3, <2>1, <2>2 DEF Answers, Kind, Chan
  <1>4. CASE Op(c) = "create" /\ MovesTo(c, "write", None, Created(c))
    BY <1>4, CreateUpdate DEF MovesTo
  <1>5. CASE OnlyCall(c) /\ call'[c].pc = "error" /\ Answers(c, call'[c])
    <2>1. UpdateOK(c)'
      BY <1>1, <1>2, <1>5, AnswerUpdate
    <2> QED
      BY <1>5, <2>1 DEF Answers, Kind, Chan
  <1> QED
    BY <1>3, <1>4, <1>5, NoProjectEffect

\* A request that updates is made when no other channel updates.
LEMMA BeginOpen ==
  ASSUME ~Overlap, StoreInv, OpenInv, NEW c \in Calls, Begin(c)
  PROVE  OpenInv'
  <1>1. /\ call[c].pc = "new" /\ call[c].project = None
        /\ OnlyCall(c) /\ call'[c].pc = "start" /\ call'[c].at = 1 /\ call'[c].path = None
        /\ call'[c].project = None /\ MayBegin(call'[c].req)
        /\ UNCHANGED <<files, map, locks, closed, crashes>>
    BY BeginEffect DEF NewCall
  <1>2. OneAtATime'
    <2> SUFFICES ASSUME NEW d \in Calls, d # c, Updates(d)', Updates(c)'
                 PROVE  /\ Chan(d)' = Chan(c)'
                        /\ "touch" \in {Kind(c)', Kind(d)'}
      <3>1. ASSUME NEW d \in Calls, d # c
            PROVE  Updates(d)' => Updates(d) /\ Kind(d)' = Kind(d) /\ Chan(d)' = Chan(d)
        BY <1>1, <3>1 DEF OnlyCall, Updates, InFlight, Kind, Chan
      <3>2. ASSUME NEW d \in Calls, NEW e \in Calls, d # e, Updates(d)', Updates(e)', d # c, e # c
            PROVE  Chan(d)' = Chan(e)' /\ "touch" \in {Kind(d)', Kind(e)'}
        BY <3>1, <3>2 DEF OpenInv, OneAtATime
      <3> QED
        BY <3>2 DEF OneAtATime
    <2>1. call'[d] = call[d]
      BY <1>1 DEF OnlyCall
    <2>2. Kind(c)' \notin Reads /\ InFlight(d) /\ Kind(d) \notin Reads
      BY <2>1 DEF Updates, InFlight, Kind
    <2>3. call'[c].req.kind \notin Reads
      BY <2>2 DEF Kind
    <2>4. IF Chan(d) = call'[c].req.chan THEN "touch" \in {call'[c].req.kind, Kind(d)}
          ELSE Overlap
      BY <1>1, <2>2, <2>3 DEF MayBegin
    <2> QED
      BY <2>1, <2>4 DEF Kind, Chan
  <1>3. UpdateOK(c)'
    <2>1. call'[c].pc \notin Storing \cup {"file"}
      BY <1>1 DEF Storing
    <2> QED
      BY <1>1, <2>1 DEF UpdateOK, EntryStays, Stored, Creates, NamesOwn, FindsNone, HasSeen,
                        Overwrites, Storing
  <1>4. EntryUntouched(c)
    BY <1>1 DEF EntryUntouched, Undisturbed
  <1>5. Unnoticed(c)
    BY <1>1 DEF Unnoticed, StoreInv, StoreTypes
  <1> QED
    BY <1>1, <1>2, <1>3, <1>4, <1>5, UnnoticedInv

\* Taking the lock of a channel touches no open change, ...
LEMMA LockChannelOpen ==
  ASSUME StoreInv, OpenInv, NEW c \in Calls, LockChannel(c)
  PROVE  OpenInv'
  <1>1. /\ MovesTo(c, "record", call[c].path, call[c].project) /\ call[c].pc = "start"
        /\ UNCHANGED <<files, map, closed, crashes>>
    BY LockChannelStore
  <1>2. InFlight(c) /\ call[c].pc # "new" /\ call[c].pc \notin Ended \cup Storing
    BY <1>1 DEF InFlight, Ended, Storing
  <1>3. UpdateOK(c)'
    BY <1>1, WaitsUpdate
  <1>4. /\ OnlyCall(c) /\ Kind(c)' = Kind(c) /\ Chan(c)' = Chan(c) /\ call'[c].pc = "record"
        /\ call'[c].at = call[c].at
    BY <1>1, <1>2, MovesOK DEF MovesTo
  <1>5. OneAtATime'
    BY <1>2, <1>4, OneAtATimeStays DEF OpenInv
  <1>6. EntryUntouched(c)
    BY <1>1, <1>2, <1>4, SameUndisturbed, ChannelsOfCalls DEF OpenInv
  <1>7. Unnoticed(c)
    BY <1>1, <1>2, <1>4 DEF Unnoticed, StoreInv, StoreTypes
  <1> QED
    BY <1>2, <1>3, <1>5, <1>6, <1>7, UnnoticedInv

\* ... nor does reading an entry.
LEMMA ReadRecordOpen ==
  ASSUME StoreInv, OpenInv, NEW c \in Calls, ReadRecord(c)
  PROVE  OpenInv'
  <1>1. /\ call[c].pc = "record" /\ IsFree("map")
        /\ UNCHANGED <<files, map, closed, crashes>>
        /\ \/ map[Chan(c)] = None /\ NoProject(c)
           \/ MovesTo(c, "file", map[Chan(c)], call[c].project)
    BY ReadRecordEffect
  <1>2. InFlight(c) /\ call[c].pc # "new" /\ call[c].pc \notin Ended \cup Storing
    BY <1>1 DEF InFlight, Ended, Storing
  <1>3. \A d \in Calls : call[d].pc # "look"
    BY <1>1, NoLook DEF StoreInv
  <1>4. map' \in [Channels -> Paths \cup {None}]
    BY <1>1 DEF StoreInv, StoreTypes
  <1>5. CASE map[Chan(c)] = None /\ NoProject(c)
    <2>1. /\ UpdateOK(c)' /\ OnlyCall(c) /\ Kind(c)' = Kind(c) /\ Chan(c)' = Chan(c)
          /\ call'[c].pc = "ok" => Kind(c) # "propose"
          /\ call'[c].pc # "look"
      BY <1>1, <1>4, <1>5, NoProjectUpdate
    <2>2. OneAtATime'
      BY <1>2, <2>1, OneAtATimeStays DEF OpenInv
    <2>3. EntryUntouched(c)
      <3>1. \A repo \in Repos : repo # None
        BY NamesAssumption
      <3> QED
        BY <1>1, <1>5, <2>1, <3>1, FreeChannel, ChannelsOfCalls
    <2>4. Unnoticed(c)
      BY <1>1, <1>2, <1>4, <2>1 DEF Unnoticed, Kind
    <2> QED
      BY <1>2, <2>1, <2>2, <2>3, <2>4, UnnoticedInv
  <1>6. CASE MovesTo(c, "file", map[Chan(c)], call[c].project)
    <2>1. /\ OnlyCall(c) /\ Kind(c)' = Kind(c) /\ Chan(c)' = Chan(c) /\ call'[c].pc = "file"
          /\ call'[c].at = call[c].at /\ call'[c].path = map[Chan(c)]
      BY <1>2, <1>6, MovesOK DEF MovesTo
    <2>2. \A d \in Calls : call'[d].pc # "look"
      BY <1>3, <2>1 DEF OnlyCall
    <2>3. UpdateOK(c)'
      BY <1>1, <1>6, <2>2, WaitsUpdate
    <2>4. OneAtATime'
      BY <1>2, <2>1, OneAtATimeStays DEF OpenInv
    <2>5. EntryUntouched(c)
      <3> SUFFICES ASSUME NEW repo \in Repos, NEW x \in OpenChanges(repo),
                          ~EnteredByOther(Chan(x)), map[Chan(x)] = repo
                   PROVE  Chan(c)' = Chan(x) => Undisturbed(c, repo)'
        BY <1>1 DEF EntryUntouched
      <3>1. InFlight(c) /\ Chan(c) = Chan(x) => Undisturbed(c, repo)
        BY DEF OpenInv, EntryKept
      <3> QED
        BY <1>2, <2>1, <3>1 DEF Undisturbed
    <2>6. Unnoticed(c)
      BY <1>1, <1>2, <1>4, <2>1 DEF Unnoticed
    <2> QED
      BY <1>2, <2>3, <2>4, <2>5, <2>6, UnnoticedInv
  <1> QED
    BY <1>1, <1>5, <1>6

\* The entry of an open change is not dropped: its file is there.
LEMMA DropRecordOpen ==
  ASSUME StoreInv, OpenInv, NEW c \in Calls, DropRecord(c)
  PROVE  OpenInv'
  <1>1. /\ call[c].pc = "drop" /\ IsFree("map") /\ NoProject(c)
        /\ UNCHANGED <<files, closed, crashes>>
        /\ Chan(c) \in Channels
        /\ map' \in [Channels -> Paths \cup {None}]
        /\ \A ch \in Channels :
              map'[ch] = IF ch = Chan(c) /\ map[ch] = call[c].path THEN None ELSE map[ch]
    BY DropRecordEffect
  <1>2. InFlight(c) /\ call[c].pc # "new" /\ call[c].pc \notin Ended \cup Storing
        /\ call[c].pc \in Locked
    BY <1>1 DEF InFlight, Ended, Storing, Locked
  <1>3. /\ UpdateOK(c)' /\ OnlyCall(c) /\ Kind(c)' = Kind(c) /\ Chan(c)' = Chan(c)
        /\ call'[c].pc = "ok" => Kind(c) # "propose"
        /\ call'[c].pc # "look"
    BY <1>1, NoProjectUpdate
  <1>4. OneAtATime'
    BY <1>2, <1>3, OneAtATimeStays DEF OpenInv
  <1>5. EntryUntouched(c)
    <2>1. ASSUME NEW repo \in Repos, NEW x \in OpenChanges(repo), ~EnteredByOther(Chan(x))
          PROVE  Chan(x) # Chan(c)
      BY <1>1, <1>2, <2>1 DEF OpenInv, EntryKept, Undisturbed
    <2> QED
      BY <1>1, <1>3, <2>1, FreeChannel, ChannelsOfCalls
  <1>6. Unnoticed(c)
    <2>1. ASSUME NEW d \in Calls, d # c, call[d].pc \in {"file"} \cup Storing
          PROVE  map'[Chan(d)] = map[Chan(d)]
      <3>1. call[d].pc \in Locked
        BY <2>1 DEF Locked
      <3>2. Chan(d) # Chan(c) /\ Chan(d) \in Channels
        BY <1>2, <2>1, <3>1, OneHolder, StoreFacts DEF StoreInv
      <3> QED
        BY <1>1, <3>2
    <2> QED
      BY <1>1, <1>2, <1>3, <2>1 DEF Unnoticed, Kind
  <1> QED
    BY <1>2, <1>3, <1>4, <1>5, <1>6, UnnoticedInv

\* What a selection has seen is what the repository has.
LEMMA PeekOpen ==
  ASSUME StoreInv, OpenInv, NEW c \in Calls, Peek(c)
  PROVE  OpenInv'
  <1>1. /\ call[c].pc = "start" /\ Kind(c) = "use" /\ call[c].at = 4
        /\ Repo(c) \in Repos /\ Repo(c) \in Paths
        /\ OnlyCall(c) /\ call'[c].pc = "start" /\ call'[c].at = 5 /\ call'[c].path = None
        /\ call'[c].req = call[c].req /\ call'[c].project = call[c].project
        /\ call'[c].seen = files[Repo(c)]
        /\ UNCHANGED <<files, map, locks, closed, crashes>>
    BY PeekEffect
  <1>2. InFlight(c) /\ InFlight(c)' /\ call[c].pc # "new" /\ call[c].pc \notin Ended \cup Storing
        /\ call'[c].pc \notin Storing \cup {"file"}
    BY <1>1 DEF InFlight, Ended, Storing
  <1>3. Kind(c)' = "use" /\ Chan(c)' = Chan(c) /\ Repo(c)' = Repo(c)
    BY <1>1 DEF Kind, Chan, Repo
  <1>4. NamesOwn(c) /\ FindsNone(c)
    BY <1>2, UpdateFacts
  <1>5. UpdateOK(c)'
    <2>1. EntryStays(c)' /\ Stored(c)' /\ Overwrites(c)' /\ Creates(c)'
      BY <1>1, <1>2, <1>3 DEF EntryStays, Stored, Overwrites, Creates, Storing
    <2>2. NamesOwn(c)'
      BY <1>1, <1>2, <1>3, <1>4 DEF NamesOwn
    <2>3. FindsNone(c)'
      BY <1>1, <1>2, <1>3, <1>4 DEF FindsNone, NotOpen
    <2>4. HasSeen(c)'
      <3> SUFFICES ASSUME files[Repo(c)] # None, HasOpenChange(files[Repo(c)])
                   PROVE  Resumes(c)' /\ call'[c].seen.change = files[Repo(c)].change
        BY <1>1, <1>3 DEF HasSeen, HasOpenChange
      <3>1. files[Repo(c)].repo = Repo(c)
        BY <1>1 DEF StoreInv, FilesPlaced
      <3> QED
        BY <1>1, <1>3, <3>1 DEF Resumes, HasOpenChange
    <2> QED
      BY <2>1, <2>2, <2>3, <2>4 DEF UpdateOK
  <1>6. OneAtATime'
    BY <1>1, <1>2, <1>3, OneAtATimeStays DEF OpenInv
  <1>7. EntryUntouched(c)
    <2>1. ASSUME NEW repo \in Repos, NEW x \in OpenChanges(repo), ~EnteredByOther(Chan(x))
          PROVE  Chan(x) # Chan(c)
      BY <1>1, <1>2, <2>1 DEF OpenInv, EntryKept, Undisturbed
    <2> QED
      BY <1>1, <1>3, <2>1, FreeChannel, ChannelsOfCalls
  <1>8. Unnoticed(c)
    BY <1>1, <1>2 DEF Unnoticed, StoreInv, StoreTypes
  <1> QED
    BY <1>2, <1>5, <1>6, <1>7, <1>8, UnnoticedInv

\* A list that begins takes no file for gone, ...
LEMMA ListRecordsOpen ==
  ASSUME StoreInv, OpenInv, NEW c \in Calls, ListRecords(c)
  PROVE  OpenInv'
  <1>1. /\ call[c].pc = "start" /\ MovesTo(c, "look", call[c].path, call[c].project)
        /\ call'[c].gone = call[c].gone
        /\ UNCHANGED <<files, map, closed, crashes>>
    BY ListRecordsEffect
  <1>2. InFlight(c) /\ call[c].pc # "new" /\ call[c].pc \notin Ended \cup Storing
    BY <1>1 DEF InFlight, Ended, Storing
  <1>3. UpdateOK(c)'
    BY <1>1, WaitsUpdate
  <1>4. /\ OnlyCall(c) /\ Kind(c)' = Kind(c) /\ Chan(c)' = Chan(c) /\ call'[c].pc = "look"
        /\ call'[c].at = call[c].at
    BY <1>1, <1>2, MovesOK DEF MovesTo
  <1>5. OneAtATime'
    BY <1>2, <1>4, OneAtATimeStays DEF OpenInv
  <1>6. EntryUntouched(c)
    BY <1>1, <1>2, <1>4, SameUndisturbed, ChannelsOfCalls DEF OpenInv
  <1>7. call'[c].gone = {}
    BY <1>1, StoreFacts DEF CallOK
  <1>8. Unnoticed(c)
    BY <1>1, <1>2, <1>4, <1>7 DEF Unnoticed, StoreInv, StoreTypes
  <1> QED
    BY <1>2, <1>3, <1>5, <1>6, <1>8, UnnoticedInv

\* ... one that reads takes none for gone that is there, ...
LEMMA LookAtOpen ==
  ASSUME StoreInv, OpenInv, NEW c \in Calls, NEW ch \in Channels, LookAt(c, ch)
  PROVE  OpenInv'
  <1>1. /\ call[c].pc = "look" /\ MovesTo(c, "look", call[c].path, call[c].project)
        /\ call'[c].gone = IF files[map[ch]] = None THEN call[c].gone \cup {ch} ELSE call[c].gone
        /\ UNCHANGED <<files, map, locks, closed, crashes>>
    BY LookAtEffect
  <1>2. InFlight(c) /\ call[c].pc # "new" /\ call[c].pc \notin Ended \cup Storing
    BY <1>1 DEF InFlight, Ended, Storing
  <1>3. UpdateOK(c)'
    BY <1>1, WaitsUpdate
  <1>4. /\ OnlyCall(c) /\ Kind(c)' = Kind(c) /\ Chan(c)' = Chan(c) /\ call'[c].pc = "look"
        /\ call'[c].at = call[c].at
    BY <1>1, <1>2, MovesOK DEF MovesTo
  <1>5. OneAtATime'
    BY <1>2, <1>4, OneAtATimeStays DEF OpenInv
  <1>6. EntryUntouched(c)
    BY <1>1, <1>2, <1>4, SameUndisturbed, ChannelsOfCalls DEF OpenInv
  <1>7. \A d \in call'[c].gone : d \in call[c].gone \/ files[map[d]] = None
    BY <1>1
  <1>8. Unnoticed(c)
    BY <1>1, <1>2, <1>4, <1>7 DEF Unnoticed, StoreInv, StoreTypes
  <1> QED
    BY <1>2, <1>3, <1>5, <1>6, <1>8, UnnoticedInv

\* ... and so it drops no channel of an open change.
LEMMA PruneOpen ==
  ASSUME StoreInv, OpenInv, NEW c \in Calls, Prune(c)
  PROVE  OpenInv'
  <1>1. /\ call[c].pc = "look" /\ Op(c) = "list"
        /\ map' \in [Channels -> Paths \cup {None}]
        /\ \A ch \in Channels : map'[ch] = IF ch \in call[c].gone THEN None ELSE map[ch]
        /\ OnlyCall(c) /\ Answers(c, call'[c])
        /\ \/ call'[c].pc = "error"
           \/ Kind(c) = "list" /\ call'[c].pc = "ok"
           \/ Kind(c) = "propose" /\ call'[c].pc = "start" /\ call'[c].at = call[c].at + 1
        /\ UNCHANGED <<files, closed, crashes>>
    BY PruneEffect
  <1>2. InFlight(c) /\ call[c].pc # "new" /\ call[c].pc \notin Ended \cup Storing
    BY <1>1 DEF InFlight, Ended, Storing
  <1>3. /\ Kind(c)' = Kind(c) /\ Chan(c)' = Chan(c) /\ call'[c].project = call[c].project
        /\ call'[c].pc # "error" => call'[c].path = None
    BY <1>1 DEF Answers, Kind, Chan
  <1>4. /\ call[c] \in CallRecords /\ CallOK(c) /\ NamesOwn(c) /\ FindsNone(c)
        /\ Chan(c) \in Channels
    BY <1>2, StoreFacts, UpdateFacts
  <1>5. Kind(c) = "propose" => call[c].at = 4
    BY <1>1, <1>2, <1>4, MadeCall
  <1>6. UpdateOK(c)'
    <2>1. CASE call'[c].pc \in {"error", "ok"}
      BY <1>1, <1>2, <1>4, <2>1, AnswerUpdate
    <2>2. CASE Kind(c) = "propose" /\ call'[c].pc = "start" /\ call'[c].at = call[c].at + 1
      <3>1. call'[c].at = 5 /\ call'[c].path = None /\ call'[c].pc \notin Storing \cup {"file"}
        BY <1>3, <1>5, <2>2 DEF Storing
      <3>2. EntryStays(c)' /\ Stored(c)' /\ Overwrites(c)' /\ Creates(c)' /\ HasSeen(c)'
        BY <1>3, <2>2, <3>1 DEF EntryStays, Stored, Overwrites, Creates, HasSeen, Storing
      <3>3. NamesOwn(c)'
        BY <1>2, <1>3, <1>4 DEF NamesOwn
      <3>4. map'[Chan(c)] = map[Chan(c)] \/ map'[Chan(c)] = None
        BY <1>1, <1>4
      <3>5. map[Chan(c)] # None => NotOpen(map[Chan(c)])
        BY <1>1, <1>2, <1>4, <1>5, <2>2 DEF FindsNone
      <3>6. FindsNone(c)'
        BY <1>1, <1>3, <3>1, <3>4, <3>5 DEF FindsNone, NotOpen
      <3> QED
        BY <3>2, <3>3, <3>6 DEF UpdateOK
    <2> QED
      BY <1>1, <2>1, <2>2
  <1>7. OneAtATime'
    BY <1>1, <1>2, <1>3, OneAtATimeStays DEF OpenInv
  <1>8. EntryUntouched(c)
    <2> SUFFICES ASSUME NEW repo \in Repos, NEW x \in OpenChanges(repo),
                        ~EnteredByOther(Chan(x)), map[Chan(x)] = repo
                 PROVE  /\ map'[Chan(x)] = repo
                        /\ InFlight(c)' /\ Chan(c)' = Chan(x) => Undisturbed(c, repo)'
      BY DEF EntryUntouched
    <2>1. x \in Calls /\ Chan(x) \in Channels
      BY ChannelsOfCalls DEF OpenChanges, Answered
    <2>2. Chan(x) \notin call[c].gone
      BY <1>1 DEF OpenInv, EntryKept
    <2>3. Kind(c) = "propose" => Chan(c) # Chan(x)
      BY <1>2, <1>5 DEF OpenInv, EntryKept, Undisturbed
    <2> QED
      BY <1>1, <1>3, <2>1, <2>2, <2>3 DEF InFlight, Ended
  <1>9. Unnoticed(c)
    <2>1. ASSUME NEW d \in Calls, Updates(d), EntryStays(d), call[d].pc \in {"file"} \cup Storing,
                 call[d].path # None, files[call[d].path] # None
          PROVE  map'[Chan(d)] = map[Chan(d)]
      <3>1. Chan(d) \notin call[c].gone
        BY <1>1, <2>1 DEF EntryStays
      <3>2. Chan(d) \in Channels
        BY <2>1, StoreFacts, FlightLemma DEF Updates
      <3> QED
        BY <1>1, <3>1, <3>2
    <2>2. call'[c].pc # "look" /\ (call'[c].pc = "ok" => Kind(c) # "propose")
      BY <1>1
    <2> QED
      BY <1>1, <1>2, <1>3, <2>1, <2>2 DEF Unnoticed, Kind
  <1> QED
    BY <1>2, <1>6, <1>7, <1>8, <1>9, UnnoticedInv

\* The record that an update makes of the one it found.
LEMMA UpdatedUpdate ==
  ASSUME StoreInv, OpenInv, NEW c \in Calls, call[c].pc = "file", call[c].path \in Paths,
         files[call[c].path] # None, Op(c) \in {"settle", "update"},
         MovesTo(c, "write", call[c].path, Updated(c, files[call[c].path])),
         files' = files, map' = map
  PROVE  UpdateOK(c)'
  <1> DEFINE q == call[c].path
             cur == files[q]
             p == Updated(c, cur)
  <1>1. /\ call[c].pc # "new" /\ InFlight(c) /\ call[c] \in CallRecords /\ CallOK(c)
        /\ call[c].pc \notin Storing /\ Chan(c) \in Channels /\ q # None /\ q \in Paths
    BY StoreFacts DEF InFlight, Ended, Storing, CallOK
  <1>2. /\ EntryStays(c) /\ Stored(c) /\ Creates(c) /\ NamesOwn(c) /\ FindsNone(c)
        /\ HasSeen(c) /\ Overwrites(c)
    BY <1>1, UpdateFacts
  <1>3. /\ Kind(c)' = Kind(c) /\ Chan(c)' = Chan(c) /\ Repo(c)' = Repo(c) /\ Op(c)' = Op(c)
    BY <1>1, MovesOK
  <1>4. /\ call'[c].pc = "write" /\ call'[c].path = q /\ call'[c].project = p
        /\ call'[c].at = call[c].at /\ OnlyCall(c) /\ InFlight(c)'
    BY DEF MovesTo, InFlight, Ended
  <1>5. cur \in Projects /\ cur.repo = IF q \in Repos THEN q ELSE None
    BY <1>1 DEF StoreInv, StoreTypes, FilesPlaced
  <1>6. /\ Kind(c) \notin Reads /\ Kind(c) \in KindNames /\ Updates(c)
        /\ Op(c) = "settle" => call[c].at = 3 /\ Kind(c) \in {"use", "propose"}
        /\ Op(c) = "update" /\ Kind(c) \in {"use", "propose"} => call[c].at = 5
    BY <1>1, StoringUpdates
  <1>7. /\ p \in Projects
        /\ Op(c) = "settle" => p.chan = cur.chan /\ p.repo = cur.repo /\ p.status = "idle"
        /\ Op(c) = "update" /\ Kind(c) # "use" => p.chan = cur.chan /\ p.repo = cur.repo
        /\ Kind(c) = "touch" => p.change = cur.change /\ p.status = cur.status
        /\ Op(c) = "update" /\ Kind(c) = "propose" => p.change = c /\ p.status = "open"
        /\ Kind(c) \in {"finish", "archive"} => p.status \in {"done", "archived"}
    BY <1>1, <1>5, UpdatedLemma
  <1>8. ASSUME Op(c) = "update", Kind(c) = "use"
        PROVE  /\ p.repo = Repo(c)
               /\ Resumes(c) /\ call[c].seen.repo = Repo(c) =>
                     p.change = call[c].seen.change /\ p.status = call[c].seen.status
    BY <1>1, <1>5, <1>8, UpdatedLemma
  <1>9. p.repo = cur.repo => Target(p, q) = q
    BY <1>1, <1>5, <1>7, TargetLemma
  <1>10. Op(c) = "settle" => q = c /\ cur.chan = Chan(c) /\ q \notin Repos
    <2>1. c \notin Repos
      BY NamesAssumption DEF Ids
    <2> QED
      BY <1>1, <1>2, <1>6, <2>1 DEF Creates
  <1> HIDE DEF p
  <1>11. EntryStays(c)'
    <2>1. /\ map[Chan(c)] = q
          /\ \A d \in Calls : call[d].pc = "look" => Chan(c) \notin call[d].gone
      BY <1>1, <1>2, <1>6 DEF EntryStays
    <2>2. \A d \in Calls : call'[d].pc = "look" => call'[d] = call[d]
      BY <1>4 DEF OnlyCall
    <2> QED
      BY <1>3, <1>4, <2>1, <2>2 DEF EntryStays
  <1>12. Stored(c)'
    <2>1. ~Moves(c) => Target(p, q) = q
      BY <1>6, <1>7, <1>9 DEF Moves
    <2>2. Moves(c)' = Moves(c)
      BY <1>3, <1>4 DEF Moves
    <2> QED
      BY <1>1, <1>3, <1>4, <1>7, <2>1, <2>2 DEF Stored, HasOpenChange
  <1>13. Creates(c)'
    BY <1>1, <1>2, <1>3, <1>4, <1>6 DEF Creates
  <1>14. NamesOwn(c)'
    BY <1>3, <1>4, <1>7, <1>10 DEF NamesOwn, Storing
  <1>15. FindsNone(c)'
    BY <1>1, <1>2, <1>3, <1>4 DEF FindsNone, NotOpen
  <1>16. HasSeen(c)'
    BY <1>4 DEF HasSeen, Storing
  <1>17. Overwrites(c)'
    <2>1. ASSUME Target(p, q) \in Repos, files[Target(p, q)] # None, HasOpenChange(files[Target(p, q)])
          PROVE  \/ p.status \in {"done", "archived"}
                 \/ p.change = files[Target(p, q)].change /\ HasOpenChange(p)
      <3>1. CASE Op(c) = "settle"
        BY <1>7, <1>9, <1>10, <2>1, <3>1
      <3>2. CASE Op(c) = "update" /\ Kind(c) = "touch"
        BY <1>7, <1>9, <2>1, <3>2 DEF HasOpenChange
      <3>3. CASE Op(c) = "update" /\ Kind(c) = "propose"
        <4>1. NotOpen(q)
          BY <1>1, <1>2, <1>6, <3>3 DEF FindsNone
        <4> QED
          BY <1>7, <1>9, <2>1, <3>3, <4>1 DEF NotOpen
      <3>4. CASE Kind(c) \in {"finish", "archive"}
        BY <1>7, <3>4
      <3>5. CASE Op(c) = "update" /\ Kind(c) = "use"
        <4>1. Repo(c) \in Repos /\ Repo(c) # None
          BY <1>1, <3>5, NamesAssumption DEF CallOK
        <4>2. Target(p, q) = Repo(c)
          BY <1>1, <1>7, <1>8, <3>5, <4>1, TargetLemma
        <4>3. Resumes(c) /\ call[c].seen.change = files[Repo(c)].change
          BY <1>1, <1>2, <1>6, <2>1, <3>5, <4>2 DEF HasSeen
        <4>4. call[c].seen.repo = Repo(c) /\ HasOpenChange(call[c].seen)
          BY <4>3 DEF Resumes
        <4> QED
          BY <1>8, <3>5, <4>2, <4>3, <4>4 DEF HasOpenChange
      <3> QED
        BY <1>6, <3>1, <3>2, <3>3, <3>4, <3>5 DEF KindNames, Reads
    <2>2. Kind(c) = "touch" =>
            p.status = cur.status /\ p.change = cur.change /\ p.chan = cur.chan
      BY <1>6, <1>7
    <2> QED
      BY <1>3, <1>4, <2>1, <2>2 DEF Overwrites
  <1> QED
    BY <1>11, <1>12, <1>13, <1>14, <1>15, <1>16, <1>17 DEF UpdateOK

\* A record that was read: it is gone, it answers the operation, or it is updated.
LEMMA ReadFileOpen ==
  ASSUME StoreInv, OpenInv, NEW c \in Calls, ReadFile(c)
  PROVE  OpenInv'
  <1> DEFINE cur == files[call[c].path]
  <1>1. /\ call[c].pc = "file" /\ call[c].path \in Paths /\ cur \in Projects \cup {None}
        /\ UNCHANGED <<files, map, closed, crashes>>
        /\ \/ cur = None /\ MovesTo(c, "drop", call[c].path, call[c].project)
           \/ /\ cur # None /\ OnlyCall(c) /\ Answers(c, call'[c])
              /\ \/ Op(c) = "get" /\ call'[c] = AfterGet(c, cur)
                 \/ Op(c) = "create" /\ call'[c].pc = "error"
           \/ Op(c) = "create" /\ MovesTo(c, "write", None, Created(c))
           \/ /\ cur # None /\ Op(c) \in {"settle", "update"}
              /\ MovesTo(c, "write", call[c].path, Updated(c, cur))
    BY ReadFileEffect
  <1> HIDE DEF cur
  <1>2. /\ InFlight(c) /\ call[c].pc # "new" /\ call[c].pc \notin Ended \cup Storing
        /\ call[c] \in CallRecords /\ CallOK(c)
    BY <1>1, StoreFacts DEF InFlight, Ended, Storing
  <1>3. EntryStays(c) /\ NamesOwn(c)
    BY <1>2, UpdateFacts
  <1>4. map' \in [Channels -> Paths \cup {None}]
    BY <1>1 DEF StoreInv, StoreTypes
  <1>5. ASSUME NEW repo \in Repos, NEW x \in OpenChanges(repo), ~EnteredByOther(Chan(x)),
               Chan(x) = Chan(c)
        PROVE  /\ cur # None /\ HasOpenChange(cur)
               /\ Kind(c) \in {"use", "propose"} => call[c].at = 1
    <2>1. Undisturbed(c, repo)
      BY <1>2, <1>5 DEF OpenInv, EntryKept
    <2>2. files[repo] # None /\ HasOpenChange(files[repo])
      BY DEF OpenInv, RecordKept
    <2> QED
      BY <1>1, <2>1, <2>2 DEF Undisturbed, cur
  <1>6. CASE cur = None /\ MovesTo(c, "drop", call[c].path, call[c].project)
    <2>1. UpdateOK(c)'
      BY <1>1, <1>6, WaitsUpdate
    <2>2. /\ OnlyCall(c) /\ Kind(c)' = Kind(c) /\ Chan(c)' = Chan(c) /\ call'[c].pc = "drop"
      BY <1>2, <1>6, MovesOK DEF MovesTo
    <2>3. OneAtATime'
      BY <1>2, <2>2, OneAtATimeStays DEF OpenInv
    <2>4. EntryUntouched(c)
      BY <1>1, <1>5, <1>6, <2>2, FreeChannel, ChannelsOfCalls
    <2>5. Unnoticed(c)
      BY <1>1, <1>2, <1>4, <2>2 DEF Unnoticed
    <2> QED
      BY <1>2, <2>1, <2>3, <2>4, <2>5, UnnoticedInv
  <1>7. CASE /\ cur # None /\ OnlyCall(c) /\ Answers(c, call'[c])
             /\ \/ Op(c) = "get" /\ call'[c] = AfterGet(c, cur)
                \/ Op(c) = "create" /\ call'[c].pc = "error"
    <2>1. /\ Kind(c)' = Kind(c) /\ Chan(c)' = Chan(c) /\ call'[c].project = call[c].project
          /\ call'[c].pc \in {"start", "ok", "error"} /\ (call'[c].pc # "error" => call'[c].path = None)
      BY <1>7 DEF Answers, Kind, Chan
    <2>2. /\ call'[c].pc = "start" /\ Kind(c) \in {"use", "propose"} =>
                call'[c].at = 4 /\ Serves(c, cur)
          /\ call'[c].pc = "ok" => Kind(c) = "get"
      BY <1>1, <1>2, <1>7, AfterGetLemma
    <2>3. Serves(c, cur) /\ Kind(c) \in {"use", "propose"} => ~HasOpenChange(cur)
      BY DEF Serves, Allows
    <2>4. UpdateOK(c)'
      <3>1. CASE call'[c].pc # "start" \/ Kind(c) \notin {"use", "propose"}
        BY <1>2, <1>3, <1>7, <3>1, AnswerUpdate
      <3>2. CASE call'[c].pc = "start" /\ Kind(c) \in {"use", "propose"}
        <4>1. call'[c].at = 4 /\ call'[c].path = None /\ ~HasOpenChange(cur)
          BY <2>1, <2>2, <2>3, <3>2
        <4>2. EntryStays(c)' /\ Stored(c)' /\ Overwrites(c)' /\ Creates(c)' /\ HasSeen(c)'
          BY <2>1, <3>2, <4>1 DEF EntryStays, Stored, Overwrites, Creates, HasSeen, Storing
        <4>3. NamesOwn(c)'
          BY <1>2, <1>3, <2>1 DEF NamesOwn
        <4>4. map[Chan(c)] = call[c].path
          <5>1. Updates(c) /\ call[c].path # None
            BY <1>1, <1>2, <3>2 DEF Updates, Reads, CallOK
          <5> QED
            BY <1>1, <1>3, <1>7, <5>1 DEF EntryStays, cur
        <4>5. FindsNone(c)'
          BY <1>1, <2>1, <4>1, <4>4 DEF FindsNone, NotOpen, cur
        <4> QED
          BY <4>2, <4>3, <4>5 DEF UpdateOK
      <3> QED
        BY <3>1, <3>2
    <2>5. OneAtATime'
      BY <1>2, <1>7, <2>1, OneAtATimeStays DEF OpenInv
    <2>6. EntryUntouched(c)
      <3> SUFFICES ASSUME NEW repo \in Repos, NEW x \in OpenChanges(repo),
                          ~EnteredByOther(Chan(x)), map[Chan(x)] = repo,
                          InFlight(c)', Chan(c) = Chan(x)
                   PROVE  Undisturbed(c, repo)'
        BY <1>1, <2>1 DEF EntryUntouched
      <3>1. call'[c].pc = "start"
        BY <2>1 DEF InFlight, Ended
      <3> QED
        BY <1>5, <2>1, <2>2, <2>3, <3>1 DEF Undisturbed
    <2>7. Unnoticed(c)
      BY <1>1, <1>2, <1>4, <1>7, <2>1, <2>2 DEF Unnoticed, Kind
    <2> QED
      BY <1>2, <2>4, <2>5, <2>6, <2>7, UnnoticedInv
  <1>8. CASE Op(c) = "create" /\ MovesTo(c, "write", None, Created(c))
    <2>1. /\ UpdateOK(c)' /\ Kind(c)' = Kind(c) /\ Chan(c)' = Chan(c)
          /\ call[c].at = 2 /\ Kind(c) \in {"use", "propose"}
      BY <1>1, <1>8, CreateUpdate
    <2>2. OnlyCall(c) /\ call'[c].pc = "write"
      BY <1>8 DEF MovesTo
    <2>3. OneAtATime'
      BY <1>2, <2>1, <2>2, OneAtATimeStays DEF OpenInv
    <2>4. EntryUntouched(c)
      BY <1>1, <1>5, <2>1, <2>2, FreeChannel, ChannelsOfCalls
    <2>5. Unnoticed(c)
      BY <1>1, <1>2, <1>4, <2>2 DEF Unnoticed
    <2> QED
      BY <1>2, <2>1, <2>3, <2>4, <2>5, UnnoticedInv
  <1>9. CASE /\ cur # None /\ Op(c) \in {"settle", "update"}
             /\ MovesTo(c, "write", call[c].path, Updated(c, cur))
    <2>1. UpdateOK(c)'
      BY <1>1, <1>9, UpdatedUpdate DEF cur
    <2>2. /\ OnlyCall(c) /\ Kind(c)' = Kind(c) /\ Chan(c)' = Chan(c) /\ call'[c].pc = "write"
          /\ call'[c].at = call[c].at
      BY <1>2, <1>9, MovesOK DEF MovesTo
    <2>3. OneAtATime'
      BY <1>2, <2>2, OneAtATimeStays DEF OpenInv
    <2>4. EntryUntouched(c)
      BY <1>1, <1>2, <2>2, SameUndisturbed, ChannelsOfCalls DEF OpenInv
    <2>5. Unnoticed(c)
      BY <1>1, <1>2, <1>4, <2>2 DEF Unnoticed
    <2> QED
      BY <1>2, <2>1, <2>3, <2>4, <2>5, UnnoticedInv
  <1> QED
    BY <1>1, <1>6, <1>7, <1>8, <1>9

\* What a touch writes has the same change, status and channel as before.
SameRecords ==
    \A q \in Paths :
        /\ files'[q] = None <=> files[q] = None
        /\ files[q] # None => /\ files'[q].status = files[q].status
                              /\ files'[q].change = files[q].change
                              /\ files'[q].chan = files[q].chan

\* The other calls while one stores its record: none of them stores or has found
\* a record, and those on their way to an update wait for a touch.
LEMMA OthersWait ==
  ASSUME StoreInv, OpenInv, NEW c \in Calls, OnlyCall(c), call[c].pc \in Storing,
         Kind(c) = "touch" => SameRecords /\ map'[Chan(c)] \in {map[Chan(c)], None},
         NEW d \in Calls, d # c, call[d].pc # "new"
  PROVE  UpdateOK(d)'
  <1>1. /\ call'[d] = call[d] /\ UpdateOK(d) /\ Kind(d)' = Kind(d) /\ Chan(d)' = Chan(d)
        /\ Repo(d)' = Repo(d) /\ Op(d)' = Op(d)
    BY DEF OnlyCall, OpenInv, Kind, Chan, Repo, Op
  <1>2. InFlight(d)' = InFlight(d) /\ Updates(d)' = Updates(d)
    BY <1>1 DEF InFlight, Updates
  <1>3. /\ call[c].pc # "new" /\ call[c].pc \in Locked /\ Updates(c)
        /\ Op(c) \in {"create", "settle", "update"}
    BY PlaceLemma, StoringUpdates, FlightLemma
  <1>4. Updates(d) => /\ Chan(d) = Chan(c) /\ call[d].pc \notin Locked
                      /\ call[d].pc \notin {"record", "file", "drop", "write", "remove", "map"}
                      /\ Kind(d) \in {"use", "propose"} => Kind(c) = "touch"
    BY <1>3, OnlyWriter
  <1>5. call[d].pc \notin Storing
    <2> SUFFICES ASSUME call[d].pc \in Storing PROVE FALSE
      OBVIOUS
    <2>1. Updates(d)
      BY PlaceLemma, StoringUpdates, FlightLemma
    <2> QED
      BY <1>4, <2>1 DEF Storing
  <1>6. ASSUME InFlight(d), Kind(d) \in {"use", "propose"}
        PROVE  /\ SameRecords /\ map'[Chan(d)] \in {map[Chan(d)], None}
               /\ call[d].path \in Paths \cup {None} /\ map[Chan(d)] \in Paths \cup {None}
               /\ Kind(d) = "use" => Repo(d) \in Paths
    <2>1. Updates(d)
      BY <1>6 DEF Updates, Reads
    <2>2. Chan(d) = Chan(c) /\ Kind(c) = "touch"
      BY <1>4, <1>6, <2>1
    <2>3. call[d] \in CallRecords /\ CallOK(d) /\ Chan(d) \in Channels
      BY StoreFacts
    <2>4. call[d].path \in Paths \cup {None} /\ map[Chan(d)] \in Paths \cup {None}
      BY <2>3, CallFields DEF StoreInv, StoreTypes
    <2>5. Kind(d) = "use" => Repo(d) \in Paths
      BY <2>3 DEF CallOK, Paths
    <2> QED
      BY <2>2, <2>4, <2>5
  <1>7. EntryStays(d)'
    BY <1>1, <1>2, <1>4, <1>5 DEF EntryStays
  <1>8. Stored(d)' /\ Overwrites(d)'
    BY <1>1, <1>5 DEF Stored, Overwrites, Storing
  <1>9. Creates(d)'
    <2>1. d \in Paths
      BY DEF Paths, Ids
    <2>2. ASSUME Kind(d) \in {"use", "propose"}, InFlight(d), call[d].at = 3
          PROVE  /\ call[d].path \in {None, d} /\ map'[Chan(d)] \in {None, d}
                 /\ files'[d] # None => files'[d].chan = Chan(d)
      BY <1>1, <1>6, <2>1, <2>2 DEF UpdateOK, Creates, SameRecords
    <2> QED
      BY <1>1, <1>2, <1>5, <2>2 DEF Creates
  <1>10. NamesOwn(d)'
    BY <1>1 DEF UpdateOK, NamesOwn
  <1>11. FindsNone(d)'
    <2>1. ASSUME Kind(d) \in {"use", "propose"}, InFlight(d),
                 NEW q \in Paths, files[q] # None => ~HasOpenChange(files[q])
          PROVE  files'[q] # None => ~HasOpenChange(files'[q])
      BY <1>6, <2>1 DEF SameRecords, HasOpenChange
    <2> DEFINE StaysClosed(q) == q # None => (files'[q] # None => ~HasOpenChange(files'[q]))
    <2>2. ASSUME Kind(d) \in {"use", "propose"}, call[d].at \in {4, 5}, InFlight(d)
          PROVE  StaysClosed(map'[Chan(d)]) /\ StaysClosed(call[d].path)
      <3>1. /\ map[Chan(d)] # None => NotOpen(map[Chan(d)])
            /\ call[d].path # None => NotOpen(call[d].path)
        BY <1>1, <1>5, <2>2 DEF UpdateOK, FindsNone, Storing
      <3>2. StaysClosed(call[d].path)
        BY <1>6, <2>1, <2>2, <3>1 DEF NotOpen
      <3>3. StaysClosed(map'[Chan(d)])
        <4> SUFFICES ASSUME map'[Chan(d)] # None
                     PROVE  StaysClosed(map'[Chan(d)])
          OBVIOUS
        <4>1. map'[Chan(d)] = map[Chan(d)] /\ map[Chan(d)] \in Paths
          BY <1>6, <2>2
        <4> QED
          BY <2>1, <2>2, <3>1, <4>1 DEF NotOpen
      <3> QED
        BY <3>2, <3>3
    <2> QED
      BY <1>1, <1>2, <2>2 DEF FindsNone, NotOpen, HasOpenChange
  <1>12. HasSeen(d)'
    <2>1. ASSUME Kind(d) = "use", call[d].at = 5, InFlight(d),
                 files'[Repo(d)] # None, files'[Repo(d)].status = "open"
          PROVE  Resumes(d) /\ call[d].seen.change = files'[Repo(d)].change
      <3>1. /\ files[Repo(d)] # None /\ files[Repo(d)].status = "open"
            /\ files'[Repo(d)].change = files[Repo(d)].change
        BY <1>6, <2>1 DEF SameRecords
      <3> QED
        BY <1>1, <1>5, <2>1, <3>1 DEF UpdateOK, HasSeen, HasOpenChange
    <2>2. Resumes(d)' = Resumes(d)
      BY <1>1 DEF Resumes
    <2> QED
      BY <1>1, <1>2, <2>1, <2>2 DEF HasSeen, HasOpenChange
  <1> QED
    BY <1>7, <1>8, <1>9, <1>10, <1>11, <1>12 DEF UpdateOK

\* The entries while a call goes on storing its record.
LEMMA StoringEntries ==
  ASSUME StoreInv, OpenInv, NEW c \in Calls, call[c].pc \in Storing, NEW pc \in {"remove", "map"},
         MovesTo(c, pc, call[c].path, call[c].project), map' = map, closed \subseteq closed'
  PROVE  EntryKept' /\ OneAtATime'
         /\ \A repo \in Repos : \A x \in OpenChanges(repo)' :
               x \in OpenChanges(repo) /\ x \notin closed'
  <1>1. InFlight(c) /\ call[c].pc # "new"
    BY FlightLemma
  <1>2. /\ OnlyCall(c) /\ call'[c].pc = pc /\ call'[c].project = call[c].project
        /\ call'[c].at = call[c].at /\ Kind(c)' = Kind(c) /\ Chan(c)' = Chan(c)
    BY <1>1, MovesOK DEF MovesTo
  <1>3. ASSUME NEW repo \in Repos, NEW x \in OpenChanges(repo)'
        PROVE  /\ x \in OpenChanges(repo) /\ x \in Calls /\ x # c /\ call'[x] = call[x]
               /\ Chan(x)' = Chan(x) /\ x \notin closed'
    BY <1>1, <1>2, NoNewOpen
  <1>4. EntryKept'
    <2> SUFFICES ASSUME NEW repo \in Repos, NEW x \in OpenChanges(repo)',
                        ~EnteredByOther(Chan(x))'
                 PROVE  /\ map'[Chan(x)] = repo
                        /\ \A d \in Calls :
                              /\ call'[d].pc = "look" => Chan(x) \notin call'[d].gone
                              /\ InFlight(d)' /\ Chan(d)' = Chan(x) => Undisturbed(d, repo)'
      BY <1>3 DEF EntryKept
    <2>1. /\ x \in OpenChanges(repo) /\ x \in Calls /\ Chan(x)' = Chan(x)
      BY <1>3
    <2>2. ~EnteredByOther(Chan(x))
      <3>1. \A d \in Calls : call'[d].project = call[d].project /\ Chan(d)' = Chan(d)
        BY <1>2 DEF OnlyCall, Chan
      <3> QED
        BY <2>1, <3>1 DEF EnteredByOther
    <2>3. /\ map[Chan(x)] = repo
          /\ \A d \in Calls :
                /\ call[d].pc = "look" => Chan(x) \notin call[d].gone
                /\ InFlight(d) /\ Chan(d) = Chan(x) => Undisturbed(d, repo)
      BY <2>1, <2>2 DEF OpenInv, EntryKept
    <2>4. Chan(c)' = Chan(x) => Undisturbed(c, repo)'
      BY <1>1, <1>2, <2>3 DEF Undisturbed
    <2>5. ASSUME NEW d \in Calls, d # c
          PROVE  /\ call'[d].pc = "look" => Chan(x) \notin call'[d].gone
                 /\ InFlight(d)' /\ Chan(d)' = Chan(x) => Undisturbed(d, repo)'
      <3>1. call'[d] = call[d]
        BY <1>2, <2>5 DEF OnlyCall
      <3> QED
        BY <2>3, <3>1 DEF InFlight, Chan, Kind, Undisturbed
    <2> QED
      BY <1>2, <2>3, <2>4, <2>5
  <1>5. OneAtATime'
    BY <1>1, <1>2, OneAtATimeStays DEF OpenInv
  <1> QED
    BY <1>3, <1>4, <1>5

\* A record that is written over an open change keeps it or closes it.
LEMMA WriteFileOpen ==
  ASSUME StoreInv, OpenInv, NEW c \in Calls, WriteFile(c)
  PROVE  OpenInv'
  <1> DEFINE p == call[c].project
             q == call[c].path
             pc == IF q \in {None, Place(c)} THEN "map" ELSE "remove"
  <1>1. /\ call[c].pc = "write" /\ call[c].pc \in Storing
        /\ files' \in [Paths -> Projects \cup {None}]
        /\ files'[Place(c)] = p
        /\ \A r \in Paths : r # Place(c) => files'[r] = files[r]
        /\ MovesTo(c, pc, q, p)
        /\ closed \subseteq closed'
        /\ p.status \in {"done", "archived"} /\ files[Place(c)] # None =>
              files[Place(c)].change \in closed'
        /\ UNCHANGED <<map, locks, crashes>>
    BY WriteFileEffect
  <1>2. pc \in {"remove", "map"} /\ (pc = "remove" => q # Place(c) /\ q # None)
    OBVIOUS
  <1> HIDE DEF pc
  <1>3. /\ p \in Projects /\ p # None /\ Place(c) \in Paths /\ Place(c) # None /\ call[c].pc # "new"
        /\ Op(c) \in {"create", "settle", "update"} /\ Chan(c) \in Channels /\ InFlight(c)
        /\ q \in Paths \cup {None}
    BY <1>1, PlaceLemma, ProjectFields, FlightLemma
  <1>4. /\ Updates(c) /\ Kind(c) \notin Reads
        /\ Op(c) = "create" => call[c].at = 2 /\ Kind(c) \in {"use", "propose"}
        /\ Op(c) = "settle" => call[c].at = 3 /\ Kind(c) \in {"use", "propose"}
        /\ Op(c) = "update" /\ Kind(c) \in {"use", "propose"} => call[c].at = 5
    BY <1>3, StoringUpdates
  <1>5. /\ EntryStays(c) /\ Stored(c) /\ Creates(c) /\ NamesOwn(c) /\ FindsNone(c)
        /\ HasSeen(c) /\ Overwrites(c)
    BY <1>3, UpdateFacts
  <1>6. /\ Kind(c)' = Kind(c) /\ Chan(c)' = Chan(c) /\ Repo(c)' = Repo(c) /\ Op(c)' = Op(c)
        /\ OnlyCall(c) /\ call'[c].pc = pc /\ call'[c].path = q /\ call'[c].project = p
        /\ call'[c].at = call[c].at /\ call'[c].pc \in {"remove", "map"}
    BY <1>1, <1>2, <1>3, MovesOK DEF MovesTo
  <1>7. Op(c) # "create" /\ ~Moves(c) => q # None /\ Place(c) = q
    BY <1>1, <1>5 DEF Stored, Place
  <1>8. q # None => /\ files[q] # None /\ map[Chan(c)] = q
                    /\ \A d \in Calls : call[d].pc = "look" => Chan(c) \notin call[d].gone
    BY <1>1, <1>4, <1>5 DEF EntryStays
  <1>9. Kind(c) = "touch" => SameRecords
    <2> SUFFICES ASSUME Kind(c) = "touch" PROVE SameRecords
      OBVIOUS
    <2>1. Place(c) = q /\ q # None
      BY <1>4, <1>7 DEF Moves
    <2>2. /\ p.status = files[q].status /\ p.change = files[q].change /\ p.chan = files[q].chan
      BY <1>1, <1>5 DEF Overwrites
    <2> QED
      BY <1>1, <1>3, <1>8, <2>1, <2>2 DEF SameRecords
  <1>10. \A d \in Calls : d # c /\ call[d].pc # "new" => UpdateOK(d)'
    BY <1>1, <1>6, <1>9, OthersWait
  <1>11. UpdateOK(c)'
    <2>1. EntryStays(c)'
      <3>1. \A d \in Calls : call'[d].pc = "look" => call'[d] = call[d]
        BY <1>6 DEF OnlyCall
      <3> QED
        BY <1>1, <1>6, <1>8, <3>1 DEF EntryStays
    <2>2. Stored(c)'
      <3>1. call[c].pc \in Storing /\ call'[c].pc \in Storing /\ Moves(c)' = Moves(c)
        BY <1>1, <1>6 DEF Storing, Moves
      <3>2. Place(c) = Target(p, q)
        BY DEF Place
      <3>3. files'[Target(p, q)] = p
        BY <1>1, <3>2
      <3>4. /\ Op(c) # "create" /\ ~Moves(c) => q # None /\ Target(p, q) = q
            /\ Op(c) = "update" /\ Kind(c) = "propose" => p.change = c /\ p.status = "open"
        BY <1>5, <3>1 DEF Stored, HasOpenChange
      <3>5. pc = "remove" =>
              q # Target(p, q) /\ (files'[q] # None => files'[q].status # "open")
        <4> SUFFICES ASSUME pc = "remove" PROVE q # Place(c) /\ NotOpen(q)
          BY <1>1, <1>2, <1>3, <3>2 DEF NotOpen, HasOpenChange
        <4>1. Op(c) = "create" => q = None
          BY <1>1, <1>3, <1>4, <1>5 DEF Creates, Storing
        <4>2. Moves(c)
          BY <1>2, <1>7, <4>1
        <4>3. NotOpen(q)
          BY <1>1, <1>2, <1>3, <1>5, <4>2 DEF FindsNone, Moves
        <4> QED
          BY <1>2, <4>3
      <3> QED
        BY <1>6, <3>1, <3>3, <3>4, <3>5 DEF Stored, HasOpenChange, NotOpen
    <2>3. Creates(c)'
      <3>1. ASSUME Kind(c) \in {"use", "propose"}, call[c].at = 3
            PROVE  files'[c] # None => files'[c].chan = Chan(c)
        <4>1. Op(c) = "settle"
          BY <1>1, <1>3, <1>4, <3>1
        <4>2. Place(c) = q /\ q \in {None, c} /\ q # None
          BY <1>3, <1>5, <1>7, <3>1, <4>1 DEF Moves, Creates
        <4>3. p.chan = Chan(c)
          BY <1>1, <1>3, <1>5, <4>1 DEF NamesOwn, Ended
        <4> QED
          BY <1>1, <4>2, <4>3
      <3>2. call[c].pc \in Storing /\ call'[c].pc \in Storing
        BY <1>1, <1>6 DEF Storing
      <3> QED
        BY <1>1, <1>3, <1>5, <1>6, <3>1, <3>2 DEF Creates
    <2>4. NamesOwn(c)'
      BY <1>1, <1>5, <1>6 DEF NamesOwn, Storing, Ended
    <2>5. FindsNone(c)' /\ HasSeen(c)' /\ Overwrites(c)'
      BY <1>6 DEF FindsNone, HasSeen, Overwrites, Storing
    <2> QED
      BY <2>1, <2>2, <2>3, <2>4, <2>5 DEF UpdateOK
  <1>12. /\ EntryKept' /\ OneAtATime'
         /\ \A repo \in Repos : \A x \in OpenChanges(repo)' :
               x \in OpenChanges(repo) /\ x \notin closed'
    BY <1>1, <1>2, StoringEntries
  <1>13. RecordKept'
    <2> SUFFICES ASSUME NEW repo \in Repos, NEW x \in OpenChanges(repo)'
                 PROVE  files'[repo] # None /\ files'[repo].change = x /\ files'[repo].status = "open"
      BY DEF RecordKept, HasOpenChange
    <2>1. /\ files[repo] # None /\ files[repo].change = x /\ HasOpenChange(files[repo])
          /\ x \notin closed' /\ repo \in Paths
      BY <1>12 DEF OpenInv, RecordKept, Paths
    <2>2. CASE repo # Place(c)
      BY <1>1, <2>1, <2>2 DEF HasOpenChange
    <2>3. CASE repo = Place(c)
      <3>1. \/ p.status \in {"done", "archived"}
            \/ p.change = x /\ HasOpenChange(p)
        BY <1>1, <1>5, <2>1, <2>3 DEF Overwrites, Place
      <3> QED
        BY <1>1, <1>3, <2>1, <2>3, <3>1 DEF HasOpenChange
    <2> QED
      BY <2>2, <2>3
  <1>14. \A d \in Calls : call'[d].pc # "new" => UpdateOK(d)'
    BY <1>6, <1>10, <1>11 DEF OnlyCall
  <1> QED
    BY <1>12, <1>13, <1>14 DEF OpenInv

\* What a move leaves behind is not open.
LEMMA RemoveFileOpen ==
  ASSUME StoreInv, OpenInv, NEW c \in Calls, RemoveFile(c)
  PROVE  OpenInv'
  <1> DEFINE p == call[c].project
             q == call[c].path
  <1>1. /\ call[c].pc = "remove" /\ call[c].pc \in Storing
        /\ q \in Paths
        /\ files' \in [Paths -> Projects \cup {None}]
        /\ files'[q] = None
        /\ \A r \in Paths : r # q => files'[r] = files[r]
        /\ MovesTo(c, "map", q, p)
        /\ UNCHANGED <<map, locks, closed, crashes>>
    BY RemoveFileEffect
  <1>2. /\ Place(c) \in Paths /\ call[c].pc # "new"
        /\ Op(c) \in {"create", "settle", "update"} /\ InFlight(c) /\ CallOK(c)
    BY <1>1, PlaceLemma, StoreFacts, FlightLemma
  <1>3. /\ Updates(c)
        /\ Op(c) = "create" => call[c].at = 2 /\ Kind(c) \in {"use", "propose"}
    BY <1>2, StoringUpdates
  <1>4. /\ EntryStays(c) /\ Stored(c) /\ Creates(c) /\ NamesOwn(c)
    BY <1>2, UpdateFacts
  <1>5. /\ Kind(c)' = Kind(c) /\ Chan(c)' = Chan(c) /\ Op(c)' = Op(c)
        /\ OnlyCall(c) /\ call'[c].pc = "map" /\ call'[c].path = q /\ call'[c].project = p
        /\ call'[c].at = call[c].at
    BY <1>1, <1>2, MovesOK DEF MovesTo
  <1>6. q # Place(c) /\ NotOpen(q) /\ files[Place(c)] = p
    BY <1>1, <1>4 DEF Stored, Place
  <1>7. Kind(c) = "use" /\ call[c].at = 5
    <2>1. q # None
      BY <1>1, <1>2 DEF CallOK
    <2>2. Op(c) # "create"
      BY <1>1, <1>2, <1>3, <1>4, <2>1 DEF Creates
    <2> QED
      BY <1>1, <1>4, <1>6, <2>2 DEF Stored, Moves, Place
  <1>8. \A d \in Calls : d # c /\ call[d].pc # "new" => UpdateOK(d)'
    BY <1>1, <1>5, <1>7, OthersWait
  <1>9. UpdateOK(c)'
    <2>1. EntryStays(c)'
      BY <1>1, <1>5 DEF EntryStays
    <2>2. Stored(c)'
      <3>1. files'[Target(p, q)] = p
        BY <1>1, <1>2, <1>6 DEF Place
      <3> QED
        BY <1>5, <1>7, <3>1 DEF Stored, Moves
    <2>3. Creates(c)'
      BY <1>5, <1>7 DEF Creates
    <2>4. NamesOwn(c)'
      BY <1>1, <1>4, <1>5 DEF NamesOwn, Storing, Ended
    <2>5. FindsNone(c)' /\ HasSeen(c)' /\ Overwrites(c)'
      BY <1>5 DEF FindsNone, HasSeen, Overwrites, Storing
    <2> QED
      BY <2>1, <2>2, <2>3, <2>4, <2>5 DEF UpdateOK
  <1>10. /\ EntryKept' /\ OneAtATime'
         /\ \A repo \in Repos : \A x \in OpenChanges(repo)' :
               x \in OpenChanges(repo) /\ x \notin closed'
    BY <1>1, StoringEntries
  <1>11. RecordKept'
    <2> SUFFICES ASSUME NEW repo \in Repos, NEW x \in OpenChanges(repo)'
                 PROVE  files'[repo] # None /\ files'[repo].change = x /\ files'[repo].status = "open"
      BY DEF RecordKept, HasOpenChange
    <2>1. /\ files[repo] # None /\ files[repo].change = x /\ HasOpenChange(files[repo])
          /\ repo \in Paths
      BY <1>10 DEF OpenInv, RecordKept, Paths
    <2> QED
      BY <1>1, <1>6, <2>1 DEF HasOpenChange, NotOpen
  <1>12. \A d \in Calls : call'[d].pc # "new" => UpdateOK(d)'
    BY <1>5, <1>8, <1>9 DEF OnlyCall
  <1> QED
    BY <1>10, <1>11, <1>12 DEF OpenInv

\* An entry of the map leads to the record that was stored, and the proposal that
\* is answered with it has its change there.
LEMMA WriteRecordOpen ==
  ASSUME StoreInv, OpenInv, NEW c \in Calls, WriteRecord(c)
  PROVE  OpenInv'
  <1> DEFINE p == call[c].project
             q == call[c].path
  <1>1. /\ call[c].pc = "map" /\ call[c].pc \in Storing /\ IsFree("map")
        /\ map' \in [Channels -> Paths \cup {None}]
        /\ p.chan \in Channels
        /\ map'[p.chan] = IF p.status = "archived" THEN None ELSE Place(c)
        /\ \A ch \in Channels : ch # p.chan => map'[ch] = map[ch]
        /\ OnlyCall(c) /\ Answers(c, call'[c])
        /\ IF Op(c) = "update"
           THEN call'[c].pc = "ok" /\ call'[c].at = call[c].at
           ELSE \/ call'[c].pc = "error"
                \/ /\ call'[c].pc = "start" /\ call'[c].at = call[c].at + 1
                   /\ Op(c) = "settle" => Serves(c, p)
        /\ UNCHANGED <<files, closed, crashes>>
    BY WriteRecordEffect
  <1>2. /\ p \in Projects /\ p # None /\ Place(c) \in Paths /\ Place(c) # None /\ call[c].pc # "new"
        /\ p.repo # None => Place(c) = p.repo
        /\ p.repo = None /\ q = None => Place(c) = p.id
        /\ Op(c) \in {"create", "settle", "update"} /\ Chan(c) \in Channels /\ InFlight(c)
        /\ call[c].pc \in Locked /\ call[c].pc \notin Ended
        /\ call[c] \in CallRecords /\ CallOK(c)
    BY <1>1, PlaceLemma, ProjectFields, FlightLemma, StoreFacts
  <1>3. /\ Updates(c) /\ Kind(c) \notin Reads
        /\ Op(c) = "create" => call[c].at = 2 /\ Kind(c) \in {"use", "propose"}
        /\ Op(c) = "settle" => call[c].at = 3 /\ Kind(c) \in {"use", "propose"}
        /\ Op(c) = "update" /\ Kind(c) \in {"use", "propose"} => call[c].at = 5
    BY <1>2, StoringUpdates
  <1>4. EntryStays(c) /\ Stored(c) /\ Creates(c) /\ NamesOwn(c)
    BY <1>2, UpdateFacts
  <1>5. /\ Kind(c)' = Kind(c) /\ Chan(c)' = Chan(c) /\ call'[c].project = p
        /\ call'[c].pc \in {"start", "ok", "error"}
        /\ call'[c].pc # "error" => call'[c].path = None
    BY <1>1 DEF Answers, Kind, Chan
  <1>6. files[Place(c)] = p
    BY <1>1, <1>4 DEF Stored, Place
  <1>7. Op(c) # "create" /\ ~Moves(c) =>
           q # None /\ Place(c) = q /\ map[Chan(c)] = Place(c)
    <2> SUFFICES ASSUME Op(c) # "create", ~Moves(c)
                 PROVE  q # None /\ Place(c) = q /\ map[Chan(c)] = q
      OBVIOUS
    <2>1. q # None /\ Place(c) = q
      BY <1>1, <1>4 DEF Stored, Place
    <2> QED
      BY <1>1, <1>2, <1>3, <1>4, <1>6, <2>1 DEF EntryStays
  <1>8. Kind(c) = "touch" => SameRecords /\ map'[Chan(c)] \in {map[Chan(c)], None}
    <2> SUFFICES ASSUME Kind(c) = "touch" PROVE map'[Chan(c)] \in {map[Chan(c)], None}
      BY <1>1 DEF SameRecords
    <2>1. map[Chan(c)] = Place(c)
      BY <1>3, <1>7 DEF Moves
    <2> QED
      BY <1>1, <1>2, <2>1
  <1>9. \A d \in Calls : d # c /\ call[d].pc # "new" => UpdateOK(d)'
    BY <1>1, <1>8, OthersWait
  <1>10. UpdateOK(c)'
    <2>1. CASE call'[c].pc # "start"
      BY <1>1, <1>2, <1>4, <2>1, AnswerUpdate
    <2>2. CASE call'[c].pc = "start"
      <3>1. /\ call'[c].path = None /\ call'[c].at = call[c].at + 1
            /\ Op(c) \in {"create", "settle"} /\ Kind(c) \in {"use", "propose"}
        BY <1>1, <1>2, <1>3, <1>5, <2>2
      <3>2. EntryStays(c)' /\ Stored(c)' /\ Overwrites(c)'
        BY <2>2 DEF EntryStays, Stored, Overwrites, Storing
      <3>3. p.chan = Chan(c)
        BY <1>2, <1>4, <3>1 DEF NamesOwn
      <3>4. NamesOwn(c)' /\ HasSeen(c)'
        BY <1>3, <1>5, <3>1, <3>3 DEF NamesOwn, HasSeen
      <3>5. Creates(c)'
        <4>1. CASE Op(c) = "create"
          <5>1. Place(c) = c
            BY <1>1, <1>2, <1>3, <1>4, <4>1 DEF Creates
          <5>2. call'[c].at = 3 /\ map'[Chan(c)] \in {None, c} /\ files'[c] = p
            BY <1>1, <1>3, <1>6, <3>1, <3>3, <4>1, <5>1
          <5> QED
            BY <1>5, <2>2, <3>1, <3>3, <5>2 DEF Creates, Storing
        <4>2. CASE Op(c) = "settle"
          BY <1>3, <2>2, <3>1, <4>2 DEF Creates, Storing
        <4> QED
          BY <3>1, <4>1, <4>2
      <3>6. FindsNone(c)'
        <4>1. CASE Op(c) = "create"
          BY <1>3, <3>1, <4>1 DEF FindsNone
        <4>2. CASE Op(c) = "settle"
          <5>1. ~HasOpenChange(p)
            BY <1>1, <2>2, <3>1, <4>2 DEF Serves, Allows
          <5>2. map'[Chan(c)] \in {None, Place(c)}
            BY <1>1, <3>3
          <5>3. files'[Place(c)] = p
            BY <1>1, <1>6
          <5>4. map'[Chan(c)] # None /\ files'[map'[Chan(c)]] # None =>
                    files'[map'[Chan(c)]].status # "open"
            BY <5>1, <5>2, <5>3 DEF HasOpenChange
          <5> QED
            BY <1>5, <3>1, <5>4 DEF FindsNone, NotOpen, HasOpenChange
        <4> QED
          BY <3>1, <4>1, <4>2
      <3> QED
        BY <3>2, <3>4, <3>5, <3>6 DEF UpdateOK
    <2> QED
      BY <2>1, <2>2
  <1>11. OneAtATime'
    BY <1>1, <1>2, <1>5, OneAtATimeStays DEF OpenInv
  <1>12. ASSUME NEW repo \in Repos, c \in OpenChanges(repo)'
         PROVE  /\ files[repo] = p /\ p.change = c /\ p.status = "open" /\ Place(c) = repo
                /\ Kind(c) = "propose" /\ map[Chan(c)] = repo
    <2>1. call'[c].pc = "ok" /\ call'[c].req.kind = "propose" /\ call'[c].project.repo = repo
      BY <1>12 DEF OpenChanges, Answered
    <2>2. Kind(c) = "propose" /\ p.repo = repo /\ Op(c) = "update"
      BY <1>1, <1>5, <2>1 DEF Kind
    <2>3. Place(c) = repo
      BY <1>2, <2>2, NamesAssumption
    <2>4. p.change = c /\ p.status = "open"
      BY <1>1, <1>4, <2>2 DEF Stored, HasOpenChange
    <2> QED
      BY <1>6, <1>7, <2>2, <2>3, <2>4 DEF Moves
  <1>13. ASSUME NEW repo \in Repos, NEW x \in OpenChanges(repo)', x # c
         PROVE  x \in Calls /\ call'[x] = call[x] /\ Chan(x)' = Chan(x) /\ x \in OpenChanges(repo)
    <2>1. x \in Calls /\ call'[x] = call[x]
      BY <1>1, <1>13 DEF OpenChanges, Answered, OnlyCall
    <2> QED
      BY <1>1, <1>13, <2>1 DEF OpenChanges, Answered, Chan
  <1>14. RecordKept'
    <2> SUFFICES ASSUME NEW repo \in Repos, NEW x \in OpenChanges(repo)'
                 PROVE  files[repo] # None /\ files[repo].change = x /\ files[repo].status = "open"
      BY <1>1 DEF RecordKept, HasOpenChange
    <2>1. CASE x = c
      BY <1>2, <1>12, <2>1
    <2>2. CASE x # c
      BY <1>13, <2>2 DEF OpenInv, RecordKept, HasOpenChange
    <2> QED
      BY <2>1, <2>2
  <1>15. \A d \in Calls : call[d].pc # "look" /\ call'[d].pc # "look"
    BY <1>1, <1>5, NoLook DEF StoreInv, OnlyCall
  <1>16. ASSUME NEW repo \in Repos, NEW x \in OpenChanges(repo)', ~EnteredByOther(Chan(x))',
                x # c
         PROVE  /\ map'[Chan(x)] = repo
                /\ \A d \in Calls : InFlight(d)' /\ Chan(d)' = Chan(x) => Undisturbed(d, repo)'
    <2>1. x \in Calls /\ x \in OpenChanges(repo) /\ Chan(x)' = Chan(x)
      BY <1>13, <1>16
    <2>2. \A d \in Calls : call'[d].project = call[d].project /\ Chan(d)' = Chan(d)
      BY <1>1, <1>5 DEF OnlyCall, Chan
    <2>3. ~EnteredByOther(Chan(x))
      BY <1>16, <2>1, <2>2 DEF EnteredByOther
    <2>4. /\ map[Chan(x)] = repo
          /\ \A d \in Calls : InFlight(d) /\ Chan(d) = Chan(x) => Undisturbed(d, repo)
      BY <2>1, <2>3 DEF OpenInv, EntryKept
    <2>5. files[repo] # None /\ files[repo].status = "open"
      BY <2>1 DEF OpenInv, RecordKept, HasOpenChange
    <2>6. Chan(x) \in Channels
      BY <2>1, ChannelsOfCalls DEF OpenChanges, Answered
    <2>7. Chan(c) = Chan(x) => Kind(c) \notin {"use", "propose"} /\ Op(c) = "update"
      BY <1>2, <1>3, <2>4 DEF Undisturbed
    <2>8. map'[Chan(x)] = repo
      <3>1. CASE p.chan # Chan(x)
        BY <1>1, <2>4, <2>6, <3>1
      <3>2. CASE p.chan = Chan(x)
        <4>1. Chan(c) = Chan(x)
          BY <1>2, <2>3, <3>2 DEF EnteredByOther
        <4>2. map[Chan(c)] = Place(c)
          BY <1>7, <2>7, <4>1 DEF Moves
        <4> QED
          BY <1>1, <1>6, <2>4, <2>5, <3>2, <4>1, <4>2
      <3> QED
        BY <3>1, <3>2
    <2>9. ASSUME NEW d \in Calls, InFlight(d)', Chan(d)' = Chan(x)
          PROVE  Undisturbed(d, repo)'
      <3>1. d # c
        BY <1>1, <1>5, <2>2, <2>7, <2>9 DEF InFlight, Ended
      <3>2. call'[d] = call[d]
        BY <1>1, <3>1 DEF OnlyCall
      <3> QED
        BY <2>4, <2>9, <3>2 DEF InFlight, Chan, Kind, Undisturbed
    <2> QED
      BY <2>8, <2>9
  <1>17. ASSUME NEW repo \in Repos, c \in OpenChanges(repo)'
         PROVE  /\ map'[Chan(c)] = repo
                /\ \A d \in Calls : InFlight(d)' /\ Chan(d)' = Chan(c) => Undisturbed(d, repo)'
    <2>1. map'[Chan(c)] = repo
      BY <1>1, <1>2, <1>12, <1>17
    <2>2. ASSUME NEW d \in Calls, InFlight(d)', Chan(d)' = Chan(c)
          PROVE  Undisturbed(d, repo)'
      <3>1. d # c
        BY <1>12, <1>17, <2>2 DEF OpenChanges, Answered, InFlight, Ended
      <3>2. call'[d] = call[d]
        BY <1>1, <3>1 DEF OnlyCall
      <3>3. InFlight(d) /\ Chan(d) = Chan(c)
        BY <2>2, <3>2 DEF InFlight, Chan
      <3>4. call[d].pc \notin Locked
        BY <1>2, <3>1, <3>3, OneHolder DEF StoreInv
      <3>5. Kind(d) \notin {"use", "propose"}
        BY <1>2, <1>3, <1>12, <1>17, <3>1, <3>3, OnlyWriter DEF Updates, Reads
      <3> QED
        BY <3>2, <3>4, <3>5 DEF Undisturbed, Kind, Locked
    <2> QED
      BY <2>1, <2>2
  <1>18. EntryKept'
    <2> SUFFICES ASSUME NEW repo \in Repos, NEW x \in OpenChanges(repo)',
                        ~EnteredByOther(Chan(x))'
                 PROVE  /\ map'[Chan(x)] = repo
                        /\ \A d \in Calls : InFlight(d)' /\ Chan(d)' = Chan(x) => Undisturbed(d, repo)'
      BY <1>5, <1>13, <1>15 DEF EntryKept
    <2> QED
      BY <1>16, <1>17
  <1>19. \A d \in Calls : call'[d].pc # "new" => UpdateOK(d)'
    BY <1>1, <1>9, <1>10 DEF OnlyCall
  <1> QED
    BY <1>11, <1>14, <1>18, <1>19 DEF OpenInv

\* After a crash no call is under way.
LEMMA CrashOpen ==
  ASSUME StoreInv, OpenInv, Crash
  PROVE  OpenInv'
  <1>1. /\ \A c \in Calls : ~InFlight(c) => call'[c] = call[c]
        /\ \A c \in Calls : InFlight(c) =>
              /\ call'[c].pc = "dead" /\ call'[c].req = call[c].req
              /\ call'[c].project = call[c].project
        /\ \A c \in Calls : call'[c].pc \in {"new"} \cup Ended
        /\ UNCHANGED <<files, map, closed>>
    BY CrashEffect
  <1>2. ASSUME NEW c \in Calls
        PROVE  /\ ~InFlight(c)' /\ ~Updates(c)' /\ call'[c].pc # "look"
               /\ call'[c].project = call[c].project /\ Chan(c)' = Chan(c)
    BY <1>1, <1>2 DEF InFlight, Updates, Ended, Chan
  <1>3. ASSUME NEW repo \in Repos, NEW x \in OpenChanges(repo)'
        PROVE  x \in OpenChanges(repo) /\ x \in Calls /\ Chan(x)' = Chan(x)
    <2>1. x \in Calls /\ call'[x].pc = "ok"
      BY <1>3 DEF OpenChanges, Answered
    <2>2. call'[x] = call[x]
      BY <1>1, <2>1
    <2> QED
      BY <1>1, <1>3, <2>2 DEF OpenChanges, Answered, Chan
  <1>4. OneAtATime'
    BY <1>2 DEF OneAtATime
  <1>5. ASSUME NEW c \in Calls, call'[c].pc # "new"
        PROVE  UpdateOK(c)'
    <2>1. call'[c].pc \in Ended /\ call'[c].pc \notin Storing
      BY <1>1, <1>5 DEF Ended, Storing
    <2>2. EntryStays(c)' /\ Stored(c)' /\ Overwrites(c)'
      BY <1>2, <2>1 DEF EntryStays, Stored, Overwrites, Storing
    <2>3. Creates(c)' /\ NamesOwn(c)' /\ FindsNone(c)' /\ HasSeen(c)'
      BY <1>2, <2>1 DEF Creates, NamesOwn, FindsNone, HasSeen
    <2> QED
      BY <2>2, <2>3 DEF UpdateOK
  <1>6. RecordKept'
    BY <1>1, <1>3 DEF OpenInv, RecordKept, HasOpenChange
  <1>7. EntryKept'
    <2> SUFFICES ASSUME NEW repo \in Repos, NEW x \in OpenChanges(repo)', ~EnteredByOther(Chan(x))'
                 PROVE  map'[Chan(x)] = repo
      BY <1>2, <1>3 DEF EntryKept
    <2>1. ~EnteredByOther(Chan(x))
      BY <1>2, <1>3 DEF EnteredByOther
    <2> QED
      BY <1>1, <1>3, <2>1 DEF OpenInv, EntryKept
  <1> QED
    BY <1>4, <1>5, <1>6, <1>7 DEF OpenInv

\* Nothing was asked for yet.
LEMMA OpenInit ==
  ASSUME Init
  PROVE  OpenInv
  <1>1. \A c \in Calls : call[c].pc = "new"
    <2>1. \A c \in Calls : call[c] = NewCall
      BY StoreInit
    <2>2. NewCall.pc = "new"
      BY DEF NewCall
    <2> QED
      BY <2>1, <2>2
  <1>2. OneAtATime
    BY <1>1 DEF OneAtATime, Updates, InFlight
  <1>3. \A repo \in Repos : OpenChanges(repo) = {}
    BY <1>1 DEF OpenChanges, Answered
  <1> QED
    BY <1>1, <1>2, <1>3 DEF OpenInv, RecordKept, EntryKept

\* A step keeps the open changes.
LEMMA OpenStep ==
  ASSUME ~Overlap, StoreInv, OpenInv, [Next]_vars
  PROVE  OpenInv'
  <1>1. CASE Crash
    BY <1>1, CrashOpen
  <1>2. ASSUME NEW c \in Calls, Begin(c) \/ Step(c)
        PROVE  OpenInv'
    BY <1>2, BeginOpen, LockChannelOpen, ReadRecordOpen, ReadFileOpen, DropRecordOpen,
       WriteFileOpen, RemoveFileOpen, WriteRecordOpen, PeekOpen, ListRecordsOpen, LookAtOpen,
       PruneOpen DEF Step
  <1>3. CASE UNCHANGED vars
    <2>1. /\ files' = files /\ map' = map /\ call' = call /\ closed' = closed
      BY <1>3 DEF vars
    <2>2. OneAtATime'
      BY <2>1 DEF OpenInv, OneAtATime, Updates, InFlight, Kind, Chan
    <2>3. ASSUME NEW c \in Calls, call'[c].pc # "new"
          PROVE  UpdateOK(c)'
      <3>1. UpdateOK(c)
        BY <2>1, <2>3 DEF OpenInv
      <3>2. /\ EntryStays(c)' = EntryStays(c) /\ Stored(c)' = Stored(c)
            /\ Creates(c)' = Creates(c) /\ NamesOwn(c)' = NamesOwn(c)
        BY <2>1 DEF EntryStays, Updates, InFlight, Kind, Chan, Op, Stored, Moves, NotOpen, Creates,
                    NamesOwn
      <3>3. /\ FindsNone(c)' = FindsNone(c) /\ HasSeen(c)' = HasSeen(c)
            /\ Overwrites(c)' = Overwrites(c)
        BY <2>1 DEF FindsNone, InFlight, Kind, Chan, Repo, NotOpen, HasSeen, Resumes, Overwrites
      <3> QED
        BY <3>1, <3>2, <3>3 DEF UpdateOK
    <2>4. \A repo \in Repos : OpenChanges(repo)' = OpenChanges(repo)
      BY <2>1 DEF OpenChanges, Answered
    <2>5. RecordKept'
      BY <2>1, <2>4 DEF OpenInv, RecordKept, HasOpenChange
    <2>6. EntryKept'
      BY <2>1, <2>4 DEF OpenInv, EntryKept, EnteredByOther, Chan, InFlight, Undisturbed, Kind
    <2> QED
      BY <2>2, <2>3, <2>5, <2>6 DEF OpenInv
  <1> QED
    BY <1>1, <1>2, <1>3 DEF Next

\* README.md:24 and state/store.ts:413-423: while requests of different channels
\* are not served side by side, no request and no crash loses the record of a
\* change that was proposed and not finished, and none but a request of another
\* channel that shares its repository takes the channel away from it.
THEOREM OpenChangesStay == ASSUME ~Overlap PROVE Spec => []OpenChangesKept
  <1>1. Init => StoreInv /\ OpenInv
    BY StoreInit, OpenInit
  <1>2. StoreInv /\ OpenInv /\ [Next]_vars => (StoreInv /\ OpenInv)'
    BY StoreStep, OpenStep
  <1>3. OpenInv => OpenChangesKept
    BY DEF OpenInv, RecordKept, EntryKept, OpenChangesKept
  <1> QED
    BY <1>1, <1>2, <1>3, PTL DEF Spec

\* README.md:24: while requests of different channels are not served side by side, a
\* repository has one unfinished change at a time, also after crashes (commands
\* that overlap break it: the run store_shared).
THEOREM OneChangeStays == ASSUME ~Overlap PROVE Spec => []OneChangePerRepo
  <1>1. OpenChangesKept => OneChangePerRepo
    BY DEF OpenChangesKept, OneChangePerRepo
  <1> QED
    BY <1>1, OpenChangesStay, PTL

-----------------------------------------------------------------------------
(* Reading, changing and storing a record is one step, and no update is    *)
(* lost, as long as requests of different channels are not served side by  *)
(* side: what is read stays as it is until the update is stored, ...       *)

\* An open change that a selection has seen is still there, until it is taken over.
SeenStays(d) ==
    /\ Moves(d) /\ InFlight(d) /\ call[d].pc \notin Storing /\ Resumes(d)
    => files[Repo(d)] = call[d].seen
SeenInv == \A d \in Calls : call[d].pc # "new" => SeenStays(d)

\* The invariant of the steps between reading a record and storing it.
AtomInv == SeenInv /\ UpdatesAtomic

-----------------------------------------------------------------------------
(* ... the records, ...                                                    *)

\* A request that changed a record, and was answered.
Kept(c) == call[c].pc = "ok" /\ Kind(c) \notin Reads

\* The project that a request creates may be in the store.
Born(c) == call[c].at \in 3..5 \/ (call[c].at = 2 /\ call[c].pc \in {"remove", "map"} \cup Ended)

\* Nothing has the name of a project before it is there, but for the request that
\* makes it.
NamesBorn ==
    \A x \in Calls :
        /\ files[x] # None => Born(x)
        /\ \A q \in Paths : files[q] # None /\ files[q].id = x => Born(x)
        /\ \A ch \in Channels : map[ch] = x => Born(x)
        /\ \A d \in Calls : /\ call[d].path = x => Born(x)
                            /\ call[d].project # None /\ call[d].project.id = x => Born(x) \/ d = x
                            /\ call[d].seen # None /\ call[d].seen.id = x => Born(x)

\* A project has one record, but while it moves, or when a crash came upon that.
OneRecord ==
    \A q, r \in Paths :
        q # r /\ files[q] # None /\ files[r] # None /\ files[q].id = files[r].id =>
            \/ \E d \in Calls : call[d].pc = "remove" /\ {q, r} = {call[d].path, Place(d)}
            \/ Doubled(files[q].id)

\* What is stored is the record that was found, or the one that was seen; when the
\* map is written, nothing is left where the record was, and no channel leads to a
\* record that is new.
Derived(d) ==
    /\ call[d].pc \in Storing => d \in call[d].project.log
    /\ call[d].pc = "write" /\ Op(d) # "create" =>
          LET p == call[d].project
              found == files[call[d].path]
              there == files[Place(d)]
          IN  /\ call[d].path # None /\ found # None
              /\ ~Moves(d) => p.id = found.id /\ p.chan = found.chan
              /\ Moves(d) => p.id = found.id \/ (there # None /\ p.id = there.id)
    /\ call[d].pc = "map" /\ call[d].path \notin {None, Place(d)} => files[call[d].path] = None
    /\ call[d].pc \in {"remove", "map"} /\ Op(d) = "create" =>
          \A ch \in Channels : map[ch] # Place(d)

\* The records, and those that are about to be stored, have every update.
LogsKept ==
    \A c \in Calls : Kept(c) =>
        /\ call[c].project # None
        /\ Doubled(call[c].project.id) \/
              /\ \A q \in Paths : files[q] # None /\ files[q].id = call[c].project.id
                                 => c \in files[q].log
              /\ \A d \in Calls : call[d].pc \in Storing /\ call[d].project.id = call[c].project.id
                                 => c \in call[d].project.log

\* The invariant of the records.
KeepInv ==
    /\ NamesBorn
    /\ OneRecord
    /\ \A d \in Calls : call[d].pc # "new" => Derived(d)
    /\ LogsKept

-----------------------------------------------------------------------------
(* ... and the channels that lead to them.                                 *)

\* The project of the channel was archived, or about to be when a crash came.
Archived(ch) ==
    \E c \in Calls : /\ call[c].pc \in {"ok", "dead"} /\ Kind(c) = "archive"
                     /\ call[c].project # None /\ call[c].project.chan = ch

\* A record on its way out of the map.
Archiving(p) ==
    \E d \in Calls : call[d].pc \in {"remove", "map"} /\ Kind(d) = "archive" /\ call[d].project = p

\* Who archives a record, archives the project of the channel that it names.
ArchivedKnown ==
    /\ \A q \in Paths : files[q] # None /\ files[q].status = "archived" =>
          Archived(files[q].chan) \/ Archiving(files[q])
    /\ \A d \in Calls : call[d].pc \in Storing /\ call[d].project.status = "archived" =>
          Archived(call[d].project.chan) \/ Kind(d) = "archive"

\* Nobody but a list takes the entry of an update away.
EntryOrNone ==
    \A d \in Calls : Updates(d) /\ call[d].pc \in {"file", "drop"} =>
        map[Chan(d)] \in {call[d].path, None}

\* Unless another channel selects, a channel leads to a record that names it, ...
NamesChannel(ch) ==
    /\ map[ch] # None /\ files[map[ch]] # None => files[map[ch]].chan = ch
    /\ \A d \in Calls : call[d].pc \in Storing /\ Chan(d) = ch => call[d].project.chan = ch

\* ... what is taken for gone is gone, ...
GoneIsGone(ch) ==
    \A d \in Calls :
        /\ call[d].pc = "look" /\ ch \in call[d].gone /\ map[ch] # None => files[map[ch]] = None
        /\ call[d].pc = "drop" /\ Chan(d) = ch => files[call[d].path] = None

\* ... and the channel leads to the only record that names it, but for those of
\* projects whose creation a crash cut short, which no channel leads to.
Reached(q) == \E ch \in Channels : map[ch] = q
OnlyNamed(ch) ==
    ~Archived(ch) =>
        \A q \in Paths : Reached(q) /\ files[q] # None /\ files[q].chan = ch =>
            /\ \/ map[ch] = q
               \/ \E d \in Calls : /\ call[d].pc \in {"remove", "map"} /\ Chan(d) = ch
                                   /\ q = Place(d)
            /\ \A d \in Calls : call[d].pc \in Storing /\ Chan(d) = ch =>
                  q \in {call[d].path, Place(d)}

\* The channel of an answered update leads to its record, or is about to.
Leads(c) ==
    LET q == map[Chan(c)]
    IN  /\ q # None /\ files[q] # None
        /\ files[q].id = call[c].project.id /\ files[q].status # "archived"
Enters(c) ==
    \E d \in Calls : /\ call[d].pc = "map" /\ call[d].project.chan = Chan(c)
                     /\ Chan(d) = Chan(c) \/ Kind(d) = "archive"

\* An update leaves its channel with its record, which the next update of the
\* channel takes up.
ChannelLeads(c) ==
    Kept(c) /\ ~Displaced(c) /\ ~Archived(Chan(c)) =>
        /\ Leads(c) \/ Enters(c)
        /\ \A d \in Calls : call[d].pc \in Storing /\ Chan(d) = Chan(c) =>
              call[d].project.id = call[c].project.id /\ Op(d) # "create"

\* The invariant of the channels.
LeadInv ==
    /\ ArchivedKnown
    /\ EntryOrNone
    /\ \A ch \in Channels : ~Upset(ch) =>
          NamesChannel(ch) /\ GoneIsGone(ch) /\ OnlyNamed(ch)
    /\ \A c \in Calls : ChannelLeads(c)

-----------------------------------------------------------------------------
(* Where an update takes its record from.                                  *)

\* A selection that takes over what it has seen stores that; every other update
\* stores the record of the channel.
TakesOver(c) == Op(c) = "update" /\ Kind(c) = "use" /\ Resumes(c)

\* The record that an update stores.
LEMMA UpdatedFrom ==
  ASSUME NEW c \in Calls, call[c] \in CallRecords, CallOK(c), call[c].pc # "new",
         NEW cur \in Projects, Op(c) \in {"settle", "update"}
  PROVE  LET p == Updated(c, cur)
             base == IF TakesOver(c) THEN call[c].seen ELSE cur
         IN  /\ p \in Projects
             /\ p.id = base.id /\ base.log \subseteq p.log /\ c \in p.log
             /\ p.chan = cur.chan
             /\ p.status = "archived" => cur.status = "archived" \/ Kind(c) = "archive"
  <1> DEFINE p == Updated(c, cur)
             base == IF TakesOver(c) THEN call[c].seen ELSE cur
             Logged(q) == [q EXCEPT !.log = @ \cup {c}]
  <1>1. ASSUME NEW q \in Projects
        PROVE  /\ Logged(q) \in Projects
               /\ Logged(q).id = q.id /\ Logged(q).chan = q.chan /\ Logged(q).status = q.status
               /\ q.log \subseteq Logged(q).log /\ c \in Logged(q).log
    BY DEF Projects
  <1>2. /\ Kind(c) \in KindNames /\ call[c].seen \in Projects \cup {None}
        /\ Kind(c) = "use" => Repo(c) \in Repos
        /\ Op(c) = "settle" => Kind(c) \in {"use", "propose"}
        /\ Op(c) = "update" => Kind(c) \notin Reads
    BY MadeCall, CallFields
  <1>a. /\ Op(c) = "settle" \/ Kind(c) # "use" => base = cur
        /\ Op(c) = "update" /\ Kind(c) = "use" => base = IF Resumes(c) THEN call[c].seen ELSE cur
    BY DEF TakesOver
  <1> DEFINE Good(q) == /\ q \in Projects /\ q.id = base.id /\ q.chan = cur.chan
                        /\ base.log \subseteq q.log
                        /\ q.status = "archived" => cur.status = "archived" \/ Kind(c) = "archive"
  <1>b. ASSUME NEW q, Good(q), p = Logged(q)
        PROVE  /\ p \in Projects /\ p.id = base.id /\ base.log \subseteq p.log /\ c \in p.log
               /\ p.chan = cur.chan
               /\ p.status = "archived" => cur.status = "archived" \/ Kind(c) = "archive"
    <2> HIDE DEF Logged, p, base
    <2> QED
      BY <1>1, <1>b
  <1> HIDE DEF Logged, base
  <1>3. CASE Op(c) = "settle"
    <2> DEFINE q == [cur EXCEPT !.status = "idle"]
    <2>1. /\ q \in Projects /\ q.id = cur.id /\ q.chan = cur.chan /\ q.log = cur.log
          /\ q.status = "idle"
      BY DEF Projects
    <2>2. p = Logged(q)
      BY <1>3 DEF Updated, Logged
    <2>3. Good(q)
      BY <1>3, <1>a, <2>1
    <2> HIDE DEF q, p, Good
    <2> QED
      BY <1>b, <2>2, <2>3 DEF p, base
  <1>4. CASE Op(c) = "update" /\ Kind(c) = "touch"
    <2>1. p = Logged(cur)
      BY <1>4 DEF Updated, Logged
    <2>2. Good(cur)
      BY <1>4, <1>a
    <2> HIDE DEF p, Good
    <2> QED
      BY <1>b, <2>1, <2>2 DEF p, base
  <1>5. CASE Op(c) = "update" /\ Kind(c) = "propose"
    <2> DEFINE q == [cur EXCEPT !.change = c, !.status = "open"]
    <2>1. /\ q \in Projects /\ q.id = cur.id /\ q.chan = cur.chan /\ q.log = cur.log
          /\ q.status = "open"
      BY DEF Projects, Changes
    <2>2. p = Logged(q)
      BY <1>5 DEF Updated, Logged
    <2>3. Good(q)
      BY <1>5, <1>a, <2>1
    <2> HIDE DEF q, p, Good
    <2> QED
      BY <1>b, <2>2, <2>3 DEF p, base
  <1>6. CASE Op(c) = "update" /\ Kind(c) = "finish"
    <2> DEFINE q == [cur EXCEPT !.status = "done"]
    <2>1. /\ q \in Projects /\ q.id = cur.id /\ q.chan = cur.chan /\ q.log = cur.log
          /\ q.status = "done"
      BY DEF Projects
    <2>2. p = Logged(q)
      BY <1>6 DEF Updated, Logged
    <2>3. Good(q)
      BY <1>6, <1>a, <2>1
    <2> HIDE DEF q, p, Good
    <2> QED
      BY <1>b, <2>2, <2>3 DEF p, base
  <1>7. CASE Op(c) = "update" /\ Kind(c) = "archive"
    <2> DEFINE q == [cur EXCEPT !.change = None, !.status = "archived"]
    <2>1. q \in Projects /\ q.id = cur.id /\ q.chan = cur.chan /\ q.log = cur.log
      BY DEF Projects
    <2>2. p = Logged(q)
      BY <1>7 DEF Updated, Logged
    <2>3. Good(q)
      BY <1>7, <1>a, <2>1
    <2> HIDE DEF q, p, Good
    <2> QED
      BY <1>b, <2>2, <2>3 DEF p, base
  <1>8. CASE Op(c) = "update" /\ Kind(c) = "use"
    <2> DEFINE q == Selected(c, cur)
               taken == IF Resumes(c) THEN [call[c].seen EXCEPT !.chan = cur.chan] ELSE cur
    <2>1. /\ taken \in Projects /\ taken.id = base.id /\ taken.chan = cur.chan
          /\ taken.log = base.log
          /\ taken.status = "archived" => cur.status = "archived"
      <3>1. CASE Resumes(c)
        <4>1. /\ call[c].seen \in Projects /\ HasOpenChange(call[c].seen) /\ cur.chan \in Channels
              /\ base = call[c].seen
          BY <1>2, <1>8, <1>a, <3>1, ProjectFields DEF Resumes
        <4>2. taken = [call[c].seen EXCEPT !.chan = cur.chan]
          BY <3>1
        <4> QED
          BY <4>1, <4>2 DEF Projects, HasOpenChange
      <3>2. CASE ~Resumes(c)
        BY <1>8, <1>a, <3>2
      <3> QED
        BY <3>1, <3>2
    <2>2. q = IF taken.repo = Repo(c) THEN taken
              ELSE [taken EXCEPT !.repo = Repo(c), !.change = None, !.status = "idle"]
      BY DEF Selected
    <2> HIDE DEF taken, q
    <2>3. /\ q \in Projects /\ q.id = taken.id /\ q.chan = taken.chan /\ q.log = taken.log
          /\ q.status \in {taken.status, "idle"}
      <3>1. CASE taken.repo = Repo(c)
        BY <2>1, <2>2, <3>1
      <3>2. CASE taken.repo # Repo(c)
        <4>1. Repo(c) \in Repos
          BY <1>2, <1>8
        <4> QED
          BY <2>1, <2>2, <3>2, <4>1 DEF Projects
      <3> QED
        BY <3>1, <3>2
    <2>4. p = Logged(q)
      BY <1>8 DEF Updated, Logged, q
    <2>5. Good(q)
      BY <2>1, <2>3
    <2> HIDE DEF p, Good
    <2> QED
      BY <1>b, <2>4, <2>5 DEF p, base
  <1> QED
    BY <1>2, <1>3, <1>4, <1>5, <1>6, <1>7, <1>8 DEF KindNames, Reads

\* One request at a time stores a record, and those that change records and are
\* not its own channel's wait for it.
LEMMA OneStorer ==
  ASSUME StoreInv, OpenInv, NEW c \in Calls, call[c].pc \in Locked, Updates(c),
         NEW d \in Calls, call[d].pc \in Storing
  PROVE  d = c
  <1>1. Updates(d)
    BY PlaceLemma, StoringUpdates, FlightLemma
  <1> QED
    BY <1>1, OnlyWriter, FlightLemma

\* A record is stored by an update, as part of its operation.
LEMMA StorerUpdates ==
  ASSUME StoreInv, NEW c \in Calls, call[c].pc \in Storing
  PROVE  /\ Updates(c) /\ call[c].pc \in Locked /\ call[c].pc # "new" /\ InFlight(c)
         /\ Op(c) \in {"create", "settle", "update"}
         /\ Op(c) = "create" => call[c].at = 2
  BY PlaceLemma, StoringUpdates, FlightLemma

\* A call takes an entry of the map away that leads nowhere.
Drops(c, ch) ==
    \/ call[c].pc = "drop" /\ Chan(c) = ch /\ map[ch] = call[c].path
    \/ call[c].pc = "look" /\ ch \in call[c].gone

\* Entries of the map are at most dropped.
MapShrinks(c) == \A ch \in Channels : map'[ch] = map[ch] \/ (map'[ch] = None /\ Drops(c, ch))

\* A step that stores nothing, and makes no record.
Quiet(c) ==
    /\ OnlyCall(c) /\ files' = files
    /\ \A ch \in Channels : map'[ch] \in {map[ch], None}
    /\ call[c].pc \notin Storing \cup Ended /\ call'[c].pc \notin Storing
    /\ call'[c].pc = "ok" => call'[c].req.kind \in Reads
    /\ call'[c].project = call[c].project
    /\ call'[c].path \in {call[c].path, None} \cup {map[ch] : ch \in Channels}
    /\ call'[c].seen = call[c].seen \/ \E q \in Paths : call'[c].seen = files[q]

\* The calls that do not take the step.
LEMMA SameCall ==
  ASSUME NEW c \in Calls, OnlyCall(c), NEW d \in Calls, d # c
  PROVE  /\ call'[d] = call[d] /\ Kind(d)' = Kind(d) /\ Chan(d)' = Chan(d) /\ Repo(d)' = Repo(d)
         /\ Op(d)' = Op(d) /\ Moves(d)' = Moves(d) /\ InFlight(d)' = InFlight(d)
         /\ Resumes(d)' = Resumes(d) /\ Place(d)' = Place(d) /\ Kept(d)' = Kept(d)
         /\ Born(d)' = Born(d) /\ Updates(d)' = Updates(d)
  <1>1. call'[d] = call[d]
    BY DEF OnlyCall
  <1>2. Kind(d)' = Kind(d) /\ Chan(d)' = Chan(d) /\ Repo(d)' = Repo(d)
    BY <1>1 DEF Kind, Chan, Repo
  <1>3. Op(d)' = Op(d) /\ Moves(d)' = Moves(d) /\ InFlight(d)' = InFlight(d)
    BY <1>1, <1>2 DEF Op, Moves, InFlight
  <1>4. Resumes(d)' = Resumes(d) /\ Place(d)' = Place(d) /\ Kept(d)' = Kept(d)
    BY <1>1, <1>2 DEF Resumes, Place, Kept
  <1>5. Born(d)' = Born(d) /\ Updates(d)' = Updates(d)
    BY <1>1, <1>2, <1>3 DEF Born, Updates
  <1> QED
    BY <1>1, <1>2, <1>3, <1>4, <1>5

\* A name that is in the store stays there.
LEMMA NamesStay ==
  ASSUME NamesBorn, NEW c \in Calls, OnlyCall(c),
         Born(c) => Born(c)',
         \A x \in Calls :
            /\ files'[x] # None => files[x] # None \/ Born(x)'
            /\ \A q \in Paths : files'[q] # None /\ files'[q].id = x =>
                  (files[q] # None /\ files[q].id = x) \/ Born(x)'
            /\ \A ch \in Channels : map'[ch] = x => map[ch] = x \/ Born(x)'
            /\ call'[c].path = x => call[c].path = x \/ Born(x)'
            /\ call'[c].project # None /\ call'[c].project.id = x =>
                  \/ call'[c].project = call[c].project
                  \/ Born(x)' \/ c = x
            /\ call'[c].seen # None /\ call'[c].seen.id = x =>
                  call'[c].seen = call[c].seen \/ Born(x)'
  PROVE  NamesBorn'
  <1> SUFFICES ASSUME NEW x \in Calls
               PROVE  /\ files'[x] # None => Born(x)'
                      /\ \A q \in Paths : files'[q] # None /\ files'[q].id = x => Born(x)'
                      /\ \A ch \in Channels : map'[ch] = x => Born(x)'
                      /\ \A d \in Calls :
                           /\ call'[d].path = x => Born(x)'
                           /\ call'[d].project # None /\ call'[d].project.id = x => Born(x)' \/ d = x
                           /\ call'[d].seen # None /\ call'[d].seen.id = x => Born(x)'
    BY DEF NamesBorn
  <1>1. Born(x) => Born(x)'
    BY SameCall
  <1>2. \A d \in Calls : d # c => call'[d] = call[d]
    BY DEF OnlyCall
  <1> QED
    BY <1>1, <1>2 DEF NamesBorn

\* The projects that a crash may have left in two copies, after a step.
DoubledThen(id) ==
    \E d \in Calls : /\ call'[d].pc = "dead" /\ call'[d].project # None /\ Kind(d)' = "use"
                     /\ call'[d].at = 5 /\ call'[d].project.id = id

\* What crashed is not taken up again.
LEMMA DoubledStays ==
  ASSUME NEW c \in Calls, OnlyCall(c), call[c].pc # "dead"
  PROVE  /\ \A id : Doubled(id) => DoubledThen(id)
         /\ \A d \in Calls : SelectionCut(d) => SelectionCut(d)'
  <1>1. ASSUME NEW d \in Calls, SelectionCut(d)
        PROVE  call'[d] = call[d] /\ Kind(d)' = Kind(d)
    <2>1. d # c
      BY <1>1 DEF SelectionCut
    <2> QED
      BY <2>1, SameCall
  <1> QED
    BY <1>1 DEF SelectionCut, Doubled, DoubledThen

\* How OneRecord and LogsKept are shown of the next state.
LEMMA RecordNext ==
  ASSUME \A q, r \in Paths :
            q # r /\ files'[q] # None /\ files'[r] # None /\ files'[q].id = files'[r].id =>
               \/ \E d \in Calls : call'[d].pc = "remove" /\ {q, r} = {call'[d].path, Place(d)'}
               \/ DoubledThen(files'[q].id)
  PROVE  OneRecord'
  BY DEF OneRecord, Doubled, SelectionCut, DoubledThen

LEMMA LogsNext ==
  ASSUME \A x \in Calls : Kept(x)' =>
            /\ call'[x].project # None
            /\ DoubledThen(call'[x].project.id) \/
                  /\ \A q \in Paths : files'[q] # None /\ files'[q].id = call'[x].project.id
                                     => x \in files'[q].log
                  /\ \A d \in Calls : /\ call'[d].pc \in Storing
                                      /\ call'[d].project.id = call'[x].project.id
                                     => x \in call'[d].project.log
  PROVE  LogsKept'
  BY DEF LogsKept, Doubled, SelectionCut, DoubledThen

\* A quiet step loses no update.
LEMMA QuietKeeps ==
  ASSUME StoreInv, OpenInv, KeepInv, NEW c \in Calls, Quiet(c), Born(c) => Born(c)'
  PROVE  KeepInv'
  <1>1. /\ OnlyCall(c) /\ files' = files /\ call[c].pc # "remove" /\ call'[c].pc # "remove"
        /\ \A ch \in Channels : map'[ch] \in {map[ch], None}
    BY DEF Quiet, Storing
  <1>2. ~Kept(c)'
    BY DEF Quiet, Kept, Kind
  <1>d. \A id : Doubled(id) => DoubledThen(id)
    BY <1>1, DoubledStays DEF Quiet, Ended
  <1>3. NamesBorn'
    <2>1. \A x \in Calls : x # None
      BY NamesAssumption DEF Ids
    <2>2. \A x \in Calls : Born(x) => Born(x)'
      BY <1>1, SameCall
    <2> QED
      BY <1>1, <2>1, <2>2, NamesStay DEF KeepInv, NamesBorn, Quiet
  <1>4. OneRecord'
    <2> SUFFICES ASSUME NEW q \in Paths, NEW r \in Paths, q # r, files'[q] # None, files'[r] # None,
                        files'[q].id = files'[r].id,
                        ~DoubledThen(files'[q].id)
                 PROVE  \E d \in Calls : call'[d].pc = "remove" /\ {q, r} = {call'[d].path, Place(d)'}
      BY RecordNext
    <2>1. PICK d \in Calls : call[d].pc = "remove" /\ {q, r} = {call[d].path, Place(d)}
      BY <1>1, <1>d DEF KeepInv, OneRecord
    <2>2. d # c
      BY <1>1, <2>1
    <2> QED
      BY <1>1, <2>1, <2>2, SameCall
  <1>5. ASSUME NEW d \in Calls, call'[d].pc # "new"
        PROVE  Derived(d)'
    <2>1. CASE d = c
      BY <2>1 DEF Derived, Quiet, Storing
    <2>2. CASE d # c
      <3>1. call'[d] = call[d] /\ Op(d)' = Op(d) /\ Moves(d)' = Moves(d) /\ Place(d)' = Place(d)
        BY <1>1, <2>2, SameCall
      <3>2. call[d].pc \in {"remove", "map"} => Place(d) # None
        BY PlaceLemma DEF Storing
      <3> QED
        BY <1>1, <1>5, <3>1, <3>2 DEF KeepInv, Derived
    <2> QED
      BY <2>1, <2>2
  <1>6. LogsKept'
    <2> SUFFICES ASSUME NEW x \in Calls, Kept(x)'
                 PROVE  /\ call'[x].project # None
                        /\ DoubledThen(call'[x].project.id) \/
                              /\ \A q \in Paths : files'[q] # None /\ files'[q].id = call'[x].project.id
                                    => x \in files'[q].log
                              /\ \A d \in Calls : /\ call'[d].pc \in Storing
                                                  /\ call'[d].project.id = call'[x].project.id
                                    => x \in call'[d].project.log
      BY LogsNext
    <2>1. x # c /\ Kept(x) /\ call'[x] = call[x]
      BY <1>1, <1>2, SameCall
    <2>2. \A d \in Calls : call'[d].pc \in Storing => call'[d] = call[d]
      BY <1>1 DEF Quiet, OnlyCall
    <2> QED
      BY <1>1, <1>d, <2>1, <2>2 DEF KeepInv, LogsKept
  <1> QED
    BY <1>3, <1>4, <1>5, <1>6 DEF KeepInv

\* A step that makes a record, which is stored later.
Makes(c) ==
    /\ call[c].pc \in {"record", "file", "drop"} /\ Op(c) \in {"create", "settle", "update"}
    /\ files' = files /\ MapShrinks(c)
    /\ \/ /\ Op(c) = "create" /\ MovesTo(c, "write", None, Created(c))
          /\ \/ map[Chan(c)] = None
             \/ call[c].pc = "drop"
             \/ call[c].pc = "file" /\ ~Conflicts(c, files[call[c].path])
       \/ /\ call[c].pc = "file" /\ call[c].path \in Paths /\ files[call[c].path] # None
          /\ Op(c) \in {"settle", "update"}
          /\ MovesTo(c, "write", call[c].path, Updated(c, files[call[c].path]))

\* What is known of the record that is made.
LEMMA MadeRecord ==
  ASSUME StoreInv, SeenInv, NEW c \in Calls, Makes(c)
  PROVE  /\ OnlyCall(c) /\ call'[c].pc = "write" /\ call'[c].project \in Projects
         /\ call'[c].req = call[c].req /\ call'[c].at = call[c].at /\ call'[c].seen = call[c].seen
         /\ c \in call'[c].project.log /\ Updates(c) /\ call[c].pc \in Locked /\ call[c].pc # "new"
         /\ Op(c)' = Op(c) /\ Kind(c)' = Kind(c) /\ Chan(c)' = Chan(c) /\ Moves(c)' = Moves(c)
         /\ Op(c) = "create" =>
               /\ call'[c].path = None /\ call'[c].project.id = c /\ ~Born(c)
               /\ call'[c].project = Created(c)
         /\ Op(c) # "create" =>
               LET found == files[call[c].path]
                   base == IF TakesOver(c) THEN call[c].seen ELSE found
                   p == call'[c].project
               IN  /\ call[c].pc = "file" /\ call[c].path \in Paths /\ found # None
                   /\ call'[c].path = call[c].path
                   /\ found \in Projects /\ base \in Projects /\ p.chan = found.chan
                   /\ p.id = base.id /\ base.log \subseteq p.log
                   /\ p.status = "archived" => found.status = "archived" \/ Kind(c) = "archive"
                   /\ TakesOver(c) => /\ Moves(c) /\ files[Repo(c)] = base /\ Place(c)' = Repo(c)
                                      /\ Repo(c) \in Paths
  <1>1. /\ call[c] \in CallRecords /\ CallOK(c) /\ call[c].pc # "new" /\ call[c].pc \in Locked
        /\ Chan(c) \in Channels
    BY StoreFacts DEF Makes, Locked
  <1>2. /\ Updates(c) /\ (Op(c) = "create" => call[c].at = 2) /\ InFlight(c)
        /\ Op(c) = "update" /\ Kind(c) = "use" => Moves(c)
    BY <1>1, StoringUpdates, FlightLemma DEF Makes, Moves
  <1>3. /\ Op(c)' = Op(c) /\ Kind(c)' = Kind(c) /\ Chan(c)' = Chan(c) /\ Moves(c)' = Moves(c)
        /\ OnlyCall(c) /\ call'[c].pc = "write" /\ call'[c].req = call[c].req
        /\ call'[c].at = call[c].at /\ call'[c].seen = call[c].seen
    BY DEF Makes, MovesTo, Op, Kind, Chan, Moves
  <1>4. CASE Op(c) = "create"
    <2>1. call'[c].path = None /\ call'[c].project = Created(c)
      BY <1>4 DEF Makes, MovesTo
    <2>2. Created(c) \in Projects /\ Created(c).id = c /\ c \in Created(c).log
      BY <1>1, CreatedLemma DEF Created, Fresh
    <2>3. ~Born(c)
      BY <1>2, <1>4 DEF Born, Makes, Ended
    <2> QED
      BY <1>1, <1>2, <1>3, <1>4, <2>1, <2>2, <2>3
  <1>5. CASE Op(c) # "create"
    <2> DEFINE found == files[call[c].path]
               base == IF TakesOver(c) THEN call[c].seen ELSE found
               p == call'[c].project
    <2>1. /\ call[c].pc = "file" /\ call[c].path \in Paths /\ found # None
          /\ Op(c) \in {"settle", "update"} /\ call'[c].path = call[c].path
          /\ p = Updated(c, found)
      BY <1>5 DEF Makes, MovesTo
    <2>2. found \in Projects
      BY <2>1 DEF StoreInv, StoreTypes
    <2> HIDE DEF found
    <2>3. /\ p \in Projects
          /\ p.id = base.id /\ base.log \subseteq p.log /\ c \in p.log
          /\ p.chan = found.chan
          /\ p.status = "archived" => found.status = "archived" \/ Kind(c) = "archive"
      BY <1>1, <2>1, <2>2, UpdatedFrom, Zenon
    <2>4. TakesOver(c) => /\ Moves(c) /\ files[Repo(c)] = call[c].seen /\ Repo(c) \in Repos
                          /\ call[c].seen # None
      <3> SUFFICES ASSUME TakesOver(c)
                   PROVE  /\ Moves(c) /\ files[Repo(c)] = call[c].seen /\ Repo(c) \in Repos
                          /\ call[c].seen # None
        OBVIOUS
      <3>1. Moves(c) /\ Resumes(c) /\ Kind(c) = "use"
        BY <1>2 DEF TakesOver
      <3>2. SeenStays(c)
        BY <1>1 DEF SeenInv
      <3>3. files[Repo(c)] = call[c].seen
        BY <1>2, <2>1, <3>1, <3>2 DEF SeenStays, Storing
      <3> QED
        BY <1>1, <3>1, <3>3 DEF Resumes, CallOK
    <2>5. TakesOver(c) => Place(c)' = Repo(c) /\ Repo(c) \in Paths
      <3> SUFFICES ASSUME TakesOver(c)
                   PROVE  Place(c)' = Repo(c) /\ Repo(c) \in Paths
        OBVIOUS
      <3>1. Op(c) = "update" /\ Kind(c) = "use" /\ Repo(c) \in Repos
        BY <2>4 DEF TakesOver
      <3>2. p.repo = Repo(c)
        BY <1>1, <2>1, <2>2, <3>1, UpdatedLemma, Zenon
      <3>3. Repo(c) # None /\ Repo(c) \in Paths
        BY <3>1, NamesAssumption DEF Paths
      <3> QED
        BY <3>2, <3>3 DEF Place, Target
    <2>6. base \in Projects
      <3>1. call[c].seen \in Projects \cup {None}
        BY <1>1, CallFields
      <3> QED
        BY <2>2, <2>4, <3>1
    <2> QED
      <3>1. TakesOver(c) => base = call[c].seen
        OBVIOUS
      <3> HIDE DEF base, p
      <3>2. /\ p \in Projects /\ c \in p.log
            /\ TakesOver(c) => Moves(c) /\ files[Repo(c)] = base /\ Place(c)' = Repo(c)
                               /\ Repo(c) \in Paths
        BY <2>3, <2>4, <2>5, <3>1
      <3> QED
        BY <1>1, <1>2, <1>3, <1>5, <2>1, <2>2, <2>3, <2>6, <3>2 DEF base, p, found
  <1> QED
    BY <1>4, <1>5

\* It is the record found or seen, and has its updates.
LEMMA MakesKeeps ==
  ASSUME StoreInv, SeenInv, KeepInv, NEW c \in Calls, Makes(c)
  PROVE  KeepInv'
  <1> DEFINE p == call'[c].project
             found == files[call[c].path]
             base == IF TakesOver(c) THEN call[c].seen ELSE found
  <1>1. /\ OnlyCall(c) /\ call'[c].pc = "write" /\ p \in Projects
        /\ call'[c].req = call[c].req /\ call'[c].at = call[c].at /\ call'[c].seen = call[c].seen
        /\ c \in p.log /\ Updates(c) /\ call[c].pc \in Locked /\ call[c].pc # "new"
        /\ Op(c)' = Op(c) /\ Kind(c)' = Kind(c) /\ Chan(c)' = Chan(c) /\ Moves(c)' = Moves(c)
        /\ Op(c) = "create" => call'[c].path = None /\ p.id = c /\ ~Born(c)
    BY MadeRecord
  <1>2. Op(c) # "create" =>
               /\ call[c].path \in Paths /\ found # None /\ call'[c].path = call[c].path
               /\ found \in Projects /\ base \in Projects /\ p.chan = found.chan
               /\ p.id = base.id /\ base.log \subseteq p.log
               /\ TakesOver(c) => Moves(c) /\ files[Repo(c)] = base /\ Place(c)' = Repo(c)
                                  /\ Repo(c) \in Paths
    BY MadeRecord, Zenon
  <1>3. /\ files' = files /\ call[c].pc \in {"record", "file", "drop"}
        /\ \A ch \in Channels : map'[ch] \in {map[ch], None}
    BY DEF Makes, MapShrinks
  <1>a. ~TakesOver(c) => base = found
    OBVIOUS
  <1> HIDE DEF p, base, found
  <1>b. Op(c) # "create" => \E q \in Paths : files[q] = base /\ base # None
    BY <1>2, <1>a, ProjectFields DEF found
  <1>d. \A id : Doubled(id) => DoubledThen(id)
    BY <1>1, <1>3, DoubledStays
  <1>4. NamesBorn'
    <2>1. \A x \in Calls : x # None
      BY NamesAssumption DEF Ids
    <2>2. Born(c) => Born(c)'
      BY <1>1, <1>3 DEF Born, Ended
    <2>3. \A x \in Calls : Born(x) => Born(x)'
      BY <1>1, <2>2, SameCall
    <2>4. \A x \in Calls : p.id = x => Born(x)' \/ c = x
      BY <1>1, <1>2, <1>b, <2>3 DEF KeepInv, NamesBorn
    <2>5. call'[c].path \in {call[c].path, None}
      BY <1>1, <1>2
    <2> QED
      BY <1>1, <1>3, <2>1, <2>2, <2>3, <2>4, <2>5, NamesStay DEF KeepInv, NamesBorn, p
  <1>5. OneRecord'
    <2> SUFFICES ASSUME NEW q \in Paths, NEW r \in Paths, q # r, files'[q] # None, files'[r] # None,
                        files'[q].id = files'[r].id,
                        ~DoubledThen(files'[q].id)
                 PROVE  \E d \in Calls : call'[d].pc = "remove" /\ {q, r} = {call'[d].path, Place(d)'}
      BY RecordNext
    <2>1. PICK d \in Calls : call[d].pc = "remove" /\ {q, r} = {call[d].path, Place(d)}
      BY <1>3, <1>d DEF KeepInv, OneRecord
    <2>2. d # c
      BY <1>3, <2>1
    <2> QED
      BY <1>1, <2>1, <2>2, SameCall
  <1>6. ASSUME NEW d \in Calls, call'[d].pc # "new"
        PROVE  Derived(d)'
    <2>1. CASE d = c
      <3>2. ASSUME Op(c) # "create"
            PROVE  /\ call'[c].path # None /\ files'[call'[c].path] # None
                   /\ ~Moves(c) => p.id = files'[call'[c].path].id /\ p.chan = files'[call'[c].path].chan
                   /\ Moves(c) => \/ p.id = files'[call'[c].path].id
                                  \/ files'[Place(c)'] # None /\ p.id = files'[Place(c)'].id
        <4>1. /\ call'[c].path = call[c].path /\ call[c].path \in Paths /\ files'[call'[c].path] = found
              /\ found # None /\ p.id = base.id /\ p.chan = found.chan
          BY <1>2, <1>3, <3>2 DEF found
        <4>2. call[c].path # None
          BY <4>1, NamesAssumption DEF Paths
        <4>3. TakesOver(c) => Moves(c) /\ files'[Place(c)'] = base /\ base # None
          BY <1>2, <1>3, <1>b, <3>2
        <4> QED
          BY <1>a, <4>1, <4>2, <4>3
      <3>3. Derived(c)'
        BY <1>1, <3>2 DEF Derived, p
      <3> QED
        BY <2>1, <3>3
    <2>2. CASE d # c
      <3>1. call'[d] = call[d] /\ Op(d)' = Op(d) /\ Moves(d)' = Moves(d) /\ Place(d)' = Place(d)
        BY <1>1, <2>2, SameCall
      <3>2. call[d].pc \in {"remove", "map"} => Place(d) # None
        BY PlaceLemma DEF Storing
      <3> QED
        BY <1>3, <1>6, <3>1, <3>2 DEF KeepInv, Derived
    <2> QED
      BY <2>1, <2>2
  <1>7. LogsKept'
    <2> SUFFICES ASSUME NEW x \in Calls, Kept(x)'
                 PROVE  /\ call'[x].project # None
                        /\ DoubledThen(call'[x].project.id) \/
                              /\ \A q \in Paths : files'[q] # None /\ files'[q].id = call'[x].project.id
                                    => x \in files'[q].log
                              /\ \A d \in Calls : /\ call'[d].pc \in Storing
                                                  /\ call'[d].project.id = call'[x].project.id
                                    => x \in call'[d].project.log
      BY LogsNext
    <2>1. x # c /\ Kept(x) /\ call'[x] = call[x]
      BY <1>1, SameCall DEF Kept
    <2>2. p.id = call[x].project.id => x \in p.log \/ Doubled(p.id)
      <3>1. call[x].project # None
        BY <2>1 DEF KeepInv, LogsKept
      <3>2. CASE Op(c) = "create"
        BY <1>1, <2>1, <3>1, <3>2 DEF KeepInv, NamesBorn
      <3>3. CASE Op(c) # "create"
        BY <1>2, <1>b, <2>1, <3>3 DEF KeepInv, LogsKept
      <3> QED
        BY <3>2, <3>3
    <2>3. \A d \in Calls : d # c => call'[d] = call[d]
      BY <1>1 DEF OnlyCall
    <2> QED
      BY <1>3, <1>d, <2>1, <2>2, <2>3 DEF KeepInv, LogsKept, p
  <1> QED
    BY <1>4, <1>5, <1>6, <1>7 DEF KeepInv

\* A record is stored under a name that is there, or by the request that makes it.
LEMMA StoredNames ==
  ASSUME StoreInv, OpenInv, KeepInv, NEW c \in Calls, call[c].pc \in Storing, NEW x \in Calls
  PROVE  /\ call[c].project.id = x /\ call[c].pc = "write" =>
               Born(x) \/ (x = c /\ (Op(c) = "create" \/ call[c].at = 5))
         /\ Place(c) = x => \/ Born(x)
                            \/ x = c /\ (Op(c) = "create" \/ call[c].at = 5)
  <1>1. /\ call[c].project \in Projects /\ Place(c) \in Paths
        /\ call[c].project.repo # None => Place(c) \in Repos
        /\ call[c].project.repo = None /\ call[c].path # None => Place(c) = call[c].path
        /\ call[c].project.repo = None /\ call[c].path = None => Place(c) = call[c].project.id
        /\ call[c].pc # "new" /\ call[c].path \in Paths \cup {None}
    BY PlaceLemma
  <1>2. /\ call[c].project # None /\ x \notin Repos
    BY <1>1, ProjectFields, NamesAssumption DEF Ids
  <1>3. call[c].project.id = x => Born(x) \/ x = c
    BY <1>2 DEF KeepInv, NamesBorn
  <1>4. Op(c) # "create" /\ ~Moves(c) =>
           /\ call[c].path # None
           /\ call[c].pc = "write" => /\ files[call[c].path] # None
                                      /\ call[c].project.id = files[call[c].path].id
    BY <1>1 DEF KeepInv, Derived, OpenInv, UpdateOK, Stored
  <1>5. Moves(c) => call[c].at = 5
    BY DEF Moves
  <1>6. call[c].project.id = x /\ call[c].pc = "write" =>
               Born(x) \/ (x = c /\ (Op(c) = "create" \/ call[c].at = 5))
    BY <1>1, <1>3, <1>4, <1>5 DEF KeepInv, NamesBorn
  <1>7. Place(c) = x => call[c].project.repo = None
    BY <1>1, <1>2
  <1>8. Place(c) = x /\ call[c].path # None => Born(x)
    BY <1>1, <1>7 DEF KeepInv, NamesBorn
  <1>9. Place(c) = x /\ call[c].path = None => Born(x) \/ (x = c /\ (Op(c) = "create" \/ call[c].at = 5))
    BY <1>1, <1>3, <1>4, <1>5, <1>7
  <1> QED
    BY <1>6, <1>8, <1>9

\* The selections that have seen a record wait for a touch of their channel, which
\* leaves the open changes alone.
LEMMA SeenWaits ==
  ASSUME StoreInv, OpenInv, SeenInv, NEW c \in Calls, call[c].pc \in Storing,
         NEW d \in Calls, d # c, Moves(d), InFlight(d), Resumes(d)
  PROVE  /\ call[c].pc # "remove" /\ files[Repo(d)] = call[d].seen
         /\ call[c].pc = "write" => Place(c) # Repo(d)
  <1>1. /\ Updates(c) /\ call[c].pc \in Locked /\ call[c].pc # "new"
        /\ Op(c) \in {"create", "settle", "update"}
    BY StorerUpdates
  <1>2. Updates(d) /\ call[d].pc # "new" /\ Kind(d) = "use" /\ call[d].at = 5
    BY FlightLemma DEF Moves, Updates, Reads
  <1>3. /\ Chan(d) = Chan(c) /\ Kind(c) = "touch" /\ call[d].pc \notin Locked
    BY <1>1, <1>2, OnlyWriter
  <1>4. files[Repo(d)] = call[d].seen /\ call[d].pc \notin Storing
    <2>1. call[d].pc \notin Storing
      BY <1>3 DEF Locked
    <2> QED
      BY <1>2, <2>1 DEF SeenInv, SeenStays
  <1>5. /\ Op(c) = "update" /\ ~Moves(c)
    BY <1>1, <1>3, StoringUpdates DEF Moves
  <1>6. call[c].path # None /\ Place(c) = call[c].path /\ call[c].pc # "remove"
    BY <1>1, <1>5 DEF OpenInv, UpdateOK, Stored, Place
  <1>7. ASSUME call[c].pc = "write", Place(c) = Repo(d)
        PROVE  FALSE
    <2>1. files[call[c].path] = call[d].seen /\ files[call[c].path] # None
          /\ HasOpenChange(files[call[c].path])
      BY <1>4, <1>6, <1>7 DEF Resumes
    <2>2. map[Chan(c)] = call[c].path
      BY <1>1, <1>6, <1>7, <2>1 DEF OpenInv, UpdateOK, EntryStays, Storing
    <2>3. NotOpen(map[Chan(d)])
      <3>1. FindsNone(d)
        BY <1>2 DEF OpenInv, UpdateOK
      <3>2. map[Chan(d)] # None /\ call[d].pc \notin {"remove", "map"}
        BY <1>3, <1>4, <1>6, <2>2 DEF Storing
      <3> QED
        BY <1>2, <3>1, <3>2 DEF FindsNone
    <2> QED
      BY <1>3, <2>1, <2>2, <2>3 DEF NotOpen
  <1> QED
    BY <1>4, <1>6, <1>7

\* The record is written beside the one it comes from, or over it.
LEMMA WriteFileKeeps ==
  ASSUME StoreInv, OpenInv, KeepInv, NEW c \in Calls, WriteFile(c)
  PROVE  KeepInv'
  <1> DEFINE p == call[c].project
             P == Place(c)
  <1>1. /\ call[c].pc = "write" /\ call[c].pc \in Storing
        /\ files'[P] = p
        /\ \A q \in Paths : q # P => files'[q] = files[q]
        /\ MovesTo(c, IF call[c].path \in {None, P} THEN "map" ELSE "remove", call[c].path, p)
        /\ map' = map
    BY WriteFileEffect
  <1>2. /\ Updates(c) /\ call[c].pc \in Locked /\ call[c].pc # "new" /\ InFlight(c)
        /\ Op(c) \in {"create", "settle", "update"}
        /\ Op(c) = "create" => call[c].at = 2
    BY <1>1, StorerUpdates
  <1>3. /\ p \in Projects /\ P \in Paths /\ P # None /\ p # None /\ call[c].path \in Paths \cup {None}
    BY <1>1, PlaceLemma, ProjectFields
  <1>4. \A d \in Calls : call[d].pc \in Storing => d = c
    BY <1>2, OneStorer
  <1>5. /\ OnlyCall(c) /\ Op(c)' = Op(c) /\ Place(c)' = P /\ call'[c].path = call[c].path
        /\ call'[c].project = p /\ call'[c].seen = call[c].seen /\ call'[c].at = call[c].at
        /\ call'[c].pc \in {"map", "remove"}
        /\ call'[c].pc = "map" <=> call[c].path \in {None, P}
    BY <1>1 DEF MovesTo, Op, Place, Kind
  <1>a. Op(c) = "create" => p.id = c /\ ~Born(c) /\ P = c
    <2> SUFFICES ASSUME Op(c) = "create"
                 PROVE  p.id = c /\ ~Born(c) /\ P = c
      OBVIOUS
    <2>1. call[c].at = 2 /\ Kind(c) \in {"use", "propose"}
      BY <1>2, StoringUpdates
    <2>2. call[c].path = None /\ p.id = c /\ p.repo = None
      BY <1>1, <1>2, <2>1 DEF OpenInv, UpdateOK, Creates
    <2>3. P = c
      BY <2>2 DEF Place, Target
    <2> QED
      BY <1>1, <2>1, <2>2, <2>3 DEF Born, Ended
  <1> HIDE DEF P, p
  <1>d. \A id : Doubled(id) => DoubledThen(id)
    BY <1>1, <1>5, DoubledStays
  <1>6. NamesBorn'
    <2>1. Born(c) => Born(c)'
      BY <1>1, <1>5 DEF Born
    <2>2. \A x \in Calls : Born(x) => Born(x)'
      BY <1>5, <2>1, SameCall
    <2>3. Op(c) = "create" \/ call[c].at = 5 => Born(c)'
      BY <1>2, <1>5 DEF Born
    <2>4. \A x \in Calls : (p.id = x \/ P = x) => Born(x)'
      BY <1>1, <2>2, <2>3, StoredNames DEF p, P
    <2>5. \A x \in Calls : x \in Paths
      BY DEF Paths, Ids
    <2>6. \A x \in Calls :
            /\ files'[x] # None => files[x] # None \/ Born(x)'
            /\ \A q \in Paths : files'[q] # None /\ files'[q].id = x =>
                  (files[q] # None /\ files[q].id = x) \/ Born(x)'
      BY <1>1, <2>4, <2>5
    <2> QED
      BY <1>1, <1>5, <2>1, <2>6, NamesStay DEF KeepInv, p
  <1>7. OneRecord'
    <2>1. ASSUME NEW r \in Paths, r # P, files[r] # None, files[r].id = p.id, ~Doubled(p.id)
          PROVE  r = call[c].path /\ call'[c].pc = "remove"
      <3>1. \A q \in Paths : q # r /\ files[q] # None => files[q].id # files[r].id
        BY <1>1, <1>4, <2>1 DEF KeepInv, OneRecord, Storing
      <3>2. Op(c) # "create"
        <4> SUFFICES ASSUME Op(c) = "create" PROVE FALSE
          OBVIOUS
        <4> QED
          BY <1>a, <2>1 DEF KeepInv, NamesBorn
      <3>3. /\ call[c].path # None /\ files[call[c].path] # None
            /\ p.id = files[call[c].path].id \/ (files[P] # None /\ p.id = files[P].id)
        BY <1>1, <1>2, <3>2 DEF KeepInv, Derived, p, P
      <3>4. r = call[c].path
        BY <1>3, <2>1, <3>1, <3>3
      <3> QED
        BY <1>5, <2>1, <3>3, <3>4
    <2> SUFFICES ASSUME NEW q \in Paths, NEW r \in Paths, q # r, files'[q] # None, files'[r] # None,
                        files'[q].id = files'[r].id,
                        ~DoubledThen(files'[q].id)
                 PROVE  \E d \in Calls : call'[d].pc = "remove" /\ {q, r} = {call'[d].path, Place(d)'}
      BY RecordNext
    <2>2. CASE q # P /\ r # P
      <3>1. PICK d \in Calls : call[d].pc = "remove"
        BY <1>1, <1>d, <2>2 DEF KeepInv, OneRecord
      <3> QED
        BY <1>1, <1>4, <3>1 DEF Storing
    <2>3. CASE q = P
      <3>1. r = call[c].path /\ call'[c].pc = "remove"
        BY <1>1, <1>d, <2>1, <2>3
      <3> QED
        BY <1>5, <2>3, <3>1
    <2>4. CASE r = P
      <3>1. q = call[c].path /\ call'[c].pc = "remove"
        BY <1>1, <1>d, <2>1, <2>4
      <3> QED
        BY <1>5, <2>4, <3>1
    <2> QED
      BY <2>2, <2>3, <2>4
  <1>8. ASSUME NEW d \in Calls, call'[d].pc # "new"
        PROVE  Derived(d)'
    <2>1. CASE d = c
      <3>1. c \in p.log
        BY <1>1, <1>2 DEF KeepInv, Derived, p
      <3>2. Op(c) = "create" => \A ch \in Channels : map'[ch] # P
        BY <1>1, <1>a DEF KeepInv, NamesBorn
      <3>3. Derived(c)'
        BY <1>5, <3>1, <3>2 DEF Derived
      <3> QED
        BY <2>1, <3>3
    <2>2. CASE d # c
      <3>1. call[d].pc \notin Storing
        BY <1>4, <2>2
      <3> QED
        BY <1>5, <2>2, <3>1, SameCall DEF Derived, Storing
    <2> QED
      BY <2>1, <2>2
  <1>9. LogsKept'
    <2> SUFFICES ASSUME NEW x \in Calls, Kept(x)'
                 PROVE  /\ call'[x].project # None
                        /\ DoubledThen(call'[x].project.id) \/
                              /\ \A q \in Paths : files'[q] # None /\ files'[q].id = call'[x].project.id
                                    => x \in files'[q].log
                              /\ \A d \in Calls : /\ call'[d].pc \in Storing
                                                  /\ call'[d].project.id = call'[x].project.id
                                    => x \in call'[d].project.log
      BY LogsNext
    <2>1. x # c /\ Kept(x) /\ call'[x] = call[x]
      BY <1>5, SameCall DEF Kept
    <2>2. p.id = call[x].project.id => x \in p.log \/ Doubled(p.id)
      BY <1>1, <2>1 DEF KeepInv, LogsKept, p
    <2>3. \A d \in Calls : d # c => call'[d] = call[d]
      BY <1>5 DEF OnlyCall
    <2> QED
      BY <1>1, <1>5, <1>d, <2>1, <2>2, <2>3 DEF KeepInv, LogsKept
  <1> QED
    BY <1>6, <1>7, <1>8, <1>9 DEF KeepInv

\* What is left where the record was is removed.
LEMMA RemoveFileKeeps ==
  ASSUME StoreInv, OpenInv, KeepInv, NEW c \in Calls, RemoveFile(c)
  PROVE  KeepInv'
  <1>1. /\ call[c].pc = "remove" /\ call[c].pc \in Storing /\ call[c].path \in Paths
        /\ files'[call[c].path] = None
        /\ \A q \in Paths : q # call[c].path => files'[q] = files[q]
        /\ MovesTo(c, "map", call[c].path, call[c].project)
        /\ map' = map
    BY RemoveFileEffect
  <1>2. Updates(c) /\ call[c].pc \in Locked
    BY <1>1, StorerUpdates
  <1>3. \A d \in Calls : call[d].pc \in Storing => d = c
    BY <1>2, OneStorer
  <1>4. /\ OnlyCall(c) /\ Place(c)' = Place(c) /\ call'[c].path = call[c].path
        /\ call'[c].project = call[c].project /\ call'[c].seen = call[c].seen
        /\ call'[c].at = call[c].at /\ call'[c].pc = "map"
    BY <1>1 DEF MovesTo, Place
  <1>5. \A q \in Paths : files'[q] # None => files'[q] = files[q] /\ q # call[c].path
    BY <1>1
  <1>d. \A id : Doubled(id) => DoubledThen(id)
    BY <1>1, <1>4, DoubledStays
  <1>6. NamesBorn'
    <2>1. Born(c) => Born(c)'
      BY <1>1, <1>4 DEF Born
    <2>2. \A x \in Calls : x \in Paths
      BY DEF Paths, Ids
    <2> QED
      BY <1>1, <1>4, <1>5, <2>1, <2>2, NamesStay DEF KeepInv
  <1>7. OneRecord'
    <2> SUFFICES ASSUME NEW q \in Paths, NEW r \in Paths, q # r, files'[q] # None, files'[r] # None,
                        files'[q].id = files'[r].id,
                        ~DoubledThen(files'[q].id)
                 PROVE  FALSE
      BY RecordNext
    <2>1. PICK d \in Calls : call[d].pc = "remove" /\ {q, r} = {call[d].path, Place(d)}
      BY <1>5, <1>d DEF KeepInv, OneRecord
    <2>2. d = c
      BY <1>3, <2>1 DEF Storing
    <2> QED
      BY <1>5, <2>1, <2>2
  <1>8. ASSUME NEW d \in Calls, call'[d].pc # "new"
        PROVE  Derived(d)'
    <2>1. CASE d = c
      <3>1. /\ c \in call[c].project.log
            /\ Op(c) = "create" => \A ch \in Channels : map[ch] # Place(c)
        BY <1>1, <1>2, FlightLemma DEF KeepInv, Derived
      <3>2. Op(c)' = Op(c)
        BY <1>1 DEF MovesTo, Op, Kind
      <3>3. Derived(c)'
        BY <1>1, <1>4, <3>1, <3>2 DEF Derived
      <3> QED
        BY <2>1, <3>3
    <2>2. CASE d # c
      <3>1. call[d].pc \notin Storing
        BY <1>3, <2>2
      <3> QED
        BY <1>4, <2>2, <3>1, SameCall DEF Derived, Storing
    <2> QED
      BY <2>1, <2>2
  <1>9. LogsKept'
    <2> SUFFICES ASSUME NEW x \in Calls, Kept(x)'
                 PROVE  /\ call'[x].project # None
                        /\ DoubledThen(call'[x].project.id) \/
                              /\ \A q \in Paths : files'[q] # None /\ files'[q].id = call'[x].project.id
                                    => x \in files'[q].log
                              /\ \A d \in Calls : /\ call'[d].pc \in Storing
                                                  /\ call'[d].project.id = call'[x].project.id
                                    => x \in call'[d].project.log
      BY LogsNext
    <2>1. x # c /\ Kept(x) /\ call'[x] = call[x]
      BY <1>4, SameCall DEF Kept
    <2>2. \A d \in Calls : d # c => call'[d] = call[d]
      BY <1>4 DEF OnlyCall
    <2> QED
      BY <1>1, <1>4, <1>5, <1>d, <2>1, <2>2 DEF KeepInv, LogsKept
  <1> QED
    BY <1>6, <1>7, <1>8, <1>9 DEF KeepInv

\* The record is entered in the map, and the update is answered.
LEMMA WriteRecordKeeps ==
  ASSUME StoreInv, OpenInv, KeepInv, NEW c \in Calls, WriteRecord(c)
  PROVE  KeepInv'
  <1> DEFINE p == call[c].project
             P == Place(c)
  <1>1. /\ call[c].pc = "map" /\ call[c].pc \in Storing
        /\ map'[p.chan] = IF p.status = "archived" THEN None ELSE P
        /\ \A ch \in Channels : ch # p.chan => map'[ch] = map[ch]
        /\ OnlyCall(c) /\ Answers(c, call'[c])
        /\ IF Op(c) = "update"
           THEN call'[c].pc = "ok" /\ call'[c].at = call[c].at
           ELSE call'[c].pc = "error" \/ (call'[c].pc = "start" /\ call'[c].at = call[c].at + 1)
        /\ files' = files
    BY WriteRecordEffect
  <1>2. /\ Updates(c) /\ call[c].pc \in Locked /\ call[c].pc # "new" /\ InFlight(c)
        /\ Op(c) \in {"create", "settle", "update"}
        /\ Op(c) = "create" => call[c].at = 2
        /\ Op(c) = "settle" => call[c].at = 3
    BY <1>1, StorerUpdates, StoringUpdates
  <1>3. /\ p \in Projects /\ P \in Paths /\ p # None
    BY <1>1, PlaceLemma, ProjectFields
  <1>4. \A d \in Calls : call[d].pc \in Storing => d = c
    BY <1>2, OneStorer
  <1>5. /\ call'[c].pc \in {"start", "ok", "error"} /\ call'[c].path \in {call[c].path, None}
        /\ call'[c].project = p /\ call'[c].seen = call[c].seen /\ call'[c].at \in 1..5
        /\ call'[c].pc # "start" => call'[c].at = call[c].at
        /\ Kind(c)' = Kind(c)
    <2>1. call'[c].at \in 1..5
      BY <1>1, CallFields DEF Answers
    <2> QED
      BY <1>1, <2>1 DEF Answers, Kind
  <1>6. files[P] = p /\ c \in p.log
    BY <1>1, <1>2 DEF OpenInv, UpdateOK, Stored, KeepInv, Derived, Place
  <1> HIDE DEF P, p
  <1>d. \A id : Doubled(id) => DoubledThen(id)
    BY <1>1, DoubledStays
  <1>7. NamesBorn'
    <2>1. Born(c) => Born(c)'
      <3>1. CASE call'[c].pc = "start"
        <4>1. call'[c].at = call[c].at + 1 /\ call[c].at \in {2, 3}
          BY <1>1, <1>2, <3>1
        <4> QED
          BY <4>1 DEF Born
      <3>2. CASE call'[c].pc # "start"
        BY <1>5, <3>2 DEF Born, Ended
      <3> QED
        BY <3>1, <3>2
    <2>2. \A x \in Calls : Born(x) => Born(x)'
      BY <1>1, <2>1, SameCall
    <2>3. Op(c) = "create" \/ call[c].at = 5 => Born(c)
      BY <1>1, <1>2 DEF Born
    <2>4. \A x \in Calls : P = x => Born(x)'
      BY <1>1, <2>2, <2>3, StoredNames DEF P
    <2>5. \A x \in Calls : x # None
      BY NamesAssumption DEF Ids
    <2>6. \A x \in Calls : \A ch \in Channels : map'[ch] = x => map[ch] = x \/ Born(x)'
      <3> SUFFICES ASSUME NEW x \in Calls, NEW ch \in Channels, map'[ch] = x
                   PROVE  map[ch] = x \/ Born(x)'
        OBVIOUS
      <3>1. CASE ch = p.chan
        BY <1>1, <2>4, <2>5, <3>1
      <3>2. CASE ch # p.chan
        BY <1>1, <3>2
      <3> QED
        BY <3>1, <3>2
    <2> QED
      BY <1>1, <1>5, <2>1, <2>5, <2>6, NamesStay DEF KeepInv, p
  <1>8. OneRecord'
    <2> SUFFICES ASSUME NEW q \in Paths, NEW r \in Paths, q # r, files'[q] # None, files'[r] # None,
                        files'[q].id = files'[r].id,
                        ~DoubledThen(files'[q].id)
                 PROVE  FALSE
      BY RecordNext
    <2>1. PICK d \in Calls : call[d].pc = "remove"
      BY <1>1, <1>d DEF KeepInv, OneRecord
    <2> QED
      BY <1>1, <1>4, <2>1 DEF Storing
  <1>9. ASSUME NEW d \in Calls, call'[d].pc # "new"
        PROVE  Derived(d)'
    <2>1. CASE d = c
      BY <1>5, <2>1 DEF Derived, Storing
    <2>2. CASE d # c
      <3>1. call[d].pc \notin Storing /\ call'[d] = call[d]
        BY <1>1, <1>4, <2>2, SameCall
      <3> QED
        BY <3>1 DEF Derived, Storing
    <2> QED
      BY <2>1, <2>2
  <1>10. LogsKept'
    <2> SUFFICES ASSUME NEW x \in Calls, Kept(x)'
                 PROVE  /\ call'[x].project # None
                        /\ DoubledThen(call'[x].project.id) \/
                              /\ \A q \in Paths : files'[q] # None /\ files'[q].id = call'[x].project.id
                                    => x \in files'[q].log
                              /\ \A d \in Calls : /\ call'[d].pc \in Storing
                                                  /\ call'[d].project.id = call'[x].project.id
                                    => x \in call'[d].project.log
      BY LogsNext
    <2>1. \A d \in Calls : call'[d].pc \notin Storing
      <3>1. call'[c].pc \notin Storing
        BY <1>5 DEF Storing
      <3> QED
        BY <1>1, <1>4, <3>1 DEF OnlyCall
    <2>2. CASE x # c
      <3>1. Kept(x) /\ call'[x] = call[x]
        BY <1>1, <2>2, SameCall
      <3> QED
        BY <1>1, <1>d, <2>1, <3>1 DEF KeepInv, LogsKept
    <2>3. CASE x = c
      <3>1. call'[x].project = p /\ p # None
        BY <1>3, <1>5, <2>3
      <3>2. ASSUME NEW q \in Paths, files[q] # None, files[q].id = p.id, ~Doubled(p.id)
            PROVE  q = P
        <4> SUFFICES ASSUME q # P PROVE FALSE
          OBVIOUS
        <4>1. PICK d \in Calls : call[d].pc = "remove"
          BY <1>3, <1>6, <3>2 DEF KeepInv, OneRecord
        <4> QED
          BY <1>1, <1>4, <4>1 DEF Storing
      <3> QED
        BY <1>1, <1>6, <1>d, <2>1, <2>3, <3>1, <3>2
    <2> QED
      BY <2>2, <2>3
  <1> QED
    BY <1>7, <1>8, <1>9, <1>10 DEF KeepInv

-----------------------------------------------------------------------------
(* The steps that store nothing.                                           *)

\* What a call takes for gone, it has just read, or knew.
Reading(c) ==
    /\ call'[c].pc = "look" => \A ch \in call'[c].gone :
          (call[c].pc = "look" /\ ch \in call[c].gone) \/ files[map[ch]] = None
    /\ call'[c].pc = "drop" => files[call'[c].path] = None
    /\ call'[c].pc \in {"file", "drop"} =>
          /\ map' = map /\ call[c].req # None
          /\ \/ call'[c].path = map[Chan(c)]
             \/ call[c].pc = "file" /\ call'[c].path = call[c].path

\* A selection under way remains one.
StaysLate(c) ==
    call[c].req # None =>
        /\ call'[c].req # None /\ Kind(c)' = Kind(c) /\ Chan(c)' = Chan(c)
        /\ Moves(c) => call'[c].at = 5 /\ Repo(c)' = Repo(c) /\ call'[c].seen = call[c].seen

\* What a step that stores nothing does.
Harmless(c) ==
    /\ Quiet(c) /\ SeenStays(c)' /\ (Born(c) => Born(c)')
    /\ MapShrinks(c) /\ Reading(c) /\ StaysLate(c)

\* A call goes on reading.
LEMMA HarmlessMove ==
  ASSUME StoreInv, SeenInv, NEW c \in Calls, NEW pc, NEW path, MovesTo(c, pc, path, call[c].project),
         call[c].pc \in {"start", "record", "file", "look"},
         pc \in {"record", "file", "drop", "look"},
         path = call[c].path \/ (path = map[Chan(c)] /\ Chan(c) \in Channels),
         files' = files, map' = map, Reading(c)
  PROVE  Harmless(c)
  <1>1. /\ OnlyCall(c) /\ call'[c].pc = pc /\ call'[c].path = path
        /\ call'[c].project = call[c].project /\ call'[c].req = call[c].req
        /\ call'[c].at = call[c].at /\ call'[c].seen = call[c].seen
    BY DEF MovesTo
  <1>2. Kind(c)' = Kind(c) /\ Chan(c)' = Chan(c) /\ Repo(c)' = Repo(c)
    BY <1>1 DEF Kind, Chan, Repo
  <1>3. Quiet(c)
    BY <1>1 DEF Quiet, Storing, Ended
  <1>4. SeenStays(c)'
    <2>1. call[c].pc # "new" /\ InFlight(c) /\ call[c].pc \notin Storing
      BY DEF InFlight, Storing, Ended
    <2> QED
      BY <1>1, <1>2, <2>1 DEF SeenInv, SeenStays, Moves, Resumes
  <1>5. Born(c) => Born(c)'
    BY <1>1 DEF Born, Ended
  <1>6. MapShrinks(c) /\ StaysLate(c)
    BY <1>1, <1>2 DEF MapShrinks, StaysLate, Moves
  <1> QED
    BY <1>3, <1>4, <1>5, <1>6 DEF Harmless

\* A call is answered without having stored anything.
LEMMA HarmlessAnswer ==
  ASSUME StoreInv, SeenInv, NEW c \in Calls, OnlyCall(c), Answers(c, call'[c]),
         call[c].pc \in {"record", "file", "drop", "look"},
         files' = files, MapShrinks(c),
         call'[c].pc = "ok" => Kind(c) \in Reads,
         Kind(c) = "use" /\ call'[c].pc = "start" => call[c].at # 5 /\ call'[c].at # 5,
         call'[c].pc = "start" => call'[c].at \in 3..5 \/ call[c].at \notin 2..5
  PROVE  Harmless(c)
  <1>1. /\ call'[c].pc \in {"start", "ok", "error"} /\ call'[c].req # None
        /\ Kind(c)' = Kind(c) /\ Chan(c)' = Chan(c) /\ call'[c].req.kind = Kind(c)
        /\ Kind(c) = "use" => Repo(c)' = Repo(c)
        /\ call'[c].pc # "start" => call'[c].at = call[c].at
        /\ call'[c].path \in {call[c].path, None}
        /\ call'[c].project = call[c].project /\ call'[c].seen = call[c].seen
    BY DEF Answers, Kind, Chan, Repo
  <1>2. Quiet(c)
    <2>1. \A ch \in Channels : map'[ch] \in {map[ch], None}
      BY DEF MapShrinks
    <2> QED
      BY <1>1, <2>1 DEF Quiet, Storing, Ended
  <1>3. SeenStays(c)'
    <2>1. CASE call'[c].pc = "start"
      BY <1>1, <2>1 DEF SeenStays, Moves
    <2>2. CASE call'[c].pc # "start"
      BY <1>1, <2>2 DEF SeenStays, InFlight, Ended
    <2> QED
      BY <2>1, <2>2
  <1>4. Born(c) => Born(c)'
    <2>1. CASE call'[c].pc = "start"
      BY <2>1 DEF Born
    <2>2. CASE call'[c].pc # "start"
      BY <1>1, <2>2 DEF Born, Ended
    <2> QED
      BY <2>1, <2>2
  <1>5. StaysLate(c)
    BY <1>1 DEF StaysLate, Moves
  <1>6. Reading(c)
    BY <1>1 DEF Reading
  <1> QED
    BY <1>2, <1>3, <1>4, <1>5, <1>6 DEF Harmless

\* What a call without a project does.
LEMMA NoProjectKinds ==
  ASSUME StoreInv, SeenInv, NEW c \in Calls, call[c].pc \in {"record", "drop"}, NoProject(c),
         files' = files, MapShrinks(c), call[c].pc = "record" => map[Chan(c)] = None
  PROVE  Harmless(c) \/ Makes(c)
  <1>1. call[c] \in CallRecords /\ CallOK(c) /\ call[c].pc # "new"
    BY StoreFacts
  <1>2. CASE Op(c) = "get" /\ OnlyCall(c) /\ call'[c] = AfterGet(c, None) /\ Answers(c, call'[c])
    <2>1. /\ call[c].at = 1
      BY <1>1, <1>2, MadeCall
    <2>2. /\ Kind(c) \in {"use", "propose"} =>
                   \/ AfterGet(c, None).pc = "error"
                   \/ AfterGet(c, None).pc = "start" /\ AfterGet(c, None).at \in {2, 4}
          /\ AfterGet(c, None).pc = "ok" => Kind(c) = "get"
      BY <1>1, <1>2, AfterGetLemma, Zenon
    <2>3. /\ call'[c].pc = "ok" => Kind(c) \in Reads
          /\ Kind(c) = "use" /\ call'[c].pc = "start" => call[c].at # 5 /\ call'[c].at # 5
      BY <1>2, <2>1, <2>2 DEF Reads
    <2> QED
      BY <1>2, <2>1, <2>3, HarmlessAnswer
  <1>3. CASE Op(c) = "create" /\ MovesTo(c, "write", None, Created(c))
    BY <1>3 DEF Makes
  <1>4. CASE Op(c) \in {"settle", "update"} /\ OnlyCall(c) /\ call'[c].pc = "error"
             /\ Answers(c, call'[c])
    BY <1>4, HarmlessAnswer
  <1> QED
    BY <1>2, <1>3, <1>4, NoProjectEffect

\* A call that has read the map goes on to the file, or makes a record.
LEMMA ReadRecordKinds ==
  ASSUME StoreInv, SeenInv, NEW c \in Calls, ReadRecord(c)
  PROVE  Harmless(c) \/ Makes(c)
  <1>1. /\ call[c].pc = "record" /\ files' = files /\ map' = map /\ crashes' = crashes
        /\ \/ map[Chan(c)] = None /\ NoProject(c)
           \/ MovesTo(c, "file", map[Chan(c)], call[c].project)
    BY ReadRecordEffect
  <1>2. MapShrinks(c)
    BY <1>1 DEF MapShrinks
  <1>3. CASE MovesTo(c, "file", map[Chan(c)], call[c].project)
    <2>1. Chan(c) \in Channels
      BY <1>1, StoreFacts
    <2>2. Reading(c)
      <3>1. call[c].req # None
        BY <1>1, StoreFacts DEF CallOK
      <3> QED
        BY <1>1, <1>3, <3>1 DEF Reading, MovesTo
    <2> QED
      BY <1>1, <1>3, <2>1, <2>2, HarmlessMove
  <1> QED
    BY <1>1, <1>2, <1>3, NoProjectKinds

\* A call that has read the file is answered, drops the entry or makes a record.
LEMMA ReadFileKinds ==
  ASSUME StoreInv, SeenInv, NEW c \in Calls, ReadFile(c)
  PROVE  \/ Harmless(c)
         \/ Makes(c)
  <1> DEFINE cur == files[call[c].path]
  <1>1. /\ call[c].pc = "file" /\ call[c].path \in Paths /\ cur \in Projects \cup {None}
        /\ files' = files /\ map' = map /\ crashes' = crashes
        /\ \/ /\ cur = None /\ MovesTo(c, "drop", call[c].path, call[c].project)
           \/ /\ cur # None /\ OnlyCall(c) /\ Answers(c, call'[c])
              /\ \/ Op(c) = "get" /\ call'[c] = AfterGet(c, cur)
                 \/ Op(c) = "create" /\ call'[c].pc = "error"
           \/ /\ Op(c) = "create" /\ ~Conflicts(c, cur)
              /\ MovesTo(c, "write", None, Created(c))
           \/ /\ cur # None /\ Op(c) \in {"settle", "update"}
              /\ MovesTo(c, "write", call[c].path, Updated(c, cur))
    BY ReadFileEffect
  <1>2. call[c] \in CallRecords /\ CallOK(c) /\ call[c].pc # "new"
    BY <1>1, StoreFacts
  <1>3. MapShrinks(c)
    BY <1>1 DEF MapShrinks
  <1>4. CASE cur = None /\ MovesTo(c, "drop", call[c].path, call[c].project)
    <2>1. Reading(c)
      BY <1>1, <1>2, <1>4 DEF Reading, MovesTo, CallOK
    <2> QED
      BY <1>1, <1>4, <2>1, HarmlessMove
  <1>5. CASE Op(c) = "get" /\ OnlyCall(c) /\ call'[c] = AfterGet(c, cur) /\ Answers(c, call'[c])
    <2>1. /\ call[c].at = 1
      BY <1>2, <1>5, MadeCall
    <2> HIDE DEF cur
    <2>2. /\ Kind(c) \in {"use", "propose"} =>
                   \/ AfterGet(c, cur).pc = "error"
                   \/ AfterGet(c, cur).pc = "start" /\ AfterGet(c, cur).at \in {2, 4}
          /\ AfterGet(c, cur).pc = "ok" => Kind(c) = "get"
      BY <1>1, <1>2, <1>5, AfterGetLemma, Zenon
    <2>3. /\ call'[c].pc = "ok" => Kind(c) \in Reads
          /\ Kind(c) = "use" /\ call'[c].pc = "start" => call[c].at # 5 /\ call'[c].at # 5
      BY <1>5, <2>1, <2>2 DEF Reads
    <2> QED
      BY <1>1, <1>3, <1>5, <2>1, <2>3, HarmlessAnswer
  <1>6. CASE Op(c) = "create" /\ OnlyCall(c) /\ call'[c].pc = "error" /\ Answers(c, call'[c])
    BY <1>1, <1>3, <1>6, HarmlessAnswer
  <1>7. CASE Op(c) = "create" /\ ~Conflicts(c, cur) /\ MovesTo(c, "write", None, Created(c))
    BY <1>1, <1>3, <1>7 DEF Makes
  <1>8. CASE cur # None /\ Op(c) \in {"settle", "update"}
             /\ MovesTo(c, "write", call[c].path, Updated(c, cur))
    BY <1>1, <1>3, <1>8 DEF Makes
  <1> QED
    BY <1>1, <1>4, <1>5, <1>6, <1>7, <1>8

\* A call that has dropped an entry is answered, or makes a record.
LEMMA DropRecordKinds ==
  ASSUME StoreInv, SeenInv, NEW c \in Calls, DropRecord(c)
  PROVE  Harmless(c) \/ Makes(c)
  <1>1. /\ call[c].pc = "drop" /\ NoProject(c) /\ files' = files /\ crashes' = crashes
        /\ \A ch \in Channels :
               map'[ch] = IF ch = Chan(c) /\ map[ch] = call[c].path THEN None ELSE map[ch]
    BY DropRecordEffect
  <1>2. MapShrinks(c)
    BY <1>1 DEF MapShrinks, Drops
  <1> QED
    BY <1>1, <1>2, NoProjectKinds

\* The other steps that store nothing.
LEMMA OtherKinds ==
  ASSUME StoreInv, SeenInv, NEW c \in Calls,
         \/ Begin(c) \/ LockChannel(c) \/ Peek(c) \/ ListRecords(c)
         \/ (\E ch \in Channels : LookAt(c, ch)) \/ Prune(c)
  PROVE  Harmless(c)
  <1>1. CASE Begin(c)
    <2>1. /\ call[c] = NewCall /\ OnlyCall(c) /\ call'[c].pc = "start" /\ call'[c].at = 1
          /\ call'[c].path = None /\ call'[c].project = None /\ call'[c].seen = None
          /\ files' = files /\ map' = map
      BY <1>1, BeginEffect
    <2>2. /\ call[c].pc = "new" /\ call[c].req = None /\ call[c].at = 1
          /\ call[c].project = None /\ call[c].seen = None
      BY <2>1 DEF NewCall
    <2> QED
      BY <2>1, <2>2 DEF Harmless, Quiet, SeenStays, Moves, Born, MapShrinks, Reading, StaysLate,
                        Storing, Ended
  <1>2. CASE LockChannel(c)
    <2>1. /\ MovesTo(c, "record", call[c].path, call[c].project) /\ call[c].pc = "start"
          /\ files' = files /\ map' = map
      BY <1>2, LockChannelStore
    <2>2. Reading(c)
      BY <2>1 DEF Reading, MovesTo
    <2> QED
      BY <2>1, <2>2, HarmlessMove
  <1>3. CASE Peek(c)
    <2>1. /\ call[c].pc = "start" /\ Kind(c) = "use" /\ call[c].at = 4 /\ Repo(c) \in Paths
          /\ OnlyCall(c) /\ call'[c].pc = "start" /\ call'[c].at = 5 /\ call'[c].path = None
          /\ call'[c].req = call[c].req /\ call'[c].project = call[c].project
          /\ call'[c].seen = files[Repo(c)] /\ files' = files /\ map' = map
      BY <1>3, PeekEffect
    <2>2. Kind(c)' = Kind(c) /\ Chan(c)' = Chan(c) /\ Repo(c)' = Repo(c)
      BY <2>1 DEF Kind, Chan, Repo
    <2>3. Quiet(c) /\ SeenStays(c)' /\ (Born(c) => Born(c)')
      BY <2>1, <2>2 DEF Quiet, SeenStays, Born, Storing, Ended
    <2>4. MapShrinks(c) /\ Reading(c) /\ StaysLate(c)
      BY <2>1, <2>2 DEF MapShrinks, Reading, StaysLate, Moves
    <2> QED
      BY <2>3, <2>4 DEF Harmless
  <1>4. CASE ListRecords(c)
    <2>1. /\ call[c].pc = "start" /\ MovesTo(c, "look", call[c].path, call[c].project)
          /\ call'[c].gone = call[c].gone /\ files' = files /\ map' = map
      BY <1>4, ListRecordsEffect
    <2>2. call[c].gone = {}
      <3>1. CallOK(c)
        BY StoreFacts
      <3> QED
        BY <2>1, <3>1 DEF CallOK
    <2>3. Reading(c)
      BY <2>1, <2>2 DEF Reading, MovesTo
    <2> QED
      BY <2>1, <2>3, HarmlessMove
  <1>5. ASSUME NEW ch \in Channels, LookAt(c, ch)
        PROVE  Harmless(c)
    <2>1. /\ call[c].pc = "look" /\ MovesTo(c, "look", call[c].path, call[c].project)
          /\ call'[c].gone = IF files[map[ch]] = None THEN call[c].gone \cup {ch} ELSE call[c].gone
          /\ files' = files /\ map' = map
      BY <1>5, LookAtEffect
    <2>2. Reading(c)
      BY <2>1 DEF Reading, MovesTo
    <2> QED
      BY <2>1, <2>2, HarmlessMove
  <1>6. CASE Prune(c)
    <2>1. /\ call[c].pc = "look" /\ Op(c) = "list"
          /\ \A ch \in Channels : map'[ch] = IF ch \in call[c].gone THEN None ELSE map[ch]
          /\ OnlyCall(c) /\ Answers(c, call'[c]) /\ files' = files
          /\ \/ call'[c].pc = "error"
             \/ /\ Kind(c) = "list" /\ call'[c].pc = "ok"
             \/ /\ Kind(c) = "propose" /\ call'[c].pc = "start" /\ call'[c].at = call[c].at + 1
      BY <1>6, PruneEffect
    <2>2. MapShrinks(c)
      BY <2>1 DEF MapShrinks, Drops
    <2>3. Kind(c) = "propose" => call[c].at = 4
      <3>1. call[c] \in CallRecords /\ CallOK(c) /\ call[c].pc # "new"
        BY <2>1, StoreFacts
      <3> QED
        BY <2>1, <3>1, MadeCall
    <2> QED
      BY <2>1, <2>2, <2>3, HarmlessAnswer DEF Reads
  <1> QED
    BY <1>1, <1>2, <1>3, <1>4, <1>5, <1>6

-----------------------------------------------------------------------------
(* Reading, changing and storing a record is one step.                     *)

\* A step that does not crash is harmless, makes a record, or stores it.
LEMMA StepKinds ==
  ASSUME StoreInv, SeenInv, [Next]_vars
  PROVE  \/ Crash
         \/ \E c \in Calls : \/ Harmless(c) \/ Makes(c)
                             \/ WriteFile(c) \/ RemoveFile(c) \/ WriteRecord(c)
         \/ UNCHANGED vars
  <1>1. CASE Crash
    BY <1>1
  <1>2. ASSUME NEW c \in Calls, Begin(c) \/ Step(c)
        PROVE  \/ Harmless(c) \/ Makes(c) \/ WriteFile(c) \/ RemoveFile(c) \/ WriteRecord(c)
    BY <1>2, ReadRecordKinds, ReadFileKinds, DropRecordKinds, OtherKinds DEF Step
  <1> QED
    BY <1>1, <1>2 DEF Next

\* A step of a call that leaves alone what is read, or has it stored.
LEMMA SeenKept ==
  ASSUME SeenInv, NEW c \in Calls, OnlyCall(c), SeenStays(c)',
         \A d \in Calls : d # c /\ Moves(d) /\ InFlight(d) /\ Resumes(d) /\ call[d].pc \notin Storing
                          => files'[Repo(d)] = files[Repo(d)]
  PROVE  SeenInv'
  <1> SUFFICES ASSUME NEW d \in Calls, d # c, call'[d].pc # "new"
               PROVE  SeenStays(d)'
    BY DEF SeenInv
  <1>1. call'[d] = call[d] /\ SeenStays(d)
    BY SameCall DEF SeenInv
  <1> QED
    BY <1>1, SameCall DEF SeenStays

\* A step after which nobody but the call is about to store a record.
LEMMA AtomKept ==
  ASSUME StoreInv, OpenInv, NEW c \in Calls, OnlyCall(c), call[c].pc \in Locked, Updates(c),
         call'[c].pc # "write"
  PROVE  UpdatesAtomic'
  <1>1. \A d \in Calls : call'[d].pc # "write"
    <2> SUFFICES ASSUME NEW d \in Calls, call'[d].pc = "write" PROVE FALSE
      OBVIOUS
    <2>1. d # c /\ call[d].pc \in Storing
      BY SameCall DEF Storing
    <2> QED
      BY <2>1, OneStorer
  <1> QED
    BY <1>1 DEF UpdatesAtomic

\* The update that a call makes depends on the call and on the record.
LEMMA SameUpdated ==
  ASSUME NEW c \in Calls, files' = files, call'[c].req = call[c].req, call'[c].at = call[c].at,
         call'[c].seen = call[c].seen, call'[c].path = call[c].path
  PROVE  /\ Updated(c, files[call[c].path])' = Updated(c, files[call[c].path])
         /\ Resumes(c)' = Resumes(c) /\ Repo(c)' = Repo(c) /\ Op(c)' = Op(c) /\ Kind(c)' = Kind(c)
  <1>1. Op(c)' = Op(c) /\ Kind(c)' = Kind(c) /\ Repo(c)' = Repo(c)
    BY DEF Op, Kind, Repo
  <1>2. Resumes(c)' = Resumes(c)
    BY <1>1 DEF Resumes
  <1>3. Selected(c, files[call[c].path])' = Selected(c, files[call[c].path])
    BY <1>1, <1>2 DEF Selected
  <1> QED
    BY <1>1, <1>2, <1>3 DEF Updated

\* A step that stores nothing.
LEMMA HarmlessAtomic ==
  ASSUME AtomInv, NEW c \in Calls, Harmless(c)
  PROVE  AtomInv'
  <1>1. OnlyCall(c) /\ files' = files /\ SeenStays(c)' /\ call'[c].pc # "write"
    BY DEF Harmless, Quiet, Storing
  <1>2. SeenInv'
    BY <1>1, SeenKept DEF AtomInv
  <1>3. UpdatesAtomic'
    <2> SUFFICES ASSUME NEW d \in Calls, call'[d].pc = "write", Op(d)' \in {"settle", "update"}
                 PROVE  /\ files'[call'[d].path] # None
                        /\ call'[d].project = Updated(d, files[call[d].path])'
                        /\ Op(d)' = "update" /\ Kind(d)' = "use" /\ Resumes(d)'
                           => call'[d].seen = files'[Repo(d)']
      BY DEF UpdatesAtomic
    <2>1. d # c /\ call'[d] = call[d]
      BY <1>1, SameCall
    <2>2. /\ call[d].pc = "write" /\ Op(d) = Op(d)' /\ Kind(d) = Kind(d)' /\ Repo(d)' = Repo(d)
          /\ Resumes(d)' = Resumes(d)
      BY <1>1, <2>1, SameCall
    <2>3. /\ files[call[d].path] # None
          /\ call[d].project = Updated(d, files[call[d].path])
          /\ Op(d) = "update" /\ Kind(d) = "use" /\ Resumes(d) => call[d].seen = files[Repo(d)]
      BY <2>2 DEF AtomInv, UpdatesAtomic
    <2>4. Updated(d, files[call[d].path])' = Updated(d, files[call[d].path])
      BY <1>1, <2>1, SameUpdated
    <2> QED
      BY <1>1, <2>1, <2>2, <2>3, <2>4
  <1> QED
    BY <1>2, <1>3 DEF AtomInv

\* A step that makes a record of the one on file.
LEMMA MakesAtomic ==
  ASSUME StoreInv, OpenInv, AtomInv, NEW c \in Calls, Makes(c)
  PROVE  AtomInv'
  <1>1. /\ OnlyCall(c) /\ call'[c].pc = "write" /\ files' = files
        /\ call'[c].req = call[c].req /\ call'[c].at = call[c].at /\ call'[c].seen = call[c].seen
        /\ Updates(c) /\ call[c].pc \in Locked /\ call[c].pc # "new"
        /\ Op(c)' = Op(c) /\ Kind(c)' = Kind(c)
    BY MadeRecord DEF AtomInv, Makes
  <1>2. SeenStays(c)'
    BY <1>1 DEF SeenStays, Storing
  <1>3. SeenInv'
    BY <1>1, <1>2, SeenKept DEF AtomInv
  <1>4. \A d \in Calls : call'[d].pc = "write" => d = c
    <2> SUFFICES ASSUME NEW d \in Calls, d # c, call'[d].pc = "write" PROVE FALSE
      OBVIOUS
    <2>1. call[d].pc \in Storing
      BY <1>1, SameCall DEF Storing
    <2> QED
      BY <1>1, <2>1, OneStorer
  <1>5. ASSUME Op(c) \in {"settle", "update"}
        PROVE  /\ files'[call'[c].path] # None
               /\ call'[c].project = Updated(c, files[call[c].path])'
               /\ Op(c) = "update" /\ Kind(c) = "use" /\ Resumes(c)'
                  => call'[c].seen = files'[Repo(c)']
    <2>1. /\ files[call[c].path] # None /\ call'[c].path = call[c].path
          /\ call'[c].project = Updated(c, files[call[c].path])
      BY <1>5 DEF Makes, MovesTo
    <2>2. Updated(c, files[call[c].path])' = Updated(c, files[call[c].path])
      BY <1>1, <2>1, SameUpdated
    <2>3. TakesOver(c) => files[Repo(c)] = call[c].seen
      <3> SUFFICES ASSUME TakesOver(c)
                   PROVE  files[Repo(c)] = call[c].seen
        OBVIOUS
      <3>1. SeenStays(c) /\ Resumes(c) /\ InFlight(c) /\ call[c].pc \notin Storing
        BY <1>1 DEF AtomInv, SeenInv, TakesOver, Updates, Makes, Storing
      <3>2. Moves(c)
        BY <1>1, <1>5, StoringUpdates DEF Moves, TakesOver
      <3> QED
        BY <3>1, <3>2 DEF SeenStays
    <2>4. Resumes(c)' = Resumes(c) /\ Repo(c)' = Repo(c)
      BY <1>1 DEF Resumes, Repo
    <2> QED
      BY <1>1, <2>1, <2>2, <2>3, <2>4 DEF TakesOver
  <1>6. UpdatesAtomic'
    BY <1>1, <1>4, <1>5 DEF UpdatesAtomic
  <1> QED
    BY <1>3, <1>6 DEF AtomInv

\* A step that stores a record, takes away what it leaves behind or enters it.
LEMMA StoringAtomic ==
  ASSUME StoreInv, OpenInv, AtomInv, NEW c \in Calls, WriteFile(c) \/ RemoveFile(c) \/ WriteRecord(c)
  PROVE  AtomInv'
  <1>1. /\ call[c].pc \in Storing /\ OnlyCall(c)
        /\ call'[c].pc \in {"remove", "map", "start", "ok", "error"}
    BY WriteFileEffect, RemoveFileEffect, WriteRecordEffect DEF MovesTo, Storing, Answers
  <1>2. /\ Updates(c) /\ call[c].pc \in Locked
        /\ Op(c) = "create" => call[c].at = 2
        /\ Op(c) = "settle" => call[c].at = 3
        /\ Op(c) \in {"create", "settle", "update"}
    BY <1>1, StorerUpdates, StoringUpdates
  <1>3. UpdatesAtomic'
    BY <1>1, <1>2, AtomKept
  <1>4. SeenStays(c)'
    <2>1. CASE WriteFile(c) \/ RemoveFile(c)
      BY <2>1, WriteFileEffect, RemoveFileEffect DEF MovesTo, SeenStays, Storing
    <2>2. CASE WriteRecord(c)
      <3>1. call'[c].pc = "start" => call'[c].at \in {3, 4}
        BY <1>2, <2>2, WriteRecordEffect
      <3> QED
        BY <1>1, <2>2, <3>1, WriteRecordEffect DEF SeenStays, Moves, InFlight, Ended, Storing
    <2> QED
      BY <2>1, <2>2
  <1>5. ASSUME NEW d \in Calls, d # c, Moves(d), InFlight(d), Resumes(d)
        PROVE  files'[Repo(d)] = files[Repo(d)]
    <2>1. /\ call[c].pc # "remove"
          /\ call[c].pc = "write" => Place(c) # Repo(d)
      BY <1>1, <1>5, SeenWaits DEF AtomInv
    <2>2. Repo(d) \in Paths
      <3>1. CallOK(d) /\ call[d].pc # "new" /\ Kind(d) = "use"
        BY <1>5, StoreFacts, FlightLemma DEF Moves
      <3> QED
        BY <3>1 DEF CallOK, Paths
    <2> QED
      BY <2>1, <2>2, WriteFileEffect, RemoveFileEffect, WriteRecordEffect
  <1>6. SeenInv'
    BY <1>1, <1>4, <1>5, SeenKept DEF AtomInv
  <1> QED
    BY <1>3, <1>6 DEF AtomInv

\* It holds at the start, also after a crash.
LEMMA AtomInit ==
  ASSUME Init
  PROVE  AtomInv
  <1>1. \A d \in Calls : call[d].pc = "new"
    <2>1. \A d \in Calls : call[d] = NewCall
      BY StoreInit
    <2>2. NewCall.pc = "new"
      BY DEF NewCall
    <2> QED
      BY <2>1, <2>2
  <1> QED
    BY <1>1 DEF AtomInv, SeenInv, UpdatesAtomic

LEMMA CrashAtomic ==
  ASSUME StoreInv, Crash
  PROVE  AtomInv'
  <1>1. \A d \in Calls : call'[d].pc \in {"new"} \cup Ended
    BY CrashEffect
  <1> QED
    BY <1>1 DEF AtomInv, SeenInv, SeenStays, InFlight, UpdatesAtomic, Ended

LEMMA AtomStep ==
  ASSUME StoreInv, OpenInv, AtomInv, [Next]_vars
  PROVE  AtomInv'
  <1>1. CASE UNCHANGED vars
    <2>1. files' = files /\ call' = call
      BY <1>1 DEF vars
    <2>2. SeenInv'
      BY <2>1 DEF AtomInv, SeenInv, SeenStays, Moves, Kind, InFlight, Resumes, Repo
    <2>3. UpdatesAtomic'
      BY <2>1, SameUpdated DEF AtomInv, UpdatesAtomic
    <2> QED
      BY <2>2, <2>3 DEF AtomInv
  <1> QED
    BY <1>1, StepKinds, CrashAtomic, HarmlessAtomic, MakesAtomic, StoringAtomic DEF AtomInv

\* state/store.ts:236-258, 251: while requests of different channels are not served
\* side by side, an update stores what it makes of the record that is on file then,
\* and a selection that takes a change over stores that change as it is by then.
THEOREM UpdatesAreAtomic == ASSUME ~Overlap PROVE Spec => []UpdatesAtomic
  <1>1. Init => StoreInv /\ OpenInv /\ AtomInv
    BY StoreInit, OpenInit, AtomInit
  <1>2. StoreInv /\ OpenInv /\ AtomInv /\ [Next]_vars => (StoreInv /\ OpenInv /\ AtomInv)'
    BY StoreStep, OpenStep, AtomStep
  <1>3. AtomInv => UpdatesAtomic
    BY DEF AtomInv
  <1> QED
    BY <1>1, <1>2, <1>3, PTL DEF Spec

-----------------------------------------------------------------------------
(* The invariant of the records holds of every step.                       *)

\* At the start each record is the one its channel leads to.
LEMMA InitEntries ==
  ASSUME Init
  PROVE  /\ \A q \in Paths : files[q] # None =>
               /\ q \in Channels \cup Repos
               /\ files[q].chan \in Channels /\ files[q].id = files[q].chan
               /\ map[files[q].chan] = q
         /\ \A ch \in Channels : map[ch] # None =>
               /\ map[ch] \in Channels \cup Repos
               /\ files[map[ch]] # None /\ files[map[ch]].chan = ch
  <1>1. PICK active \in SUBSET Channels :
          \E repo \in [active -> Repos \cup {None}] :
            LET path(ch) == IF repo[ch] = None THEN ch ELSE repo[ch]
                project(ch) == [Fresh(ch, ch) EXCEPT !.repo = repo[ch]]
            IN  /\ \A ch, d \in active : path(ch) = path(d) => ch = d
                /\ map = [ch \in Channels |-> IF ch \in active THEN path(ch) ELSE None]
                /\ files = [p \in Paths |->
                              IF \E ch \in active : path(ch) = p
                              THEN project(CHOOSE ch \in active : path(ch) = p)
                              ELSE None]
    BY DEF Init
  <1>b. PICK repo \in [active -> Repos \cup {None}] :
            LET path(ch) == IF repo[ch] = None THEN ch ELSE repo[ch]
                project(ch) == [Fresh(ch, ch) EXCEPT !.repo = repo[ch]]
            IN  /\ \A ch, d \in active : path(ch) = path(d) => ch = d
                /\ map = [ch \in Channels |-> IF ch \in active THEN path(ch) ELSE None]
                /\ files = [p \in Paths |->
                              IF \E ch \in active : path(ch) = p
                              THEN project(CHOOSE ch \in active : path(ch) = p)
                              ELSE None]
    BY <1>1
  <1> DEFINE path(ch) == IF repo[ch] = None THEN ch ELSE repo[ch]
             project(ch) == [Fresh(ch, ch) EXCEPT !.repo = repo[ch]]
  <1>2. ASSUME NEW ch \in active
        PROVE  /\ path(ch) \in Channels \cup Repos /\ path(ch) \in Paths /\ path(ch) # None
               /\ project(ch).id = ch /\ project(ch).chan = ch /\ project(ch) # None
    <2>1. repo[ch] \in Repos \cup {None} /\ ch \in Channels /\ ch \in Ids
      BY DEF Ids
    <2>2. project(ch) \in Projects
      BY <2>1 DEF Fresh, Projects
    <2>3. project(ch).id = ch /\ project(ch).chan = ch
      BY DEF Fresh
    <2> HIDE DEF project
    <2>4. project(ch) # None
      BY <2>2, ProjectFields
    <2> QED
      BY <2>1, <2>3, <2>4, NamesAssumption DEF Paths, Ids
  <1>3. /\ \A ch, d \in active : path(ch) = path(d) => ch = d
        /\ \A ch \in Channels : map[ch] = IF ch \in active THEN path(ch) ELSE None
        /\ \A p \in Paths : files[p] = IF \E ch \in active : path(ch) = p
                                       THEN project(CHOOSE ch \in active : path(ch) = p)
                                       ELSE None
    BY <1>b
  <1> HIDE DEF path, project
  <1>4. \A ch \in active : files[path(ch)] = project(ch)
    BY <1>2, <1>3
  <1>5. ASSUME NEW q \in Paths, files[q] # None
        PROVE  \E ch \in active : q = path(ch)
    BY <1>3, <1>5
  <1>6. \A q \in Paths : files[q] # None =>
               /\ q \in Channels \cup Repos
               /\ files[q].chan \in Channels /\ files[q].id = files[q].chan
               /\ map[files[q].chan] = q
    <2> SUFFICES ASSUME NEW q \in Paths, files[q] # None
                 PROVE  /\ q \in Channels \cup Repos
                        /\ files[q].chan \in Channels /\ files[q].id = files[q].chan
                        /\ map[files[q].chan] = q
      OBVIOUS
    <2>1. PICK ch \in active : q = path(ch)
      BY <1>5
    <2>2. ch \in Channels /\ files[q] = project(ch)
      BY <1>4, <2>1
    <2> QED
      BY <1>2, <1>3, <2>1, <2>2
  <1>7. \A ch \in Channels : map[ch] # None =>
               /\ map[ch] \in Channels \cup Repos
               /\ files[map[ch]] # None /\ files[map[ch]].chan = ch
    BY <1>2, <1>3, <1>4
  <1> QED
    BY <1>6, <1>7

\* It holds at the start.
LEMMA KeepInit ==
  ASSUME Init
  PROVE  KeepInv
  <1>1. \A d \in Calls : /\ call[d].pc = "new" /\ call[d].path = None /\ call[d].project = None
                         /\ call[d].seen = None
    <2>1. \A d \in Calls : call[d] = NewCall
      BY StoreInit
    <2>2. NewCall.pc = "new" /\ NewCall.path = None /\ NewCall.project = None /\ NewCall.seen = None
      BY DEF NewCall
    <2> QED
      BY <2>1, <2>2
  <1>2. \A x \in Calls : x \notin Channels /\ x \notin Repos /\ x # None /\ x \in Paths
    BY NamesAssumption DEF Ids, Paths
  <1>3. NamesBorn
    <2> SUFFICES ASSUME NEW x \in Calls
                 PROVE  /\ files[x] = None
                        /\ \A q \in Paths : files[q] = None \/ files[q].id # x
                        /\ \A ch \in Channels : map[ch] # x
      BY <1>1, <1>2 DEF NamesBorn
    <2>1. /\ \A q \in Paths : files[q] # None =>
                 q \in Channels \cup Repos /\ files[q].id \in Channels
          /\ \A ch \in Channels : map[ch] # None => map[ch] \in Channels \cup Repos
      BY InitEntries
    <2> QED
      BY <1>2, <2>1
  <1>4. OneRecord
    BY InitEntries DEF OneRecord
  <1>5. LogsKept
    BY <1>1 DEF LogsKept, Kept
  <1> QED
    BY <1>1, <1>3, <1>4, <1>5 DEF KeepInv

\* A step that changes nothing keeps the updates.
LEMMA KeepSame ==
  ASSUME KeepInv, UNCHANGED vars
  PROVE  KeepInv'
  <1>1. files' = files /\ map' = map /\ call' = call
    BY DEF vars
  <1>2. \A d \in Calls : Born(d)' = Born(d) /\ Kept(d)' = Kept(d) /\ Place(d)' = Place(d)
    BY <1>1 DEF Born, Kept, Kind, Place
  <1>d. \A id : Doubled(id) => DoubledThen(id)
    BY <1>1 DEF Doubled, DoubledThen, SelectionCut, Kind
  <1>3. NamesBorn'
    BY <1>1, <1>2 DEF KeepInv, NamesBorn
  <1>4. OneRecord'
    BY <1>1, <1>2, <1>d, RecordNext DEF KeepInv, OneRecord
  <1>5. \A d \in Calls : call'[d].pc # "new" => Derived(d)'
    <2> SUFFICES ASSUME NEW d \in Calls, call'[d].pc # "new"
                 PROVE  Derived(d)'
      OBVIOUS
    <2>1. Derived(d)
      BY <1>1 DEF KeepInv
    <2> QED
      BY <1>1, <1>2, <2>1 DEF Derived, Op, Kind, Moves
  <1>6. LogsKept'
    BY <1>1, <1>2, <1>d, LogsNext DEF KeepInv, LogsKept
  <1> QED
    BY <1>3, <1>4, <1>5, <1>6 DEF KeepInv

\* What a crash finds of a record that is being stored: only a selection leaves two
\* copies of it.
LEMMA CrashFinds ==
  ASSUME StoreInv, OpenInv, Crash, NEW d \in Calls, call[d].pc \in Storing
  PROVE  /\ Moves(d) => SelectionCut(d)'
         /\ call[d].pc = "remove" => Moves(d)
         /\ call'[d].pc = "dead" /\ Kind(d)' = Kind(d) /\ Chan(d)' = Chan(d)
         /\ call[d].project # None /\ call'[d].project = call[d].project
         /\ call'[d].at = call[d].at /\ call'[d].req = call[d].req /\ call[d].req # None
  <1>1. /\ Updates(d) /\ InFlight(d) /\ call[d].pc # "new" /\ call[d].project # None
        /\ Op(d) = "create" => call[d].at = 2 /\ Kind(d) \in {"use", "propose"}
        /\ Op(d) \in {"create", "settle", "update"}
    BY StorerUpdates, StoringUpdates, PlaceLemma, ProjectFields
  <1>2. /\ call'[d].pc = "dead" /\ call'[d].req = call[d].req /\ call'[d].at = call[d].at
        /\ call'[d].project = call[d].project /\ call[d].req # None
    BY <1>1, CrashEffect, StoreFacts DEF CallOK
  <1>3. Kind(d)' = Kind(d) /\ Chan(d)' = Chan(d)
    BY <1>2 DEF Kind, Chan
  <1>4. Moves(d) => SelectionCut(d)'
    BY <1>1, <1>2, <1>3 DEF Moves, SelectionCut
  <1>5. call[d].pc = "remove" => Moves(d)
    <2> SUFFICES ASSUME call[d].pc = "remove" PROVE Moves(d)
      OBVIOUS
    <2>1. Stored(d) /\ Creates(d) /\ call[d].path # None
      BY <1>1, StoreFacts DEF OpenInv, UpdateOK, CallOK
    <2> QED
      BY <1>1, <2>1 DEF Stored, Creates
  <1> QED
    BY <1>1, <1>2, <1>3, <1>4, <1>5

\* A crash loses no update.
LEMMA CrashKeeps ==
  ASSUME StoreInv, OpenInv, KeepInv, Crash
  PROVE  KeepInv'
  <1>1. /\ files' = files /\ map' = map
        /\ \A d \in Calls : /\ call'[d].pc \in {"new"} \cup Ended
                            /\ ~InFlight(d) => call'[d] = call[d]
                            /\ InFlight(d) => call'[d].pc = "dead" /\ call'[d].at = call[d].at
                            /\ call'[d].path = call[d].path /\ call'[d].seen = call[d].seen
                            /\ call'[d].project = call[d].project
    BY CrashEffect
  <1>2. ASSUME NEW x \in Calls, Born(x)
        PROVE  Born(x)'
    BY <1>1, <1>2 DEF Born, Ended
  <1>d. \A id : Doubled(id) => DoubledThen(id)
    BY <1>1 DEF Doubled, DoubledThen, SelectionCut, Kind, InFlight, Ended
  <1>3. NamesBorn'
    BY <1>1, <1>2 DEF KeepInv, NamesBorn
  <1>4. OneRecord'
    <2> SUFFICES ASSUME NEW q \in Paths, NEW r \in Paths, q # r, files[q] # None, files[r] # None,
                        files[q].id = files[r].id
                 PROVE  DoubledThen(files[q].id)
      BY <1>1, RecordNext
    <2>1. ASSUME NEW d \in Calls, call[d].pc = "remove", {q, r} = {call[d].path, Place(d)}
          PROVE  DoubledThen(files[q].id)
      <3>1. SelectionCut(d)' /\ call'[d].project = call[d].project
        BY <2>1, CrashFinds DEF Storing
      <3>2. files[Place(d)] = call[d].project
        <4>1. Stored(d)
          BY <2>1, FlightLemma DEF OpenInv, UpdateOK, Locked, Storing
        <4> QED
          BY <2>1, <4>1 DEF Stored, Place
      <3>3. files[q].id = call[d].project.id
        BY <2>1, <3>2
      <3> QED
        BY <3>1, <3>3 DEF SelectionCut, DoubledThen
    <2> QED
      BY <1>d, <2>1 DEF KeepInv, OneRecord
  <1>5. \A d \in Calls : Derived(d)'
    BY <1>1 DEF Derived, Storing, Ended
  <1>6. LogsKept'
    <2>1. \A c \in Calls : Kept(c)' => Kept(c) /\ call'[c] = call[c]
      BY <1>1 DEF Kept, Kind
    <2>2. \A d \in Calls : call'[d].pc \notin Storing
      BY <1>1 DEF Storing, Ended
    <2> QED
      BY <1>1, <1>d, <2>1, <2>2, LogsNext DEF KeepInv, LogsKept
  <1> QED
    BY <1>3, <1>4, <1>5, <1>6 DEF KeepInv

\* Every step keeps the updates.
LEMMA KeepStep ==
  ASSUME StoreInv, OpenInv, SeenInv, KeepInv, [Next]_vars
  PROVE  KeepInv'
  BY StepKinds, CrashKeeps, KeepSame, QuietKeeps, MakesKeeps, WriteFileKeeps, RemoveFileKeeps,
     WriteRecordKeeps DEF Harmless

-----------------------------------------------------------------------------
(* The invariant of the channels.                                          *)

\* What was archived stays so, and a selection goes on displacing what it displaces.
LEMMA LateStays ==
  ASSUME NEW c \in Calls, OnlyCall(c), StaysLate(c), call[c].pc \notin {"ok", "dead"}
  PROVE  /\ \A ch \in Channels : Upset(ch) => Upset(ch)'
         /\ \A ch \in Channels : Archived(ch) => Archived(ch)'
         /\ \A x \in Calls : Kept(x) => x # c /\ (Displaced(x) => Displaced(x)')
  <1>1. \A d \in Calls : /\ call[d].req # None => call'[d].req # None /\ Kind(d)' = Kind(d)
                                                 /\ Chan(d)' = Chan(d)
                         /\ call[d].req # None /\ Moves(d) =>
                               /\ call'[d].at = 5 /\ Repo(d)' = Repo(d) /\ call'[d].seen = call[d].seen
                               /\ SelectionCut(d) => SelectionCut(d)'
    <2> SUFFICES ASSUME NEW d \in Calls, call[d].req # None
                 PROVE  /\ call'[d].req # None /\ Kind(d)' = Kind(d) /\ Chan(d)' = Chan(d)
                        /\ Moves(d) => /\ call'[d].at = 5 /\ Repo(d)' = Repo(d)
                                       /\ call'[d].seen = call[d].seen
      BY DoubledStays
    <2>1. CASE d = c
      BY <2>1 DEF StaysLate
    <2>2. CASE d # c
      BY <2>2, SameCall DEF Moves
    <2> QED
      BY <2>1, <2>2
  <1>2. \A ch \in Channels : Upset(ch) => Upset(ch)'
    BY <1>1 DEF Upset, Moves
  <1>3. \A d \in Calls : call[d].pc \in {"ok", "dead"} =>
                            call'[d] = call[d] /\ Kind(d)' = Kind(d) /\ Chan(d)' = Chan(d)
    BY SameCall
  <1>4. \A ch \in Channels : Archived(ch) => Archived(ch)'
    BY <1>3 DEF Archived
  <1>5. ASSUME NEW x \in Calls, Kept(x)
        PROVE  x # c /\ (Displaced(x) => Displaced(x)')
    <2>1. x # c /\ call'[x] = call[x] /\ Chan(x)' = Chan(x)
      BY <1>3, <1>5 DEF Kept
    <2>2. Upset(Chan(x)) => Upset(Chan(x))'
      BY <1>1, <2>1 DEF Upset, Moves
    <2>3. ASSUME NEW d \in Calls, call[d].req # None, Kind(d) = "use", call[d].at = 5, Resumes(d),
                 call[d].seen.id # call[x].project.id
          PROVE  Displaced(x)'
      <3>1. /\ call'[d].req # None /\ Kind(d)' = "use" /\ call'[d].at = 5 /\ Repo(d)' = Repo(d)
            /\ call'[d].seen = call[d].seen
        BY <1>1, <2>3 DEF Moves
      <3>2. Resumes(d)'
        BY <2>3, <3>1 DEF Resumes
      <3> QED
        BY <2>1, <2>3, <3>1, <3>2 DEF Displaced
    <2> QED
      BY <2>1, <2>2, <2>3 DEF Displaced
  <1> QED
    BY <1>2, <1>4, <1>5

\* A call that only moves on keeps its request.
LEMMA MovesLate ==
  ASSUME NEW c \in Calls, NEW pc, NEW path, NEW project, MovesTo(c, pc, path, project)
  PROVE  StaysLate(c) /\ Kind(c)' = Kind(c) /\ Chan(c)' = Chan(c) /\ Repo(c)' = Repo(c)
  BY DEF MovesTo, StaysLate, Moves, Kind, Chan, Repo

\* An update that was answered before the step, if it was not displaced since, and its
\* channel is one that no other selects.
LEMMA KeptBefore ==
  ASSUME StoreInv, NEW c \in Calls, OnlyCall(c), StaysLate(c), call[c].pc \notin {"ok", "dead"},
         NEW x \in Calls, x # c, Kept(x)', ~Displaced(x)', ~Archived(Chan(x))'
  PROVE  /\ Kept(x) /\ ~Displaced(x) /\ ~Archived(Chan(x)) /\ ~Upset(Chan(x))
         /\ call'[x] = call[x] /\ Chan(x)' = Chan(x) /\ Chan(x) \in Channels
  <1>1. Kept(x) /\ call'[x] = call[x] /\ Chan(x)' = Chan(x)
    BY SameCall
  <1>2. Chan(x) \in Channels
    BY <1>1, StoreFacts DEF Kept
  <1>3. ~Archived(Chan(x))
    <2>1. Archived(Chan(x)) =>
             \E d \in Calls : /\ d # c /\ call[d].pc \in {"ok", "dead"} /\ Kind(d) = "archive"
                              /\ call[d].project # None /\ call[d].project.chan = Chan(x)
      BY DEF Archived
    <2>2. \A d \in Calls : d # c => call'[d] = call[d] /\ Kind(d)' = Kind(d)
      BY SameCall
    <2> QED
      BY <1>1, <2>1, <2>2 DEF Archived
  <1>4. ~Displaced(x)
    BY <1>1, LateStays
  <1> QED
    BY <1>1, <1>2, <1>3, <1>4 DEF Displaced

\* What is archived, and on its way out of the map, after a step.
ArchivedThen(ch) ==
    \E c \in Calls : /\ call'[c].pc \in {"ok", "dead"} /\ Kind(c)' = "archive"
                     /\ call'[c].project # None /\ call'[c].project.chan = ch
ArchivingThen(p) ==
    \E d \in Calls : /\ call'[d].pc \in {"remove", "map"} /\ Kind(d)' = "archive"
                     /\ call'[d].project = p

\* How ArchivedKnown is shown of the next state.
LEMMA ArchivedNext ==
  ASSUME \A q \in Paths : files'[q] # None /\ files'[q].status = "archived" =>
            ArchivedThen(files'[q].chan) \/ ArchivingThen(files'[q]),
         \A d \in Calls : call'[d].pc \in Storing /\ call'[d].project.status = "archived" =>
            ArchivedThen(call'[d].project.chan) \/ Kind(d)' = "archive"
  PROVE  ArchivedKnown'
  BY DEF ArchivedKnown, Archived, Archiving, ArchivedThen, ArchivingThen

\* An entry that leads to a record stays.
LEMMA LiveStays ==
  ASSUME NEW c \in Calls, MapShrinks(c), NEW ch \in Channels, GoneIsGone(ch),
         map[ch] # None, files[map[ch]] # None
  PROVE  map'[ch] = map[ch]
  BY DEF MapShrinks, Drops, GoneIsGone

\* A step that stores nothing takes no channel from its record.
LEMMA HarmlessLeads ==
  ASSUME StoreInv, OpenInv, LeadInv, NEW c \in Calls, Harmless(c)
  PROVE  LeadInv'
  <1>1. /\ OnlyCall(c) /\ files' = files /\ MapShrinks(c) /\ Reading(c) /\ StaysLate(c)
        /\ \A ch \in Channels : map'[ch] \in {map[ch], None}
        /\ call[c].pc \notin Storing /\ call'[c].pc \notin Storing
        /\ call[c].pc \notin {"ok", "dead"}
        /\ call'[c].pc = "ok" => Kind(c)' \in Reads
    BY DEF Harmless, Quiet, Kind, Ended
  <1>2. \A d \in Calls : call[d].pc \in Storing \/ call'[d].pc \in Storing => d # c
    BY <1>1
  <1>3. \A d \in Calls : d # c => /\ call'[d] = call[d] /\ Kind(d)' = Kind(d) /\ Chan(d)' = Chan(d)
                                  /\ Updates(d)' = Updates(d) /\ Place(d)' = Place(d)
                                  /\ Op(d)' = Op(d)
    BY <1>1, SameCall
  <1>4. /\ \A ch \in Channels : Upset(ch) => Upset(ch)'
        /\ \A ch \in Channels : Archived(ch) => Archived(ch)' /\ ArchivedThen(ch)
    BY <1>1, LateStays DEF Archived, ArchivedThen
  <1>5. \A q \in Paths : files[q] # None => files[q].chan \in Channels
    BY ProjectFields DEF StoreInv, StoreTypes
  <1>6. ArchivedKnown'
    <2>1. ASSUME NEW q \in Paths, files'[q] # None, files'[q].status = "archived",
                 ~ArchivedThen(files'[q].chan)
          PROVE  ArchivingThen(files'[q])
      <3>1. Archiving(files[q])
        BY <1>1, <1>4, <1>5, <2>1 DEF LeadInv, ArchivedKnown
      <3>2. PICK d \in Calls : call[d].pc \in {"remove", "map"} /\ Kind(d) = "archive"
                               /\ call[d].project = files[q]
        BY <3>1 DEF Archiving
      <3>3. d # c
        BY <1>2, <3>2 DEF Storing
      <3> QED
        BY <1>1, <1>3, <3>2, <3>3 DEF ArchivingThen
    <2>2. ASSUME NEW d \in Calls, call'[d].pc \in Storing, call'[d].project.status = "archived"
          PROVE  ArchivedThen(call'[d].project.chan) \/ Kind(d)' = "archive"
      <3>1. d # c /\ call'[d] = call[d] /\ Kind(d)' = Kind(d)
        BY <1>2, <1>3, <2>2
      <3>2. call[d].project.chan \in Channels
        BY <2>2, <3>1, PlaceLemma, ProjectFields
      <3> QED
        BY <1>4, <2>2, <3>1, <3>2 DEF LeadInv, ArchivedKnown
    <2> QED
      BY <2>1, <2>2, ArchivedNext
  <1>7. EntryOrNone'
    <2> SUFFICES ASSUME NEW d \in Calls, Updates(d)', call'[d].pc \in {"file", "drop"}
                 PROVE  map'[Chan(d)'] \in {call'[d].path, None}
      BY DEF EntryOrNone
    <2>1. CASE d # c
      <3>1. Updates(d) /\ call[d].pc \in {"file", "drop"} /\ call'[d].path = call[d].path
            /\ Chan(d)' = Chan(d)
        BY <1>3, <2>1
      <3>2. Chan(d) \in Channels
        BY <3>1, StoreFacts DEF Locked
      <3> QED
        BY <1>1, <3>1, <3>2 DEF LeadInv, EntryOrNone
    <2>2. CASE d = c
      <3>1. /\ map' = map /\ Chan(c)' = Chan(c) /\ Kind(c)' = Kind(c)
            /\ call'[c].path = map[Chan(c)] \/ (call[c].pc = "file" /\ call'[c].path = call[c].path)
        BY <1>1, <2>2 DEF Reading, StaysLate
      <3>2. call[c].pc = "file" => Updates(c)
        BY <2>2, <3>1 DEF Updates, InFlight, Ended
      <3> QED
        BY <2>2, <3>1, <3>2 DEF LeadInv, EntryOrNone
    <2> QED
      BY <2>1, <2>2
  <1>8. ASSUME NEW ch \in Channels, ~Upset(ch)'
        PROVE  NamesChannel(ch)' /\ GoneIsGone(ch)' /\ OnlyNamed(ch)'
    <2>1. NamesChannel(ch) /\ GoneIsGone(ch) /\ OnlyNamed(ch)
      BY <1>4, <1>8 DEF LeadInv
    <2>2. NamesChannel(ch)'
      <3>1. map'[ch] # None => map'[ch] = map[ch]
        BY <1>1
      <3>2. \A d \in Calls : call'[d].pc \in Storing => d # c
        BY <1>2
      <3> QED
        BY <1>1, <1>3, <2>1, <3>1, <3>2 DEF NamesChannel
    <2>3. GoneIsGone(ch)'
      <3> SUFFICES ASSUME NEW d \in Calls
                   PROVE  /\ call'[d].pc = "look" /\ ch \in call'[d].gone /\ map'[ch] # None
                             => files[map'[ch]] = None
                          /\ call'[d].pc = "drop" /\ Chan(d)' = ch => files[call'[d].path] = None
        BY <1>1 DEF GoneIsGone
      <3>1. map'[ch] # None => map'[ch] = map[ch]
        BY <1>1
      <3>2. CASE d # c
        BY <1>3, <2>1, <3>1, <3>2 DEF GoneIsGone
      <3>3. CASE d = c
        BY <1>1, <2>1, <3>1, <3>3 DEF GoneIsGone, Reading
      <3> QED
        BY <3>2, <3>3
    <2>4. OnlyNamed(ch)'
      <3> SUFFICES ASSUME ~Archived(ch)', NEW q \in Paths, Reached(q)',
                          files[q] # None, files[q].chan = ch
                   PROVE  /\ \/ map'[ch] = q
                             \/ \E d \in Calls : /\ call'[d].pc \in {"remove", "map"}
                                                 /\ Chan(d)' = ch /\ q = Place(d)'
                          /\ \A d \in Calls : call'[d].pc \in Storing /\ Chan(d)' = ch =>
                                q \in {call'[d].path, Place(d)'}
        BY <1>1 DEF OnlyNamed
      <3>1. ~Archived(ch) /\ Reached(q)
        <4>1. q # None
          BY NamesAssumption DEF Paths
        <4> QED
          BY <1>1, <1>4, <4>1 DEF Reached
      <3>2. \A d \in Calls : call'[d].pc \in Storing /\ Chan(d)' = ch =>
                                q \in {call'[d].path, Place(d)'}
        BY <1>2, <1>3, <2>1, <3>1 DEF OnlyNamed
      <3>3. CASE map[ch] = q
        <4>1. q # None
          BY NamesAssumption DEF Paths
        <4> QED
          BY <1>1, <2>1, <3>2, <3>3, <4>1, LiveStays
      <3>4. ASSUME NEW d \in Calls, call[d].pc \in {"remove", "map"}, Chan(d) = ch, q = Place(d)
            PROVE  call'[d].pc \in {"remove", "map"} /\ Chan(d)' = ch /\ q = Place(d)'
        BY <1>2, <1>3, <3>4 DEF Storing
      <3> QED
        BY <2>1, <3>1, <3>2, <3>3, <3>4 DEF OnlyNamed
    <2> QED
      BY <2>2, <2>3, <2>4
  <1>9. ASSUME NEW x \in Calls
        PROVE  ChannelLeads(x)'
    <2> SUFFICES ASSUME Kept(x)', ~Displaced(x)', ~Archived(Chan(x))'
                 PROVE  /\ Leads(x)' \/ Enters(x)'
                        /\ \A d \in Calls : call'[d].pc \in Storing /\ Chan(d)' = Chan(x)' =>
                              call'[d].project.id = call'[x].project.id /\ Op(d)' # "create"
      BY DEF ChannelLeads
    <2>1. x # c
      BY <1>1 DEF Kept
    <2>2. /\ Kept(x) /\ ~Displaced(x) /\ ~Archived(Chan(x)) /\ ~Upset(Chan(x))
          /\ call'[x] = call[x] /\ Chan(x)' = Chan(x) /\ Chan(x) \in Channels
      BY <1>1, <2>1, KeptBefore
    <2>3. /\ Leads(x) \/ Enters(x)
          /\ \A d \in Calls : call[d].pc \in Storing /\ Chan(d) = Chan(x) =>
                              call[d].project.id = call[x].project.id /\ Op(d) # "create"
      BY <2>2 DEF LeadInv, ChannelLeads
    <2>4. Leads(x) => Leads(x)'
      <3>1. GoneIsGone(Chan(x))
        BY <2>2 DEF LeadInv
      <3>2. Leads(x) => map'[Chan(x)] = map[Chan(x)]
        BY <1>1, <2>2, <3>1, LiveStays DEF Leads
      <3> QED
        BY <1>1, <2>2, <3>2 DEF Leads
    <2>5. Enters(x) => Enters(x)'
      <3>1. \A d \in Calls : call[d].pc = "map" => d # c
        BY <1>2 DEF Storing
      <3> QED
        BY <1>3, <2>2, <3>1 DEF Enters
    <2> QED
      BY <1>2, <1>3, <2>2, <2>3, <2>4, <2>5
  <1> QED
    BY <1>6, <1>7, <1>8, <1>9 DEF LeadInv

\* Where a request finds no project, its channel leads to none that lasts.
LEMMA NothingFound ==
  ASSUME LeadInv, NEW c \in Calls, Makes(c), Op(c) = "create", Updates(c),
         Chan(c) \in Channels, ~Upset(Chan(c)),
         map[Chan(c)] # None, files[map[Chan(c)]] # None
  PROVE  files[map[Chan(c)]].status = "archived"
  <1>1. CASE call[c].pc = "drop"
    <2>1. files[call[c].path] = None /\ map[Chan(c)] \in {call[c].path, None}
      BY <1>1 DEF LeadInv, EntryOrNone, GoneIsGone
    <2> QED
      BY <2>1
  <1>2. CASE call[c].pc = "file" /\ ~Conflicts(c, files[call[c].path])
    <2>1. map[Chan(c)] \in {call[c].path, None}
      BY <1>2 DEF LeadInv, EntryOrNone
    <2> QED
      BY <1>2, <2>1 DEF Conflicts
  <1> QED
    BY <1>1, <1>2 DEF Makes

\* The record that is made is the one its channel leads to, or the first of the channel.
LEMMA MakesLeads ==
  ASSUME StoreInv, OpenInv, SeenInv, KeepInv, LeadInv, NEW c \in Calls, Makes(c)
  PROVE  LeadInv'
  <1> DEFINE p == call'[c].project
             found == files[call[c].path]
             base == IF TakesOver(c) THEN call[c].seen ELSE found
  <1>1. /\ OnlyCall(c) /\ call'[c].pc = "write" /\ p \in Projects
        /\ call'[c].req = call[c].req /\ call'[c].at = call[c].at /\ call'[c].seen = call[c].seen
        /\ Updates(c) /\ call[c].pc \in Locked /\ call[c].pc # "new"
        /\ Kind(c)' = Kind(c) /\ Chan(c)' = Chan(c) /\ Op(c)' = Op(c)
        /\ Op(c) = "create" => p = Created(c)
        /\ Op(c) # "create" =>
             /\ call[c].pc = "file" /\ call[c].path \in Paths /\ found # None
             /\ call'[c].path = call[c].path /\ found \in Projects
             /\ p.chan = found.chan /\ p.id = base.id
             /\ p.status = "archived" => found.status = "archived" \/ Kind(c) = "archive"
             /\ TakesOver(c) => Moves(c)
    BY MadeRecord
  <1>2. /\ files' = files /\ MapShrinks(c) /\ call[c].pc \in {"record", "file", "drop"}
        /\ \A ch \in Channels : map'[ch] \in {map[ch], None}
    BY DEF Makes, MapShrinks
  <1>3. /\ \A d \in Calls : call[d].pc \notin Storing
        /\ \A d \in Calls : call'[d].pc \in Storing => d = c
    <2>1. \A d \in Calls : call[d].pc \in Storing => d = c
      BY <1>1, OneStorer
    <2>2. call[c].pc \notin Storing
      BY <1>2 DEF Storing
    <2> QED
      BY <1>1, <2>1, <2>2 DEF OnlyCall
  <1>4. StaysLate(c) /\ call[c].pc \notin {"ok", "dead"}
    <2>1. Repo(c)' = Repo(c)
      BY <1>1 DEF Repo
    <2> QED
      BY <1>1, <1>2, <2>1 DEF StaysLate, Moves
  <1>5. \A d \in Calls : d # c => /\ call'[d] = call[d] /\ Kind(d)' = Kind(d) /\ Chan(d)' = Chan(d)
                                  /\ Updates(d)' = Updates(d) /\ Place(d)' = Place(d)
    BY <1>1, SameCall
  <1>6. /\ \A ch \in Channels : Upset(ch) => Upset(ch)'
        /\ \A ch \in Channels : Archived(ch) => Archived(ch)' /\ ArchivedThen(ch)
    BY <1>1, <1>4, LateStays DEF Archived, ArchivedThen
  <1>7. \A q \in Paths : files[q] # None => files[q].chan \in Channels
    BY ProjectFields DEF StoreInv, StoreTypes
  <1>8. \A q \in Paths : files[q] # None /\ files[q].status = "archived" => Archived(files[q].chan)
    BY <1>3 DEF LeadInv, ArchivedKnown, Archiving, Storing
  <1>9. Chan(c) \in Channels /\ (Op(c) = "create" => p.chan = Chan(c) /\ p.status = "idle")
    BY <1>1, StoreFacts, CreatedLemma
  <1>10. Op(c) # "create" => map[Chan(c)] = call[c].path
    BY <1>1, NamesAssumption DEF OpenInv, UpdateOK, EntryStays, Paths
  <1>11. \A d \in Calls : call[d].pc \notin {"remove", "map"}
    BY <1>3 DEF Storing
  <1> HIDE DEF p, found, base
  <1>12. ArchivedKnown'
    <2>1. ASSUME NEW q \in Paths, files'[q] # None, files'[q].status = "archived"
          PROVE  ArchivedThen(files'[q].chan)
      BY <1>2, <1>6, <1>7, <1>8, <2>1
    <2>2. ASSUME NEW d \in Calls, call'[d].pc \in Storing, call'[d].project.status = "archived"
          PROVE  ArchivedThen(call'[d].project.chan) \/ Kind(d)' = "archive"
      <3>1. d = c /\ call'[d].project = p
        BY <1>3, <2>2 DEF p
      <3>2. Op(c) # "create"
        BY <1>9, <2>2, <3>1
      <3> QED
        BY <1>1, <1>6, <1>7, <1>8, <2>2, <3>1, <3>2 DEF found
    <2> QED
      BY <2>1, <2>2, ArchivedNext
  <1>13. EntryOrNone'
    <2> SUFFICES ASSUME NEW d \in Calls, Updates(d)', call'[d].pc \in {"file", "drop"}
                 PROVE  map'[Chan(d)'] \in {call'[d].path, None}
      BY DEF EntryOrNone
    <2>1. d # c
      BY <1>1
    <2>2. Updates(d) /\ call[d].pc \in {"file", "drop"} /\ call'[d].path = call[d].path
          /\ Chan(d)' = Chan(d)
      BY <1>5, <2>1
    <2>3. Chan(d) \in Channels
      BY <2>2, StoreFacts DEF Locked
    <2> QED
      BY <1>2, <2>2, <2>3 DEF LeadInv, EntryOrNone
  <1>14. ASSUME NEW ch \in Channels, ~Upset(ch)'
        PROVE  NamesChannel(ch)' /\ GoneIsGone(ch)' /\ OnlyNamed(ch)'
    <2>1. NamesChannel(ch) /\ GoneIsGone(ch) /\ OnlyNamed(ch) /\ ~Upset(ch)
      BY <1>6, <1>14 DEF LeadInv
    <2>2. NamesChannel(ch)'
      <3>1. map'[ch] # None => map'[ch] = map[ch]
        BY <1>2
      <3>2. ASSUME NEW d \in Calls, call'[d].pc \in Storing, Chan(d)' = ch
            PROVE  call'[d].project.chan = ch
        <4>1. d = c /\ Chan(c) = ch /\ call'[d].project = p
          BY <1>1, <1>3, <3>2 DEF p
        <4>2. CASE Op(c) = "create"
          BY <1>9, <4>1, <4>2
        <4>3. CASE Op(c) # "create"
          <5>1. map[ch] = call[c].path /\ files[map[ch]] # None /\ map[ch] # None
            BY <1>1, <1>10, <4>1, <4>3, NamesAssumption DEF found, Paths
          <5> QED
            BY <1>1, <2>1, <4>1, <4>3, <5>1 DEF NamesChannel, found
        <4> QED
          BY <4>2, <4>3
      <3> QED
        BY <1>2, <2>1, <3>1, <3>2 DEF NamesChannel
    <2>3. GoneIsGone(ch)'
      <3> SUFFICES ASSUME NEW d \in Calls
                   PROVE  /\ call'[d].pc = "look" /\ ch \in call'[d].gone /\ map'[ch] # None
                             => files[map'[ch]] = None
                          /\ call'[d].pc = "drop" /\ Chan(d)' = ch => files[call'[d].path] = None
        BY <1>2 DEF GoneIsGone
      <3>1. map'[ch] # None => map'[ch] = map[ch]
        BY <1>2
      <3>2. CASE d # c
        BY <1>5, <2>1, <3>1, <3>2 DEF GoneIsGone
      <3>3. CASE d = c
        BY <1>1, <3>3
      <3> QED
        BY <3>2, <3>3
    <2>4. OnlyNamed(ch)'
      <3> SUFFICES ASSUME ~Archived(ch)', NEW q \in Paths, Reached(q)',
                          files[q] # None, files[q].chan = ch
                   PROVE  /\ map'[ch] = q
                          /\ \A d \in Calls : call'[d].pc \in Storing /\ Chan(d)' = ch =>
                                q \in {call'[d].path, Place(d)'}
        BY <1>2 DEF OnlyNamed
      <3>1. ~Archived(ch) /\ q # None /\ Reached(q)
        <4>1. q # None
          BY NamesAssumption DEF Paths
        <4> QED
          BY <1>2, <1>6, <4>1 DEF Reached
      <3>2. map[ch] = q
        BY <1>11, <2>1, <3>1 DEF OnlyNamed
      <3>3. map'[ch] = q
        BY <1>2, <2>1, <3>1, <3>2, LiveStays
      <3>4. ASSUME Chan(c) = ch
            PROVE  q = call'[c].path
        <4>1. CASE Op(c) = "create"
          BY <1>1, <1>8, <2>1, <3>1, <3>2, <3>4, <4>1, NothingFound
        <4>2. CASE Op(c) # "create"
          BY <1>1, <1>10, <3>2, <3>4, <4>2
        <4> QED
          BY <4>1, <4>2
      <3> QED
        BY <1>1, <1>3, <3>3, <3>4
    <2> QED
      BY <2>2, <2>3, <2>4
  <1>15. ASSUME NEW x \in Calls
        PROVE  ChannelLeads(x)'
    <2> SUFFICES ASSUME Kept(x)', ~Displaced(x)', ~Archived(Chan(x))'
                 PROVE  /\ Leads(x)'
                        /\ \A d \in Calls : call'[d].pc \in Storing /\ Chan(d)' = Chan(x)' =>
                              call'[d].project.id = call'[x].project.id /\ Op(d)' # "create"
      BY DEF ChannelLeads
    <2>1. x # c
      BY <1>1 DEF Kept
    <2>2. /\ Kept(x) /\ ~Displaced(x) /\ ~Archived(Chan(x)) /\ ~Upset(Chan(x))
          /\ call'[x] = call[x] /\ Chan(x)' = Chan(x) /\ Chan(x) \in Channels
      BY <1>1, <1>4, <2>1, KeptBefore
    <2>3. Leads(x)
      BY <1>11, <2>2 DEF LeadInv, ChannelLeads, Enters
    <2>4. Leads(x)'
      <3>1. GoneIsGone(Chan(x))
        BY <2>2 DEF LeadInv
      <3>2. map'[Chan(x)] = map[Chan(x)]
        BY <1>2, <2>2, <2>3, <3>1, LiveStays DEF Leads
      <3> QED
        BY <1>2, <2>2, <2>3, <3>2 DEF Leads
    <2>5. ASSUME Chan(c) = Chan(x)
          PROVE  p.id = call[x].project.id /\ Op(c) # "create"
      <3>1. Op(c) # "create"
        BY <1>1, <2>2, <2>3, <2>5, NothingFound DEF Leads
      <3>2. found.id = call[x].project.id
        BY <1>10, <2>3, <2>5, <3>1 DEF Leads, found
      <3>3. TakesOver(c) => call[c].seen.id = call[x].project.id
        <4>1. call[c].req # None
          BY <1>1, StoreFacts DEF CallOK
        <4> QED
          BY <1>1, <2>2, <3>1, <4>1 DEF Displaced, TakesOver, Moves
      <3> QED
        BY <1>1, <3>1, <3>2, <3>3 DEF base
    <2> QED
      BY <1>1, <1>3, <2>2, <2>4, <2>5 DEF p
  <1> QED
    BY <1>12, <1>13, <1>14, <1>15 DEF LeadInv

\* What a write of a record finds, and where it writes.
LEMMA WrittenFile ==
  ASSUME StoreInv, OpenInv, KeepInv, NEW c \in Calls, call[c].pc = "write"
  PROVE  LET p == call[c].project
             P == Place(c)
         IN  /\ Op(c) = "create" =>
                  /\ call[c].path = None /\ P = c /\ p.chan = Chan(c)
                  /\ files[P] = None /\ \A ch \in Channels : map[ch] # P
                  /\ \A d \in Calls : call[d].path # P
             /\ Op(c) # "create" =>
                  /\ call[c].path \in Paths /\ files[call[c].path] # None
                  /\ map[Chan(c)] = call[c].path
                  /\ \A d \in Calls : call[d].pc = "look" => Chan(c) \notin call[d].gone
             /\ Op(c) # "create" /\ ~Moves(c) =>
                  P = call[c].path /\ p.id = files[P].id /\ p.chan = files[P].chan
             /\ Op(c) = "create" \/ Kind(c) = "archive" => ~Moves(c)
             /\ Moves(c) => \A ch \in Channels : ch # Chan(c) => Upset(ch)
  <1>1. /\ call[c].project \in Projects /\ call[c].path \in Paths \cup {None}
        /\ call[c].project.repo = None /\ call[c].path = None => Place(c) = call[c].project.id
        /\ Updates(c) /\ call[c].pc # "new" /\ InFlight(c) /\ call[c].pc \in Storing
        /\ Op(c) \in {"create", "settle", "update"}
        /\ Op(c) = "create" => call[c].at = 2 /\ Kind(c) \in {"use", "propose"}
    BY PlaceLemma, StorerUpdates, StoringUpdates DEF Storing
  <1>2. /\ EntryStays(c) /\ Stored(c) /\ Creates(c)
        /\ Derived(c)
    BY <1>1 DEF OpenInv, UpdateOK, KeepInv
  <1>3. ASSUME Op(c) = "create"
        PROVE  /\ call[c].path = None /\ Place(c) = c /\ call[c].project.chan = Chan(c)
               /\ files[c] = None /\ \A ch \in Channels : map[ch] # c
               /\ \A d \in Calls : call[d].path # c
    <2>1. call[c].path = None /\ call[c].project.id = c /\ call[c].project.chan = Chan(c)
          /\ call[c].project.repo = None
      BY <1>1, <1>2, <1>3 DEF Creates
    <2>2. ~Born(c)
      BY <1>1, <1>3 DEF Born, Ended
    <2> QED
      BY <1>1, <2>1, <2>2 DEF KeepInv, NamesBorn
  <1>4. Op(c) # "create" =>
           /\ call[c].path \in Paths /\ files[call[c].path] # None
           /\ map[Chan(c)] = call[c].path
           /\ \A d \in Calls : call[d].pc = "look" => Chan(c) \notin call[d].gone
    BY <1>1, <1>2 DEF Derived, EntryStays
  <1>5. Op(c) # "create" /\ ~Moves(c) =>
           /\ Place(c) = call[c].path
           /\ call[c].project.id = files[call[c].path].id
           /\ call[c].project.chan = files[call[c].path].chan
    BY <1>1, <1>2 DEF Derived, Stored, Place
  <1>6. Op(c) = "create" \/ Kind(c) = "archive" => ~Moves(c)
    BY <1>1 DEF Moves
  <1>7. Moves(c) => \A ch \in Channels : ch # Chan(c) => Upset(ch)
    <2>1. call[c].req # None
      BY <1>1, StoreFacts DEF CallOK
    <2> QED
      BY <2>1 DEF Moves, Upset
  <1> QED
    BY <1>3, <1>4, <1>5, <1>6, <1>7

\* The record is written over the one that its channel leads to, or is about to be
\* entered there.
LEMMA WriteFileLeads ==
  ASSUME StoreInv, OpenInv, KeepInv, LeadInv, NEW c \in Calls, WriteFile(c)
  PROVE  LeadInv'
  <1> DEFINE p == call[c].project
             P == Place(c)
  <1>1. /\ call[c].pc = "write" /\ call[c].pc \in Storing
        /\ files'[P] = p
        /\ \A q \in Paths : q # P => files'[q] = files[q]
        /\ MovesTo(c, IF call[c].path \in {None, P} THEN "map" ELSE "remove", call[c].path, p)
        /\ map' = map
    BY WriteFileEffect
  <1>2. /\ Updates(c) /\ call[c].pc \in Locked /\ call[c].pc # "new"
    BY <1>1, StorerUpdates
  <1>3. /\ p \in Projects /\ P \in Paths /\ P # None /\ p # None /\ Chan(c) \in Channels
        /\ p.chan \in Channels
    BY <1>1, PlaceLemma, ProjectFields
  <1>4. \A d \in Calls : call[d].pc \in Storing => d = c
    BY <1>2, OneStorer
  <1>5. /\ OnlyCall(c) /\ Place(c)' = P /\ call'[c].path = call[c].path
        /\ call'[c].project = p /\ call'[c].pc \in {"map", "remove"}
        /\ call'[c].pc = "map" <=> call[c].path \in {None, P}
        /\ StaysLate(c) /\ Kind(c)' = Kind(c) /\ Chan(c)' = Chan(c) /\ Op(c)' = Op(c)
    <2>1. StaysLate(c) /\ Kind(c)' = Kind(c) /\ Chan(c)' = Chan(c)
      BY <1>1, MovesLate
    <2> QED
      BY <1>1, <2>1 DEF MovesTo, Place, Op
  <1>6. /\ Op(c) = "create" =>
             /\ p.chan = Chan(c) /\ files[P] = None /\ \A ch \in Channels : map[ch] # P
             /\ \A d \in Calls : call[d].path # P
        /\ Op(c) # "create" =>
             /\ files[call[c].path] # None /\ map[Chan(c)] = call[c].path
             /\ \A d \in Calls : call[d].pc = "look" => Chan(c) \notin call[d].gone
        /\ Op(c) # "create" /\ ~Moves(c) =>
             P = call[c].path /\ p.id = files[P].id /\ p.chan = files[P].chan
        /\ Op(c) = "create" \/ Kind(c) = "archive" => ~Moves(c)
        /\ Moves(c) => \A ch \in Channels : ch # Chan(c) => Upset(ch)
    BY <1>1, WrittenFile
  <1>7. \A d \in Calls : d # c => /\ call'[d] = call[d] /\ Kind(d)' = Kind(d) /\ Chan(d)' = Chan(d)
                                  /\ Updates(d)' = Updates(d) /\ Place(d)' = Place(d)
    BY <1>5, SameCall
  <1>8. /\ \A ch \in Channels : Upset(ch) => Upset(ch)'
        /\ \A ch \in Channels : Archived(ch) => Archived(ch)' /\ ArchivedThen(ch)
    BY <1>1, <1>5, LateStays DEF Archived, ArchivedThen
  <1>9. /\ \A d \in Calls : call[d].pc \notin {"remove", "map"}
        /\ \A d \in Calls : call'[d].pc \in Storing => d = c
    <2>1. call[c].pc \notin {"remove", "map"}
      BY <1>1
    <2> QED
      BY <1>4, <1>7, <2>1 DEF Storing
  <1>10. \A q \in Paths : files[q] # None => files[q].chan \in Channels
    BY ProjectFields DEF StoreInv, StoreTypes
  <1>11. p.status = "archived" => Archived(p.chan) \/ (Kind(c) = "archive" /\ call'[c].pc = "map")
    <2>1. p.status = "archived" => Archived(p.chan) \/ Kind(c) = "archive"
      BY <1>1 DEF LeadInv, ArchivedKnown
    <2>2. Kind(c) = "archive" => Op(c) # "create"
      BY <1>1, <1>2, StoringUpdates
    <2> QED
      BY <1>5, <1>6, <2>1, <2>2
  <1> HIDE DEF P, p
  <1>12. ArchivedKnown'
    <2>1. ASSUME NEW q \in Paths, files'[q] # None, files'[q].status = "archived"
          PROVE  ArchivedThen(files'[q].chan) \/ ArchivingThen(files'[q])
      <3>1. CASE q = P
        <4>1. Archived(p.chan) => ArchivedThen(p.chan)
          BY <1>3, <1>8
        <4>2. Kind(c) = "archive" /\ call'[c].pc = "map" => ArchivingThen(p)
          BY <1>5 DEF ArchivingThen
        <4> QED
          BY <1>1, <1>11, <2>1, <3>1, <4>1, <4>2
      <3>2. CASE q # P
        <4>1. ~Archiving(files[q])
          BY <1>9 DEF Archiving
        <4> QED
          BY <1>1, <1>8, <1>10, <2>1, <3>2, <4>1 DEF LeadInv, ArchivedKnown
      <3> QED
        BY <3>1, <3>2
    <2>2. ASSUME NEW d \in Calls, call'[d].pc \in Storing, call'[d].project.status = "archived"
          PROVE  ArchivedThen(call'[d].project.chan) \/ Kind(d)' = "archive"
      BY <1>3, <1>5, <1>8, <1>9, <1>11, <2>2
    <2> QED
      BY <2>1, <2>2, ArchivedNext
  <1>13. EntryOrNone'
    <2> SUFFICES ASSUME NEW d \in Calls, Updates(d)', call'[d].pc \in {"file", "drop"}
                 PROVE  map'[Chan(d)'] \in {call'[d].path, None}
      BY DEF EntryOrNone
    <2>1. d # c
      BY <1>5
    <2> QED
      BY <1>1, <1>7, <2>1 DEF LeadInv, EntryOrNone
  <1>14. ASSUME NEW ch \in Channels, ~Upset(ch)'
        PROVE  NamesChannel(ch)' /\ GoneIsGone(ch)' /\ OnlyNamed(ch)'
    <2>1. NamesChannel(ch) /\ GoneIsGone(ch) /\ OnlyNamed(ch) /\ ~Upset(ch)
      BY <1>8, <1>14 DEF LeadInv
    <2>2. /\ Chan(c) = ch => p.chan = ch
          /\ Chan(c) # ch => ~Moves(c)
      BY <1>1, <1>6, <2>1 DEF NamesChannel, p
    <2>3. ASSUME map[ch] = P
          PROVE  p.chan = ch /\ Op(c) # "create"
      <3>1. Op(c) # "create"
        BY <1>6, <2>3
      <3> QED
        BY <1>3, <1>6, <2>1, <2>2, <2>3, <3>1 DEF NamesChannel
    <2>4. NamesChannel(ch)'
      <3>1. ASSUME map'[ch] # None, files'[map'[ch]] # None
            PROVE  files'[map'[ch]].chan = ch
        <4>1. CASE map[ch] = P
          BY <1>1, <2>3, <4>1
        <4>2. CASE map[ch] # P
          <5>1. map[ch] \in Paths
            BY <1>1, <3>1 DEF StoreInv, StoreTypes
          <5> QED
            BY <1>1, <2>1, <3>1, <4>2, <5>1 DEF NamesChannel
        <4> QED
          BY <4>1, <4>2
      <3> QED
        BY <1>5, <1>9, <2>2, <3>1 DEF NamesChannel
    <2>5. GoneIsGone(ch)'
      <3> SUFFICES ASSUME NEW d \in Calls
                   PROVE  /\ call'[d].pc = "look" /\ ch \in call'[d].gone /\ map[ch] # None
                             => files'[map[ch]] = None
                          /\ call'[d].pc = "drop" /\ Chan(d)' = ch => files'[call'[d].path] = None
        BY <1>1 DEF GoneIsGone
      <3>1. CASE d = c
        BY <1>5, <3>1
      <3>2. CASE d # c
        <4>1. ASSUME call[d].pc = "look", ch \in call[d].gone, map[ch] # None
              PROVE  files'[map[ch]] = None
          <5>1. files[map[ch]] = None /\ map[ch] \in Paths
            BY <2>1, <4>1 DEF GoneIsGone, StoreInv, StoreTypes
          <5>2. ASSUME map[ch] = P
                PROVE  FALSE
            BY <1>6, <2>2, <2>3, <4>1, <5>1, <5>2
          <5> QED
            BY <1>1, <5>1, <5>2
        <4>2. ASSUME call[d].pc = "drop", Chan(d) = ch
              PROVE  files'[call[d].path] = None
          <5>1. files[call[d].path] = None /\ call[d].path \in Paths
            <6>1. call[d].path \in Paths
              BY <4>2, StoreFacts, CallFields DEF CallOK
            <6> QED
              BY <2>1, <4>2, <6>1 DEF GoneIsGone
          <5>2. Chan(c) # ch
            BY <1>2, <3>2, <4>2, OneHolder DEF StoreInv, Locked
          <5>3. call[d].path # P
            BY <1>6, <2>2, <5>1, <5>2
          <5> QED
            BY <1>1, <5>1, <5>3
        <4> QED
          BY <1>7, <3>2, <4>1, <4>2
      <3> QED
        BY <3>1, <3>2
    <2>6. OnlyNamed(ch)'
      <3> SUFFICES ASSUME ~Archived(ch)', NEW q \in Paths, Reached(q)',
                          files'[q] # None, files'[q].chan = ch
                   PROVE  /\ \/ map[ch] = q
                             \/ \E d \in Calls : /\ call'[d].pc \in {"remove", "map"}
                                                 /\ Chan(d)' = ch /\ q = Place(d)'
                          /\ \A d \in Calls : call'[d].pc \in Storing /\ Chan(d)' = ch =>
                                q \in {call'[d].path, Place(d)'}
        BY <1>1 DEF OnlyNamed
      <3>1. ~Archived(ch) /\ Reached(q)
        BY <1>1, <1>8 DEF Reached
      <3>2. CASE q # P
        <4>1. files[q] # None /\ files[q].chan = ch
          BY <1>1, <3>2
        <4>2. map[ch] = q
          BY <1>9, <2>1, <3>1, <4>1 DEF OnlyNamed
        <4>3. Chan(c) = ch => q \in {call[c].path, P}
          BY <1>1, <2>1, <3>1, <4>1 DEF OnlyNamed, P
        <4> QED
          BY <1>5, <1>9, <4>2, <4>3
      <3>3. CASE q = P
        <4>1. CASE Chan(c) = ch
          BY <1>5, <1>9, <3>3, <4>1
        <4>2. CASE Chan(c) # ch
          <5>1. p.chan = ch /\ Op(c) # "create"
            BY <1>1, <1>6, <3>3, <4>2
          <5>2. files[P] # None /\ files[P].chan = ch
            BY <1>6, <2>2, <4>2, <5>1
          <5>3. map[ch] = P
            BY <1>3, <1>9, <2>1, <3>1, <3>3, <5>2 DEF OnlyNamed
          <5> QED
            BY <1>5, <1>9, <3>3, <4>2, <5>3
        <4> QED
          BY <4>1, <4>2
      <3> QED
        BY <3>2, <3>3
    <2> QED
      BY <2>4, <2>5, <2>6
  <1>15. ASSUME NEW x \in Calls
        PROVE  ChannelLeads(x)'
    <2> SUFFICES ASSUME Kept(x)', ~Displaced(x)', ~Archived(Chan(x))'
                 PROVE  /\ Leads(x)' \/ Enters(x)'
                        /\ \A d \in Calls : call'[d].pc \in Storing /\ Chan(d)' = Chan(x)' =>
                              call'[d].project.id = call'[x].project.id /\ Op(d)' # "create"
      BY DEF ChannelLeads
    <2>1. x # c
      BY <1>5 DEF Kept
    <2>2. /\ Kept(x) /\ ~Displaced(x) /\ ~Archived(Chan(x)) /\ ~Upset(Chan(x))
          /\ call'[x] = call[x] /\ Chan(x)' = Chan(x) /\ Chan(x) \in Channels
      BY <1>1, <1>5, <2>1, KeptBefore
    <2>3. /\ Leads(x)
          /\ Chan(c) = Chan(x) => p.id = call[x].project.id /\ Op(c) # "create"
      BY <1>1, <1>9, <2>2 DEF LeadInv, ChannelLeads, Enters, p
    <2>4. \A d \in Calls : call'[d].pc \in Storing /\ Chan(d)' = Chan(x)' =>
                              call'[d].project.id = call'[x].project.id /\ Op(d)' # "create"
      BY <1>5, <1>9, <2>2, <2>3
    <2>5. NamesChannel(Chan(x))
      BY <2>2 DEF LeadInv
    <2>6. CASE map[Chan(x)] # P
      <3>1. map[Chan(x)] \in Paths
        BY <2>2, <2>3 DEF Leads, StoreInv, StoreTypes
      <3> QED
        BY <1>1, <2>2, <2>3, <2>4, <2>6, <3>1 DEF Leads
    <2>7. CASE map[Chan(x)] = P
      <3>1. /\ files[P] # None /\ files[P].id = call[x].project.id /\ files[P].chan = Chan(x)
            /\ Op(c) # "create"
        BY <1>6, <2>2, <2>3, <2>5, <2>7 DEF Leads, NamesChannel
      <3>2. p.id = call[x].project.id /\ p.chan = Chan(x)
        <4>1. CASE Chan(c) = Chan(x)
          BY <1>1, <2>3, <2>5, <4>1 DEF NamesChannel, p
        <4>2. CASE Chan(c) # Chan(x)
          BY <1>6, <2>2, <3>1, <4>2
        <4> QED
          BY <4>1, <4>2
      <3>3. CASE p.status # "archived"
        <4>1. Leads(x)'
          BY <1>1, <1>3, <2>2, <2>7, <3>2, <3>3 DEF Leads
        <4> QED
          BY <2>4, <4>1
      <3>4. CASE p.status = "archived"
        <4>1. Kind(c) = "archive" /\ call'[c].pc = "map"
          BY <1>11, <2>2, <3>2, <3>4
        <4>2. Enters(x)'
          BY <1>5, <2>2, <3>2, <4>1 DEF Enters
        <4> QED
          BY <2>4, <4>2
      <3> QED
        BY <3>3, <3>4
    <2> QED
      BY <2>6, <2>7
  <1> QED
    BY <1>12, <1>13, <1>14, <1>15 DEF LeadInv

\* A record is removed where it was by the selection that has moved it.
LEMMA RemoveFileLeads ==
  ASSUME StoreInv, OpenInv, KeepInv, LeadInv, NEW c \in Calls, RemoveFile(c)
  PROVE  LeadInv'
  <1>1. /\ call[c].pc = "remove" /\ call[c].pc \in Storing /\ call[c].path \in Paths
        /\ files'[call[c].path] = None
        /\ \A q \in Paths : q # call[c].path => files'[q] = files[q]
        /\ MovesTo(c, "map", call[c].path, call[c].project)
        /\ map' = map
    BY RemoveFileEffect
  <1>2. /\ Updates(c) /\ call[c].pc \in Locked /\ call[c].pc # "new" /\ InFlight(c)
        /\ Op(c) = "create" => call[c].at = 2 /\ Kind(c) \in {"use", "propose"}
    BY <1>1, StorerUpdates, StoringUpdates
  <1>3. \A d \in Calls : call[d].pc \in Storing => d = c
    BY <1>2, OneStorer
  <1>4. /\ OnlyCall(c) /\ Place(c)' = Place(c) /\ call'[c].path = call[c].path
        /\ call'[c].project = call[c].project /\ call'[c].pc = "map" /\ call[c].project \in Projects
        /\ StaysLate(c) /\ Kind(c)' = Kind(c) /\ Chan(c)' = Chan(c) /\ Chan(c) \in Channels
        /\ Op(c)' = Op(c)
    <2>1. StaysLate(c) /\ Kind(c)' = Kind(c) /\ Chan(c)' = Chan(c)
      BY <1>1, MovesLate
    <2> QED
      BY <1>1, <2>1, PlaceLemma DEF MovesTo, Place, Op
  <1>5. \A q \in Paths : files'[q] # None => files'[q] = files[q]
    BY <1>1
  <1>6. /\ Moves(c) /\ Kind(c) = "use"
        /\ \A ch \in Channels : ch # Chan(c) => Upset(ch)
    <2>1. Stored(c) /\ Creates(c)
      BY <1>2 DEF OpenInv, UpdateOK
    <2>2. Moves(c)
      BY <1>1, <1>2, <2>1, NamesAssumption DEF Stored, Creates, Paths
    <2>3. call[c].req # None
      BY <1>2, StoreFacts DEF CallOK
    <2> QED
      BY <2>2, <2>3 DEF Moves, Upset
  <1>7. \A d \in Calls : d # c => /\ call'[d] = call[d] /\ Kind(d)' = Kind(d) /\ Chan(d)' = Chan(d)
                                  /\ Updates(d)' = Updates(d) /\ Place(d)' = Place(d)
    BY <1>4, SameCall
  <1>8. /\ \A ch \in Channels : Upset(ch) => Upset(ch)'
        /\ \A ch \in Channels : Archived(ch) => Archived(ch)' /\ ArchivedThen(ch)
    BY <1>1, <1>4, LateStays DEF Archived, ArchivedThen
  <1>9. \A d \in Calls : call'[d].pc \in Storing => d = c
    BY <1>3, <1>7
  <1>10. \A q \in Paths : files[q] # None => files[q].chan \in Channels
    BY ProjectFields DEF StoreInv, StoreTypes
  <1>11. ArchivedKnown'
    <2>1. ASSUME NEW q \in Paths, files'[q] # None, files'[q].status = "archived"
          PROVE  ArchivedThen(files'[q].chan)
      <3>1. ~Archiving(files[q])
        BY <1>3, <1>6 DEF Archiving, Storing
      <3> QED
        BY <1>5, <1>8, <1>10, <2>1, <3>1 DEF LeadInv, ArchivedKnown
    <2>2. ASSUME NEW d \in Calls, call'[d].pc \in Storing, call'[d].project.status = "archived"
          PROVE  ArchivedThen(call'[d].project.chan)
      <3>1. d = c /\ call[c].project.chan \in Channels
        BY <1>4, <1>9, <2>2, ProjectFields
      <3> QED
        BY <1>1, <1>4, <1>6, <1>8, <2>2, <3>1 DEF LeadInv, ArchivedKnown
    <2> QED
      BY <2>1, <2>2, ArchivedNext
  <1>12. EntryOrNone'
    <2> SUFFICES ASSUME NEW d \in Calls, Updates(d)', call'[d].pc \in {"file", "drop"}
                 PROVE  map'[Chan(d)'] \in {call'[d].path, None}
      BY DEF EntryOrNone
    <2>1. d # c
      BY <1>4
    <2> QED
      BY <1>1, <1>7, <2>1 DEF LeadInv, EntryOrNone
  <1>13. ASSUME NEW ch \in Channels, ~Upset(ch)'
        PROVE  NamesChannel(ch)' /\ GoneIsGone(ch)' /\ OnlyNamed(ch)'
    <2>1. /\ NamesChannel(ch) /\ GoneIsGone(ch) /\ OnlyNamed(ch) /\ ~Upset(ch)
          /\ ch = Chan(c)
      BY <1>6, <1>8, <1>13 DEF LeadInv
    <2>2. NamesChannel(ch)'
      <3>1. ASSUME map'[ch] # None, files'[map'[ch]] # None
            PROVE  files'[map'[ch]].chan = ch
        <4>1. map[ch] \in Paths
          BY <1>1, <3>1 DEF StoreInv, StoreTypes
        <4> QED
          BY <1>1, <1>5, <2>1, <3>1, <4>1 DEF NamesChannel
      <3> QED
        BY <1>1, <1>4, <1>9, <2>1, <3>1 DEF NamesChannel
    <2>3. GoneIsGone(ch)'
      <3> SUFFICES ASSUME NEW d \in Calls
                   PROVE  /\ call'[d].pc = "look" /\ ch \in call'[d].gone /\ map[ch] # None
                             => files'[map[ch]] = None
                          /\ call'[d].pc = "drop" /\ Chan(d)' = ch => files'[call'[d].path] = None
        BY <1>1 DEF GoneIsGone
      <3>1. CASE d = c
        BY <1>4, <3>1
      <3>2. CASE d # c
        <4>1. call[d].pc = "drop" => call[d].path \in Paths
          BY StoreFacts, CallFields DEF CallOK
        <4>2. map[ch] # None => map[ch] \in Paths
          BY DEF StoreInv, StoreTypes
        <4> QED
          BY <1>1, <1>7, <2>1, <3>2, <4>1, <4>2 DEF GoneIsGone
      <3> QED
        BY <3>1, <3>2
    <2>4. OnlyNamed(ch)'
      <3> SUFFICES ASSUME ~Archived(ch)', NEW q \in Paths, Reached(q)',
                          files'[q] # None, files'[q].chan = ch
                   PROVE  /\ \/ map[ch] = q
                             \/ \E d \in Calls : /\ call'[d].pc \in {"remove", "map"}
                                                 /\ Chan(d)' = ch /\ q = Place(d)'
                          /\ \A d \in Calls : call'[d].pc \in Storing /\ Chan(d)' = ch =>
                                q \in {call'[d].path, Place(d)'}
        BY <1>1 DEF OnlyNamed
      <3>1. ~Archived(ch) /\ files[q] # None /\ files[q].chan = ch /\ Reached(q)
        BY <1>1, <1>5, <1>8 DEF Reached
      <3>2. q \in {call[c].path, Place(c)}
        BY <1>1, <2>1, <3>1 DEF OnlyNamed
      <3>3. q = Place(c)
        BY <1>1, <3>2
      <3> QED
        BY <1>4, <1>9, <2>1, <3>3
    <2> QED
      BY <2>2, <2>3, <2>4
  <1>14. ASSUME NEW x \in Calls
        PROVE  ChannelLeads(x)'
    <2> SUFFICES ASSUME Kept(x)', ~Displaced(x)', ~Archived(Chan(x))'
                 PROVE  /\ Enters(x)'
                        /\ \A d \in Calls : call'[d].pc \in Storing /\ Chan(d)' = Chan(x)' =>
                              call'[d].project.id = call'[x].project.id /\ Op(d)' # "create"
      BY DEF ChannelLeads
    <2>1. x # c
      BY <1>4 DEF Kept
    <2>2. /\ Kept(x) /\ ~Displaced(x) /\ ~Archived(Chan(x)) /\ ~Upset(Chan(x))
          /\ call'[x] = call[x] /\ Chan(x)' = Chan(x) /\ Chan(x) \in Channels
      BY <1>1, <1>4, <2>1, KeptBefore
    <2>3. Chan(x) = Chan(c) /\ NamesChannel(Chan(c))
      BY <1>6, <2>2 DEF LeadInv
    <2>4. /\ call[c].project.chan = Chan(c) /\ call[c].project.id = call[x].project.id
          /\ Op(c) # "create"
      BY <1>1, <2>2, <2>3 DEF NamesChannel, LeadInv, ChannelLeads
    <2>5. Enters(x)'
      BY <1>4, <2>2, <2>3, <2>4 DEF Enters
    <2> QED
      BY <1>4, <1>9, <2>2, <2>4, <2>5
  <1> QED
    BY <1>11, <1>12, <1>13, <1>14 DEF LeadInv

\* Whoever is answered leaves the channel that the record names with the record, or
\* has archived it.
LEMMA WriteRecordLeads ==
  ASSUME StoreInv, OpenInv, KeepInv, LeadInv, NEW c \in Calls, WriteRecord(c)
  PROVE  LeadInv'
  <1> DEFINE p == call[c].project
             P == Place(c)
  <1>1. /\ call[c].pc = "map" /\ call[c].pc \in Storing /\ IsFree("map")
        /\ map'[p.chan] = IF p.status = "archived" THEN None ELSE P
        /\ \A ch \in Channels : ch # p.chan => map'[ch] = map[ch]
        /\ OnlyCall(c) /\ Answers(c, call'[c])
        /\ Op(c) = "update" => call'[c].pc = "ok" /\ call'[c].at = call[c].at
        /\ files' = files
    BY WriteRecordEffect
  <1>2. /\ Updates(c) /\ call[c].pc \in Locked /\ call[c].pc # "new"
        /\ Op(c) \in {"create", "settle", "update"}
    BY <1>1, StorerUpdates
  <1>3. /\ p \in Projects /\ P \in Paths /\ P # None /\ p # None /\ p.chan \in Channels
        /\ Chan(c) \in Channels
    BY <1>1, PlaceLemma, ProjectFields
  <1>4. \A d \in Calls : call[d].pc \in Storing => d = c
    BY <1>2, OneStorer
  <1>5. /\ call'[c].pc \in {"start", "ok", "error"} /\ call'[c].project = p
        /\ Kind(c)' = Kind(c) /\ Chan(c)' = Chan(c)
        /\ StaysLate(c)
    <2>1. /\ call'[c].pc \in {"start", "ok", "error"} /\ call'[c].project = p
          /\ call'[c].req # None /\ Kind(c)' = Kind(c) /\ Chan(c)' = Chan(c)
          /\ Kind(c) = "use" => Repo(c)' = Repo(c)
          /\ call'[c].seen = call[c].seen
      BY <1>1 DEF Answers, Kind, Chan, Repo
    <2>2. Moves(c) => Op(c) = "update"
      BY <1>2, StoreFacts, MadeCall DEF Moves, Reads
    <2> QED
      BY <1>1, <2>1, <2>2 DEF StaysLate, Moves
  <1>6. files[P] = p
    BY <1>1, <1>2 DEF OpenInv, UpdateOK, Stored, Place
  <1>7. \A d \in Calls : d # c => /\ call'[d] = call[d] /\ Kind(d)' = Kind(d) /\ Chan(d)' = Chan(d)
                                  /\ Updates(d)' = Updates(d) /\ Place(d)' = Place(d)
    BY <1>1, SameCall
  <1>8. /\ \A ch \in Channels : Upset(ch) => Upset(ch)'
        /\ \A ch \in Channels : Archived(ch) => Archived(ch)'
        /\ \A ch \in Channels : Archived(ch)' <=> ArchivedThen(ch)
    BY <1>1, <1>5, LateStays DEF Archived, ArchivedThen
  <1>9. \A d \in Calls : call'[d].pc \notin Storing
    <2>1. call'[c].pc \notin Storing
      BY <1>5 DEF Storing
    <2> QED
      BY <1>4, <1>7, <2>1
  <1>10. \A d \in Calls : call[d].pc \in {"remove", "map"} => d = c
    BY <1>4 DEF Storing
  <1>11. \A q \in Paths : files[q] # None => files[q].chan \in Channels
    BY ProjectFields DEF StoreInv, StoreTypes
  <1>12. Kind(c) = "archive" => ArchivedThen(p.chan)
    <2>1. Kind(c) = "archive" => Op(c) = "update"
      BY <1>2, StoringUpdates
    <2> QED
      BY <1>1, <1>3, <1>5, <2>1 DEF ArchivedThen
  <1>13. p.status = "archived" => ArchivedThen(p.chan)
    BY <1>1, <1>3, <1>8, <1>12 DEF LeadInv, ArchivedKnown
  <1> HIDE DEF P, p
  <1>14. ArchivedKnown'
    <2>1. ASSUME NEW q \in Paths, files'[q] # None, files'[q].status = "archived"
          PROVE  ArchivedThen(files'[q].chan)
      <3>1. CASE Archived(files[q].chan)
        BY <1>1, <1>8, <1>11, <2>1, <3>1
      <3>2. CASE Archiving(files[q])
        <4>1. Kind(c) = "archive" /\ files[q] = p
          BY <1>10, <3>2 DEF Archiving, p
        <4> QED
          BY <1>1, <1>12, <4>1
      <3> QED
        BY <1>1, <2>1, <3>1, <3>2 DEF LeadInv, ArchivedKnown
    <2> QED
      BY <1>9, <2>1, ArchivedNext
  <1>15. EntryOrNone'
    <2> SUFFICES ASSUME NEW d \in Calls, Updates(d)', call'[d].pc \in {"file", "drop"}
                 PROVE  FALSE
      BY DEF EntryOrNone
    <2>1. d # c
      BY <1>5
    <2>2. Updates(d) /\ call[d].pc \in Locked
      BY <1>7, <2>1 DEF Locked
    <2> QED
      BY <1>1, <2>1, <2>2, OneStorer
  <1>16. ASSUME NEW ch \in Channels, ~Archived(ch)', NamesChannel(ch), OnlyNamed(ch), p.chan = ch,
                ~Upset(ch), map[ch] # None, files[map[ch]] # None
         PROVE  map[ch] = P
    <2>1. map[ch] \in Paths /\ files[map[ch]].chan = ch /\ ~Archived(ch) /\ Reached(map[ch])
      BY <1>8, <1>16 DEF NamesChannel, StoreInv, StoreTypes, Reached
    <2>2. CASE Chan(c) = ch
      <3>1. map[ch] \in {call[c].path, P}
        BY <1>1, <1>16, <2>1, <2>2 DEF OnlyNamed, P
      <3>2. call[c].path \notin {None, P} => files[call[c].path] = None
        BY <1>1, <1>2 DEF KeepInv, Derived, P
      <3> QED
        BY <1>16, <3>1, <3>2
    <2>3. CASE Chan(c) # ch
      <3>1. EntryStays(c) /\ Stored(c) /\ Creates(c) /\ call[c].req # None
        BY <1>2, StoreFacts DEF OpenInv, UpdateOK, CallOK
      <3>2. ~Moves(c)
        BY <1>16, <2>3, <3>1 DEF Moves, Upset
      <3>3. Op(c) # "create"
        <4>1. Op(c) = "create" => call[c].at = 2 /\ Kind(c) \in {"use", "propose"}
          BY <1>2, StoringUpdates
        <4> QED
          BY <1>1, <1>2, <1>16, <2>3, <3>1, <4>1 DEF Creates, Updates, p
      <3>4. call[c].path = P
        BY <1>1, <3>1, <3>2, <3>3 DEF Stored, Place, P
      <3>5. map[Chan(c)] = P
        BY <1>1, <1>2, <1>3, <1>6, <3>1, <3>4 DEF EntryStays
      <3>6. Reached(P)
        BY <1>3, <3>5 DEF Reached
      <3> QED
        BY <1>3, <1>6, <1>10, <1>16, <2>1, <2>3, <3>6 DEF OnlyNamed
    <2> QED
      BY <2>2, <2>3
  <1>17. ASSUME NEW ch \in Channels, ~Upset(ch)'
        PROVE  NamesChannel(ch)' /\ GoneIsGone(ch)' /\ OnlyNamed(ch)'
    <2>1. NamesChannel(ch) /\ GoneIsGone(ch) /\ OnlyNamed(ch) /\ ~Upset(ch)
      BY <1>8, <1>17 DEF LeadInv
    <2>2. NamesChannel(ch)'
      <3>1. CASE p.chan = ch
        BY <1>1, <1>3, <1>6, <1>9, <3>1 DEF NamesChannel
      <3>2. CASE p.chan # ch
        BY <1>1, <1>9, <2>1, <3>2 DEF NamesChannel
      <3> QED
        BY <3>1, <3>2
    <2>3. GoneIsGone(ch)'
      <3>1. \A d \in Calls : call'[d].pc # "look"
        BY <1>1, <1>5, <1>7, NoLook DEF StoreInv
      <3>2. \A d \in Calls : call'[d].pc = "drop" => d # c
        BY <1>5
      <3> QED
        BY <1>1, <1>7, <2>1, <3>1, <3>2 DEF GoneIsGone
    <2>4. OnlyNamed(ch)'
      <3> SUFFICES ASSUME ~Archived(ch)', NEW q \in Paths, Reached(q)',
                          files[q] # None, files[q].chan = ch
                   PROVE  map'[ch] = q
        BY <1>1, <1>9 DEF OnlyNamed
      <3>1. ~Archived(ch) /\ q # None
        BY <1>8, NamesAssumption DEF Paths
      <3>2. CASE map[ch] = q
        <4>1. CASE p.chan = ch
          <5>1. q = P
            BY <1>16, <2>1, <3>1, <3>2, <4>1
          <5> QED
            BY <1>1, <1>8, <1>13, <4>1, <5>1
        <4>2. CASE p.chan # ch
          BY <1>1, <3>2, <4>2
        <4> QED
          BY <4>1, <4>2
      <3>3. CASE q = P
        BY <1>1, <1>6, <1>8, <1>13, <3>3
      <3>4. CASE Reached(q)
        BY <1>10, <2>1, <3>1, <3>2, <3>3, <3>4 DEF OnlyNamed, P
      <3>5. CASE ~Reached(q)
        <4>1. q = P
          BY <1>1, <1>3, <3>1, <3>5 DEF Reached
        <4> QED
          BY <3>3, <4>1
      <3> QED
        BY <3>4, <3>5
    <2> QED
      BY <2>2, <2>3, <2>4
  <1>18. ASSUME NEW x \in Calls
        PROVE  ChannelLeads(x)'
    <2> SUFFICES ASSUME Kept(x)', ~Displaced(x)', ~Archived(Chan(x))'
                 PROVE  Leads(x)'
      BY <1>9 DEF ChannelLeads
    <2>1. CASE x = c
      <3>1. ~Upset(Chan(c))
        BY <1>3, <1>5, <1>8, <2>1 DEF Displaced, Upset
      <3>2. p.chan = Chan(c)
        BY <1>1, <1>3, <3>1 DEF LeadInv, NamesChannel, p
      <3>3. p.status # "archived"
        <4>1. ~ArchivedThen(Chan(c))
          BY <1>5, <2>1 DEF Archived, ArchivedThen
        <4> QED
          BY <1>13, <3>2, <4>1
      <3> QED
        BY <1>1, <1>3, <1>5, <1>6, <2>1, <3>2, <3>3 DEF Leads
    <2>2. CASE x # c
      <3>1. /\ Kept(x) /\ ~Displaced(x) /\ ~Archived(Chan(x)) /\ ~Upset(Chan(x))
            /\ call'[x] = call[x] /\ Chan(x)' = Chan(x) /\ Chan(x) \in Channels
        BY <1>1, <1>5, <2>2, KeptBefore
      <3>2. /\ Leads(x) \/ Enters(x)
            /\ Chan(c) = Chan(x) => p.id = call[x].project.id
        BY <1>1, <3>1 DEF LeadInv, ChannelLeads, p
      <3>3. ~ArchivedThen(Chan(x))
        BY <3>1 DEF Archived, ArchivedThen
      <3>4. CASE p.chan # Chan(x)
        <4>1. ~Enters(x)
          BY <1>10, <3>4 DEF Enters, p
        <4> QED
          BY <1>1, <3>1, <3>2, <3>4, <4>1 DEF Leads
      <3>5. CASE p.chan = Chan(x)
        <4>1. p.status # "archived" /\ Kind(c) # "archive"
          BY <1>12, <1>13, <3>3, <3>5
        <4>2. p.id = call[x].project.id
          <5>1. CASE Chan(c) = Chan(x)
            BY <3>2, <5>1
          <5>2. CASE Chan(c) # Chan(x)
            <6>1. Leads(x)
              BY <1>10, <3>2, <4>1, <5>2 DEF Enters
            <6>2. NamesChannel(Chan(x)) /\ OnlyNamed(Chan(x)) /\ ~Archived(Chan(x))'
              BY <3>1, <3>3 DEF LeadInv, Archived, ArchivedThen
            <6>3. map[Chan(x)] = P
              BY <1>16, <3>1, <3>5, <6>1, <6>2 DEF Leads
            <6> QED
              BY <1>6, <6>1, <6>3 DEF Leads
          <5> QED
            BY <5>1, <5>2
        <4> QED
          BY <1>1, <1>3, <1>6, <3>1, <3>5, <4>1, <4>2 DEF Leads
      <3> QED
        BY <3>4, <3>5
    <2> QED
      BY <2>1, <2>2
  <1> QED
    BY <1>14, <1>15, <1>17, <1>18 DEF LeadInv

\* At the start each channel leads to the only record that names it.
LEMMA LeadInit ==
  ASSUME Init
  PROVE  LeadInv
  <1>1. \A d \in Calls : call[d].pc = "new"
    <2>1. \A d \in Calls : call[d] = NewCall
      BY StoreInit
    <2>2. NewCall.pc = "new"
      BY DEF NewCall
    <2> QED
      BY <2>1, <2>2
  <1>2. \A q \in Paths : files[q] # None =>
           files[q].status = "idle" /\ files[q].chan \in Channels /\ map[files[q].chan] = q
    BY InitFiles, InitEntries
  <1>3. \A ch \in Channels : map[ch] # None => files[map[ch]] # None /\ files[map[ch]].chan = ch
    BY InitEntries
  <1>4. ArchivedKnown /\ EntryOrNone
    BY <1>1, <1>2 DEF ArchivedKnown, EntryOrNone, Storing
  <1>5. \A ch \in Channels : NamesChannel(ch) /\ GoneIsGone(ch) /\ OnlyNamed(ch)
    BY <1>1, <1>2, <1>3 DEF NamesChannel, GoneIsGone, OnlyNamed, Storing
  <1>6. \A c \in Calls : ChannelLeads(c)
    BY <1>1 DEF ChannelLeads, Kept
  <1> QED
    BY <1>4, <1>5, <1>6 DEF LeadInv

\* A step that changes nothing keeps the channels.
LEMMA LeadSame ==
  ASSUME LeadInv, UNCHANGED vars
  PROVE  LeadInv'
  <1>1. files' = files /\ map' = map /\ call' = call
    BY DEF vars
  <1>2. \A d \in Calls : /\ Kind(d)' = Kind(d) /\ Chan(d)' = Chan(d) /\ Place(d)' = Place(d)
                         /\ Updates(d)' = Updates(d) /\ Kept(d)' = Kept(d) /\ Resumes(d)' = Resumes(d)
                         /\ Op(d)' = Op(d)
    BY <1>1 DEF Kind, Chan, Place, Op, Updates, InFlight, Kept, Resumes, Repo
  <1>3. \A ch \in Channels : /\ Upset(ch)' = Upset(ch)
                             /\ Archived(ch)' = Archived(ch)
    BY <1>1, <1>2 DEF Upset, SelectionCut, Archived
  <1>4. ArchivedKnown'
    BY <1>1, <1>2 DEF LeadInv, ArchivedKnown, Archived, Archiving
  <1>5. EntryOrNone'
    BY <1>1, <1>2 DEF LeadInv, EntryOrNone
  <1>6. \A ch \in Channels : ~Upset(ch)' =>
           NamesChannel(ch)' /\ GoneIsGone(ch)' /\ OnlyNamed(ch)'
    BY <1>1, <1>2, <1>3 DEF LeadInv, NamesChannel, GoneIsGone, OnlyNamed, Reached
  <1>7. ASSUME NEW c \in Calls
        PROVE  ChannelLeads(c)'
    <2>1. ChannelLeads(c)
      BY DEF LeadInv
    <2>2. Displaced(c)' = Displaced(c) /\ Archived(Chan(c))' = Archived(Chan(c))
      BY <1>1, <1>2 DEF Displaced, Upset, SelectionCut, Archived
    <2>3. Leads(c)' = Leads(c) /\ Enters(c)' = Enters(c)
      BY <1>1, <1>2 DEF Leads, Enters
    <2> QED
      BY <1>1, <1>2, <2>1, <2>2, <2>3 DEF ChannelLeads
  <1> QED
    BY <1>4, <1>5, <1>6, <1>7 DEF LeadInv

\* What a crash leaves of the updates under way: the record is where its channel
\* leads, or the project was archived.
LEMMA CrashLeads ==
  ASSUME StoreInv, OpenInv, KeepInv, LeadInv, Crash
  PROVE  LeadInv'
  <1>1. /\ files' = files /\ map' = map
        /\ \A d \in Calls : /\ call'[d].pc \in {"new"} \cup Ended
                            /\ ~InFlight(d) => call'[d] = call[d]
                            /\ call'[d].req = call[d].req /\ call'[d].at = call[d].at
                            /\ call'[d].seen = call[d].seen /\ call'[d].project = call[d].project
    BY CrashEffect
  <1>2. /\ \A d \in Calls : /\ Kind(d)' = Kind(d) /\ Chan(d)' = Chan(d) /\ Resumes(d)' = Resumes(d)
                            /\ Kept(d)' = Kept(d)
        /\ \A d \in Calls : call'[d].pc \notin Storing \cup {"file", "drop", "look"}
    <2>1. \A d \in Calls : /\ Kind(d)' = Kind(d) /\ Chan(d)' = Chan(d) /\ Repo(d)' = Repo(d)
                           /\ call'[d].pc = "ok" <=> call[d].pc = "ok"
      <3>1. \A d \in Calls : call[d].pc = "ok" => ~InFlight(d)
        BY DEF InFlight, Ended
      <3>2. \A d \in Calls : InFlight(d) => call'[d].pc = "dead"
        BY CrashEffect
      <3> QED
        BY <1>1, <3>1, <3>2 DEF Kind, Chan, Repo
    <2>2. \A d \in Calls : call'[d].pc \notin Storing \cup {"file", "drop", "look"}
      BY <1>1 DEF Storing, Ended
    <2> QED
      BY <1>1, <2>1, <2>2 DEF Resumes, Kept
  <1>3. ASSUME NEW d \in Calls, call[d].pc \in Storing, Kind(d) = "archive"
        PROVE  ArchivedThen(call[d].project.chan)
    BY <1>3, CrashFinds DEF ArchivedThen
  <1>4. /\ \A ch \in Channels : Archived(ch) => ArchivedThen(ch)
        /\ \A ch \in Channels : Archived(ch)' <=> ArchivedThen(ch)
        /\ \A ch \in Channels : Upset(ch) => Upset(ch)'
    <2>1. \A d \in Calls : call[d].pc \in {"ok", "dead"} => ~InFlight(d)
      BY DEF InFlight, Ended
    <2>2. \A ch \in Channels : Archived(ch) => ArchivedThen(ch)
      BY <1>1, <1>2, <2>1 DEF Archived, ArchivedThen
    <2>3. \A ch \in Channels : Upset(ch) => Upset(ch)'
      BY <1>1, <1>2, <2>1 DEF Upset, SelectionCut
    <2> QED
      BY <2>2, <2>3 DEF Archived, ArchivedThen
  <1>5. \A q \in Paths : files[q] # None => files[q].chan \in Channels
    BY ProjectFields DEF StoreInv, StoreTypes
  <1>6. ArchivedKnown'
    <2>1. ASSUME NEW q \in Paths, files'[q] # None, files'[q].status = "archived"
          PROVE  ArchivedThen(files'[q].chan)
      <3>1. CASE Archived(files[q].chan)
        BY <1>1, <1>4, <1>5, <2>1, <3>1
      <3>2. CASE Archiving(files[q])
        BY <1>1, <1>3, <3>2 DEF Archiving, Storing
      <3> QED
        BY <1>1, <2>1, <3>1, <3>2 DEF LeadInv, ArchivedKnown
    <2> QED
      BY <1>2, <2>1, ArchivedNext
  <1>7. EntryOrNone'
    BY <1>2 DEF EntryOrNone
  <1>8. ASSUME NEW d \in Calls, call[d].pc = "map", Op(d) # "create", ~Moves(d)
        PROVE  map[Chan(d)] = Place(d) /\ files[Place(d)] = call[d].project
    <2>1. /\ EntryStays(d) /\ Stored(d) /\ Updates(d) /\ call[d].project # None
      BY <1>8, StorerUpdates, CrashFinds DEF OpenInv, UpdateOK, Storing
    <2>2. call[d].path # None /\ Place(d) = call[d].path /\ files[Place(d)] = call[d].project
      BY <1>8, <2>1 DEF Stored, Place, Storing
    <2> QED
      BY <1>8, <2>1, <2>2 DEF EntryStays, Storing
  <1>m. ASSUME NEW ch \in Channels, ~Upset(ch)', NEW d \in Calls, call[d].pc \in Storing, Chan(d) = ch
        PROVE  ~Moves(d)
    BY <1>m, CrashFinds DEF Upset, SelectionCut, Moves
  <1>9. ASSUME NEW ch \in Channels, ~Upset(ch)'
        PROVE  NamesChannel(ch)' /\ GoneIsGone(ch)' /\ OnlyNamed(ch)'
    <2>1. NamesChannel(ch) /\ OnlyNamed(ch)
      BY <1>4, <1>9 DEF LeadInv
    <2>2. NamesChannel(ch)' /\ GoneIsGone(ch)'
      BY <1>1, <1>2, <2>1 DEF NamesChannel, GoneIsGone
    <2>3. OnlyNamed(ch)'
      <3> SUFFICES ASSUME ~Archived(ch)', NEW q \in Paths, Reached(q)',
                          files[q] # None, files[q].chan = ch
                   PROVE  map[ch] = q
        BY <1>1, <1>2 DEF OnlyNamed
      <3>1. ~Archived(ch) /\ Reached(q)
        BY <1>1, <1>4 DEF Reached
      <3>2. ASSUME NEW d \in Calls, call[d].pc \in {"remove", "map"}, Chan(d) = ch, q = Place(d)
            PROVE  map[ch] = q
        <4>1. call[d].pc = "map" /\ call[d].pc # "new" /\ ~Moves(d)
          <5>1. ~Moves(d)
            BY <1>9, <3>2, <1>m DEF Storing
          <5> QED
            BY <3>2, <5>1, CrashFinds DEF Storing
        <4>2. Op(d) # "create"
          BY <3>1, <3>2, <4>1 DEF KeepInv, Derived, Reached
        <4> QED
          BY <1>8, <3>2, <4>1, <4>2
      <3> QED
        BY <2>1, <3>1, <3>2 DEF OnlyNamed
    <2> QED
      BY <2>2, <2>3
  <1>10. ASSUME NEW x \in Calls
         PROVE  ChannelLeads(x)'
    <2> SUFFICES ASSUME Kept(x)', ~Displaced(x)', ~Archived(Chan(x))'
                 PROVE  Leads(x)'
      BY <1>2 DEF ChannelLeads
    <2>1. Kept(x) /\ Chan(x)' = Chan(x) /\ call'[x].project = call[x].project /\ Chan(x) \in Channels
      BY <1>1, <1>2, StoreFacts DEF Kept
    <2>2. ~ArchivedThen(Chan(x)) /\ ~Archived(Chan(x))
      BY <1>4, <2>1
    <2>3. ~Displaced(x)
      BY <1>1, <1>2, <1>4, <2>1 DEF Displaced
    <2>4. /\ Leads(x) \/ Enters(x)
          /\ \A d \in Calls : call[d].pc \in Storing /\ Chan(d) = Chan(x) =>
                call[d].project.id = call[x].project.id /\ Op(d) # "create"
      BY <2>1, <2>2, <2>3 DEF LeadInv, ChannelLeads
    <2>5. ASSUME NEW d \in Calls, call[d].pc = "map", call[d].project.chan = Chan(x),
                 Chan(d) = Chan(x) \/ Kind(d) = "archive"
          PROVE  Leads(x)
      <3>1. Kind(d) # "archive"
        BY <1>3, <2>2, <2>5 DEF Storing
      <3>a. ~Moves(d)
        <4>1. ASSUME NEW ch \in Channels, ch = Chan(x)
              PROVE  ~Upset(ch)'
          BY <2>1, <4>1 DEF Displaced, Upset
        <4> QED
          BY <1>m, <2>1, <2>5, <3>1, <4>1 DEF Storing
      <3>2. /\ map[Chan(x)] = Place(d) /\ files[Place(d)] = call[d].project
            /\ call[d].project.id = call[x].project.id
        BY <1>8, <2>4, <2>5, <3>1, <3>a DEF Storing
      <3>3. call[d].project # None /\ Place(d) # None
        BY <2>5, PlaceLemma, ProjectFields DEF Storing
      <3>4. call[d].project.status # "archived"
        BY <2>2, <2>5, <3>1 DEF LeadInv, ArchivedKnown, Storing
      <3> QED
        BY <3>2, <3>3, <3>4 DEF Leads
    <2>6. Leads(x)
      BY <2>4, <2>5 DEF Enters
    <2> QED
      BY <1>1, <2>1, <2>6 DEF Leads
  <1> QED
    BY <1>6, <1>7, <1>9, <1>10 DEF LeadInv

\* Every step keeps the channels.
LEMMA LeadStep ==
  ASSUME StoreInv, OpenInv, SeenInv, KeepInv, LeadInv, [Next]_vars
  PROVE  LeadInv'
  BY StepKinds, CrashLeads, LeadSame, HarmlessLeads, MakesLeads, WriteFileLeads, RemoveFileLeads,
     WriteRecordLeads

\* An update is kept, where it is not displaced or archived.
LEMMA LeadKept ==
  ASSUME StoreInv, KeepInv, LeadInv
  PROVE  UpdatesKept
  <1> SUFFICES ASSUME NEW kind \in Kinds \ Reads, NEW c \in Answered(kind)
               PROVE  /\ \A path \in Paths :
                            files[path] # None /\ files[path].id = call[c].project.id
                            => c \in files[path].log \/ Doubled(call[c].project.id)
                      /\ \/ /\ map[Chan(c)] # None /\ files[map[Chan(c)]] # None
                            /\ files[map[Chan(c)]].id = call[c].project.id
                         \/ Unentered(Chan(c)) \/ Displaced(c)
    BY DEF UpdatesKept
  <1>1. c \in Calls /\ Kept(c)
    BY DEF Answered, Kept, Kind
  <1>2. \A path \in Paths : files[path] # None /\ files[path].id = call[c].project.id
                            => c \in files[path].log \/ Doubled(call[c].project.id)
    BY <1>1 DEF KeepInv, LogsKept
  <1>3. Archived(Chan(c)) => Unentered(Chan(c))
    BY DEF Archived, Unentered
  <1>4. Enters(c) => Unentered(Chan(c))
    <2> SUFFICES ASSUME NEW d \in Calls, call[d].pc = "map", call[d].project.chan = Chan(c)
                 PROVE  Unentered(Chan(c))
      BY DEF Enters
    <2>1. call[d].project # None
      BY StoreFacts DEF CallOK, Storing
    <2> QED
      BY <2>1 DEF Unentered
  <1> QED
    BY <1>1, <1>2, <1>3, <1>4 DEF LeadInv, ChannelLeads, Leads

\* state/store.ts:217-265, 393-426: while requests of different channels are not
\* served side by side, every update that was answered is in every copy of the record
\* of its project, unless a crash came upon a selection that moved it, and its channel
\* leads to that record until the project is archived or displaced, also after crashes.
THEOREM UpdatesStay == ASSUME ~Overlap PROVE Spec => []UpdatesKept
  <1> DEFINE Inv == StoreInv /\ OpenInv /\ AtomInv /\ KeepInv /\ LeadInv
  <1>1. Init => Inv
    BY StoreInit, OpenInit, AtomInit, KeepInit, LeadInit
  <1>2. Inv /\ [Next]_vars => Inv'
    BY StoreStep, OpenStep, AtomStep, KeepStep, LeadStep DEF AtomInv
  <1>3. Inv => UpdatesKept
    BY LeadKept
  <1> QED
    BY <1>1, <1>2, <1>3, PTL DEF Spec

-----------------------------------------------------------------------------
(* The locks form no circle.                                               *)

\* Who holds the lock of a channel waits for the lock of the map at most, and who
\* holds that one waits for nothing.
LEMMA HolderReady ==
  ASSUME StoreInv, NEW c \in Calls, InFlight(c)
  PROVE  \E d \in Calls : Ready(d)
  <1>1. /\ call[c] \in CallRecords /\ CallOK(c) /\ call[c].pc # "new" /\ LocksHeld
        /\ Chan(c) \in Channels /\ Chan(c) \in Locks /\ call[c].pc \in Pcs
    BY StoreFacts, CallFields DEF InFlight, StoreInv
  <1>2. CASE \E d \in Calls : call[d].pc = "look"
    <2>1. PICK d \in Calls : call[d].pc = "look"
      BY <1>2
    <2>2. call[d].left \subseteq Channels
      BY StoreFacts, CallFields
    <2>3. Ready(d)
      BY <2>1, <2>2 DEF Ready, Readable
    <2> QED
      BY <2>3
  <1>3. CASE ~\E d \in Calls : call[d].pc = "look"
    <2>1. IsFree("map")
      <3>1. \A d \in Calls : call[d].pc \in Locked => Chan(d) \in Channels
        BY <1>1, StoreFacts
      <3>2. "map" \in Locks /\ locks["map"] \in Calls \cup {None}
        BY StoreFacts DEF Locks
      <3> QED
        BY <1>1, <1>3, <3>1, <3>2, StoreAssumption DEF IsFree, LocksHeld
    <2>2. \A d \in Calls : call[d].pc \in Locked => Ready(d)
      BY <2>1 DEF Ready, Locked, Storing
    <2>3. CASE call[c].pc \in Locked
      BY <2>2, <2>3
    <2>4. CASE call[c].pc = "start"
      <3>1. CASE Op(c) \in {"peek", "list"}
        BY <2>1, <2>4, <3>1 DEF Ready
      <3>2. CASE Op(c) \notin {"peek", "list"} /\ IsFree(Chan(c))
        BY <2>4, <3>2 DEF Ready, CanLockChannel
      <3>3. CASE ~IsFree(Chan(c))
        <4>1. locks[Chan(c)] \in Calls /\ call[locks[Chan(c)]].pc \in Locked
          BY <1>1, <1>3, <3>3, StoreFacts DEF IsFree, LocksHeld
        <4> QED
          BY <2>2, <4>1
      <3> QED
        BY <3>1, <3>2, <3>3
    <2> QED
      BY <1>1, <1>3, <2>3, <2>4 DEF InFlight, Pcs, Ended, Locked, Storing
  <1> QED
    BY <1>2, <1>3

\* state/store.ts:372-380, 413-440: whatever the requests and their order, also of
\* channels served side by side, while one is under way there is one whose lock is
\* free.  (That its step is then enabled is left to the run store.)
THEOREM SomeoneIsReady == Spec => []SomeReady
  <1>1. Init => StoreInv
    BY StoreInit
  <1>2. StoreInv /\ [Next]_vars => StoreInv'
    BY StoreStep
  <1>3. StoreInv => SomeReady
    BY HolderReady DEF SomeReady
  <1> QED
    BY <1>1, <1>2, <1>3, PTL DEF Spec
=============================================================================
