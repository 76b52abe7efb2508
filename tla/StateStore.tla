----------------------------- MODULE StateStore -----------------------------
(***************************************************************************)
(* The project records of state/store.ts: one state file per project, in   *)
(* the plugin's directory until the project has a repository and then in   *)
(* the repository, and the map of active projects, which leads from a chat *)
(* channel to a state file.  An operation takes the lock of its channel;   *)
(* every access to the map takes the lock of the map; state files are read *)
(* and written under either.                                               *)
(*                                                                         *)
(* The calls are requests of orchestrator/service.ts: each is a script of  *)
(* store operations with the checks the service makes in between.  Locks   *)
(* are those of one process (FileLockProofs: FileLockIsProcessLock).  The  *)
(* move from a legacy channel key is left out, and so are clearing a       *)
(* channel, which nothing calls, and records without a workspace;          *)
(* findActiveProjectForMessage reads and prunes as listActiveProjects does.*)
(***************************************************************************)
EXTENDS Naturals, Sequences

CONSTANTS
    Calls,          \* requests, each made at most once
    Channels,
    Repos,
    None,           \* no project, repository, change or holder
    Kinds,          \* the kinds of requests that are made
    Overlap,        \* are requests of different channels served side by side?
    MaxCrashes      \* bound: crashes of a behaviour

ASSUME StoreAssumption ==
    /\ Kinds \subseteq {"get", "list", "touch", "use", "propose", "finish", "archive"}
    /\ Overlap \in BOOLEAN
    /\ MaxCrashes \in Nat
    /\ "map" \notin Channels

VARIABLES
    files,          \* the state file at each path, or None
    map,            \* the path of the active project of each channel, or None
    locks,          \* the holder of each lock, or None
    call,           \* what each request is at
    closed,         \* history: changes that were finished or archived
    crashes

vars == <<files, map, locks, call, closed, crashes>>

\* The id of a project stands for the request that created it, or for its
\* channel when it was there before; a change for the request that proposed it.
Ids == Calls \cup Channels
Changes == Calls
Paths == Ids \cup Repos     \* global state files, state files of repositories
Locks == Channels \cup {"map"}

Projects == [id : Ids, chan : Channels, repo : Repos \cup {None},
             change : Changes \cup {None}, status : {"idle", "open", "done", "archived"},
             log : SUBSET Calls]    \* the updates that went into the record

\* A selection names a repository; the others go by the one on record.
AnyRequest == [kind : Kinds, chan : Channels, repo : Repos \cup {None}]
Requests == {req \in AnyRequest : req.kind = "use" <=> req.repo # None}

ASSUME NamesAssumption ==
    /\ None \notin Ids \cup Repos \cup Projects \cup AnyRequest
    /\ Calls \cap Channels = {} /\ Ids \cap Repos = {}

Fresh(id, ch) == [id |-> id, chan |-> ch, repo |-> None, change |-> None,
                  status |-> "idle", log |-> {}]

\* The store operations of a request.
Script(kind) ==
    CASE kind = "get"     -> <<"get">>
      [] kind = "list"    -> <<"list">>
      [] kind = "touch"   -> <<"update">>
      [] kind = "use"     -> <<"get", "create", "settle", "peek", "update">>
      [] kind = "propose" -> <<"get", "create", "settle", "list", "update">>
      [] kind \in {"finish", "archive"} -> <<"get", "update">>

Ended == {"ok", "error", "dead"}
Pcs == {"new", "start", "record", "file", "drop", "write", "remove", "map", "look"} \cup Ended

NewCall == [pc |-> "new", req |-> None, at |-> 1, path |-> None, project |-> None, seen |-> None,
            id |-> None, left |-> {}, gone |-> {}, others |-> {}]

\* Some channels have projects already, and some of these have selected a
\* repository each.
Init ==
    /\ \E active \in SUBSET Channels : \E repo \in [active -> Repos \cup {None}] :
         LET path(ch) == IF repo[ch] = None THEN ch ELSE repo[ch]
             project(ch) == [Fresh(ch, ch) EXCEPT !.repo = repo[ch]]
         IN  /\ \A ch, d \in active : path(ch) = path(d) => ch = d
             /\ map = [ch \in Channels |-> IF ch \in active THEN path(ch) ELSE None]
             /\ files = [p \in Paths |->
                           IF \E ch \in active : path(ch) = p
                           THEN project(CHOOSE ch \in active : path(ch) = p)
                           ELSE None]
    /\ locks = [l \in Locks |-> None]
    /\ call = [c \in Calls |-> NewCall]
    /\ closed = {}
    /\ crashes = 0

-----------------------------------------------------------------------------
(* Helpers.                                                                *)

InFlight(c) == call[c].pc \notin {"new"} \cup Ended
Kind(c) == call[c].req.kind
Chan(c) == call[c].req.chan
Repo(c) == call[c].req.repo
Op(c) == Script(Kind(c))[call[c].at]

IsFree(l) == locks[l] = None
Takes(c, l) == locks' = [locks EXCEPT ![l] = c]
Releases(l) == locks' = [locks EXCEPT ![l] = None]

Goes(c, pc) == call' = [call EXCEPT ![c].pc = pc]

\* The call after a store operation: at the next one, or answered.
At(c, i) ==
    IF i > Len(Script(Kind(c)))
    THEN [call[c] EXCEPT !.pc = "ok", !.path = None, !.left = {}, !.gone = {}, !.others = {}]
    ELSE [call[c] EXCEPT !.pc = "start", !.at = i, !.path = None, !.left = {}, !.gone = {},
                         !.others = {}]
Following(c) == At(c, call[c].at + 1)
Refused(c) == [call[c] EXCEPT !.pc = "error"]

-----------------------------------------------------------------------------
(* What the service decides.                                               *)

HasOpenChange(p) == p.status = "open"

\* A project with an unfinished change gets no other repository and no other
\* change; such a change is finished, and one or a finished one is archived.
Allows(c, p) ==
    CASE Kind(c) = "finish"  -> HasOpenChange(p)
      [] Kind(c) = "archive" -> p.change # None
      [] OTHER               -> ~HasOpenChange(p)

\* A change is proposed in a repository.
Serves(c, p) == Allows(c, p) /\ (Kind(c) = "propose" => p.repo # None)

\* A project the request goes on with: with its repository, if it names none.
GoesOnWith(c, p, i) ==
    IF Serves(c, p)
    THEN [At(c, i) EXCEPT !.id = p.id, !.req.repo = IF Kind(c) = "use" THEN @ ELSE p.repo]
    ELSE Refused(c)

\* After getActiveProject.  ensureSessionProject, of useProject and
\* proposalProject, creates and settles a project when there is none;
\* requireActiveProject refuses.
AfterGet(c, p) ==
    CASE Kind(c) = "get" \/ (p = None /\ Kind(c) \in {"use", "propose"}) -> Following(c)
      [] p = None /\ Kind(c) \notin {"get", "use", "propose"} -> Refused(c)
      [] OTHER -> GoesOnWith(c, p, IF Kind(c) \in {"use", "propose"} THEN 4 ELSE 2)

\* After a record was stored.
AfterWrite(c) ==
    IF Op(c) = "settle" THEN GoesOnWith(c, call[c].project, 4) ELSE Following(c)

\* findUnfinishedProjectForRepo finds one of the other projects in the
\* repository that are not finished, with a change or without.
IsOther(c, p) == p # None /\ p.repo = Repo(c) /\ p.id # call[c].id
Found(c) ==
    LET unfinished == {p \in call[c].others : p.status \notin {"done", "archived"}}
    IN  IF unfinished = {} THEN {None} ELSE unfinished

\* Fault: the repository's own record is not looked at.
ResumesNever(c) == FALSE

\* useProject takes over the unfinished change that the repository holds.
Resumes(c) ==
    LET seen == call[c].seen
    IN  seen # None /\ seen.repo = Repo(c) /\ HasOpenChange(seen)

Selected(c, cur) ==
    LET base == IF Resumes(c) THEN [call[c].seen EXCEPT !.chan = cur.chan] ELSE cur
    IN  IF base.repo = Repo(c)
        THEN base
        ELSE [base EXCEPT !.repo = Repo(c), !.change = None, !.status = "idle"]

\* The record that a request makes of the current one.
Updated(c, cur) ==
    LET next == IF Op(c) = "settle"
                THEN [cur EXCEPT !.status = "idle"]
                ELSE CASE Kind(c) = "touch"   -> cur
                       [] Kind(c) = "propose" -> [cur EXCEPT !.change = c, !.status = "open"]
                       [] Kind(c) = "finish"  -> [cur EXCEPT !.status = "done"]
                       [] Kind(c) = "archive" -> [cur EXCEPT !.change = None, !.status = "archived"]
                       [] OTHER               -> Selected(c, cur)
    IN  [next EXCEPT !.log = @ \cup {c}]

Created(c) == [Fresh(c, Chan(c)) EXCEPT !.log = {c}]

\* Where a record is stored.
Target(p, path) == IF p.repo # None THEN p.repo ELSE IF path = None THEN p.id ELSE path

-----------------------------------------------------------------------------
(* The operations of the store.                                            *)

\* Fault: updates are made without the lock of the channel.
UpdatesUnlocked(c) == IsFree(Chan(c)) \/ Op(c) = "update"

CanLockChannel(c) == IsFree(Chan(c))

\* withChannelLock
LockChannel(c) ==
    /\ call[c].pc = "start" /\ Op(c) \in {"get", "create", "settle", "update"}
    /\ CanLockChannel(c)
    /\ Takes(c, Chan(c))
    /\ Goes(c, "record")
    /\ UNCHANGED <<files, map, closed, crashes>>

\* Fault: the lock is not given up when there is no project.
ReleasesOnAnswer(c) == IF Kind(c) = "touch" THEN UNCHANGED locks ELSE Releases(Chan(c))

ReleasesUnanswered(c) == Releases(Chan(c))

\* There is no active project: null, a new project, or an error.
NoProject(c) ==
    \/ /\ Op(c) = "get"
       /\ call' = [call EXCEPT ![c] = AfterGet(c, None)]
       /\ Releases(Chan(c))
    \/ /\ Op(c) = "create"
       /\ call' = [call EXCEPT ![c].project = Created(c), ![c].path = None, ![c].pc = "write"]
       /\ UNCHANGED locks
    \/ /\ Op(c) \in {"settle", "update"}
       /\ call' = [call EXCEPT ![c] = Refused(c)]
       /\ ReleasesUnanswered(c)

\* readActiveRecord
ReadRecord(c) ==
    /\ call[c].pc = "record"
    /\ IsFree("map")
    /\ \/ /\ map[Chan(c)] = None
          /\ NoProject(c)
       \/ /\ map[Chan(c)] # None
          /\ call' = [call EXCEPT ![c].path = map[Chan(c)], ![c].pc = "file"]
          /\ UNCHANGED locks
    /\ UNCHANGED <<files, map, closed, crashes>>

\* ActiveProjectConflictError
Conflicts(c, cur) == Op(c) = "create" /\ cur # None /\ cur.status # "archived"

\* The state file the record leads to.
ReadFile(c) ==
    /\ call[c].pc = "file"
    /\ LET cur == files[call[c].path] IN
       \/ /\ cur = None /\ Op(c) # "create"
          /\ Goes(c, "drop") /\ UNCHANGED locks
       \/ /\ cur # None /\ (Op(c) = "get" \/ Conflicts(c, cur))
          /\ call' = [call EXCEPT ![c] = IF Op(c) = "get" THEN AfterGet(c, cur) ELSE Refused(c)]
          /\ Releases(Chan(c))
       \/ /\ cur # None \/ Op(c) = "create"
          /\ Op(c) # "get" /\ ~Conflicts(c, cur)
          /\ call' = [call EXCEPT
                        ![c].project = IF Op(c) = "create" THEN Created(c) ELSE Updated(c, cur),
                        ![c].path = IF Op(c) = "create" THEN None ELSE @,
                        ![c].pc = "write"]
          /\ UNCHANGED locks
    /\ UNCHANGED <<files, map, closed, crashes>>

\* deleteActiveRecordIfMatches
DropRecord(c) ==
    /\ call[c].pc = "drop"
    /\ IsFree("map")
    /\ map' = [map EXCEPT ![Chan(c)] = IF @ = call[c].path THEN None ELSE @]
    /\ NoProject(c)
    /\ UNCHANGED <<files, closed, crashes>>

\* persistProjectUnlocked: write the record, where its repository is by now, ...
WriteFile(c) ==
    /\ call[c].pc = "write"
    /\ LET p == call[c].project
           to == Target(p, call[c].path)
       IN  /\ files' = [files EXCEPT ![to] = p]
           /\ Goes(c, IF call[c].path \in {None, to} THEN "map" ELSE "remove")
           /\ closed' = IF p.status \in {"done", "archived"}
                        THEN closed \cup {o.change : o \in {files[to]} \ {None}} ELSE closed
    /\ UNCHANGED <<map, locks, crashes>>

\* ... remove it where it was, ...
RemoveFile(c) ==
    /\ call[c].pc = "remove"
    /\ files' = [files EXCEPT ![call[c].path] = None]
    /\ Goes(c, "map")
    /\ UNCHANGED <<map, locks, closed, crashes>>

\* ... and enter it in the map.
WriteRecord(c) ==
    /\ call[c].pc = "map"
    /\ IsFree("map")
    /\ LET p == call[c].project IN
       map' = [map EXCEPT ![p.chan] =
                  IF p.status = "archived" THEN None ELSE Target(p, call[c].path)]
    /\ call' = [call EXCEPT ![c] = AfterWrite(c)]
    /\ Releases(Chan(c))
    /\ UNCHANGED <<files, closed, crashes>>

\* useProject reads the record of the repository without a lock.
Peek(c) ==
    /\ call[c].pc = "start" /\ Op(c) = "peek"
    /\ call' = [call EXCEPT ![c] = [Following(c) EXCEPT !.seen = files[Repo(c)]]]
    /\ UNCHANGED <<files, map, locks, closed, crashes>>

\* listActiveProjects: read the map, ...
ListRecords(c) ==
    /\ call[c].pc = "start" /\ Op(c) = "list"
    /\ IsFree("map")
    /\ Takes(c, "map")
    /\ call' = [call EXCEPT ![c].pc = "look",
                            ![c].left = {ch \in Channels : map[ch] # None}]
    /\ UNCHANGED <<files, map, closed, crashes>>

\* Fault: the list waits for the updates of each channel.
ReadableUnlocked(ch) == IsFree(ch)

\* State files are replaced as a whole; the list reads them beside an update.
Readable(ch) == ch \in Channels

\* ... read one file after the other, ...
LookAt(c, ch) ==
    /\ call[c].pc = "look" /\ ch \in call[c].left
    /\ Readable(ch)
    /\ LET p == files[map[ch]] IN
       call' = [call EXCEPT
                  ![c].left = @ \ {ch},
                  ![c].gone = IF p = None THEN @ \cup {ch} ELSE @,
                  ![c].others = IF Kind(c) = "propose" /\ IsOther(c, p)
                                THEN {o \in @ : o.id # p.id} \cup {[id |-> p.id, status |-> p.status]}
                                ELSE @]
    /\ UNCHANGED <<files, map, locks, closed, crashes>>

\* ... and drop the channels whose file is gone.
Prune(c) ==
    /\ call[c].pc = "look" /\ call[c].left = {}
    /\ map' = [ch \in Channels |-> IF ch \in call[c].gone THEN None ELSE map[ch]]
    /\ \E other \in Found(c) :
          call' = [call EXCEPT ![c] = IF other # None /\ HasOpenChange(other)
                                      THEN Refused(c) ELSE Following(c)]
    /\ Releases("map")
    /\ UNCHANGED <<files, closed, crashes>>

Step(c) ==
    \/ LockChannel(c) \/ ReadRecord(c) \/ ReadFile(c) \/ DropRecord(c)
    \/ WriteFile(c) \/ RemoveFile(c) \/ WriteRecord(c)
    \/ Peek(c) \/ ListRecords(c) \/ (\E ch \in Channels : LookAt(c, ch)) \/ Prune(c)

-----------------------------------------------------------------------------
(* Requests and crashes.                                                   *)

\* Requests that only read.
Reads == {"get", "list"}

\* The users of a channel wait for the answer to a command.  Reads, and updates
\* of the channel by its watcher and hooks, go on beside it.
MayBegin(req) ==
    \/ req.kind \in Reads
    \/ \A d \in Calls : InFlight(d) /\ Kind(d) \notin Reads =>
            IF Chan(d) = req.chan
            THEN "touch" \in {req.kind, Kind(d)}
            ELSE Overlap

Begin(c) ==
    /\ call[c].pc = "new"
    /\ \E req \in Requests :
          /\ MayBegin(req)
          /\ call' = [call EXCEPT ![c].req = req, ![c].pc = "start"]
    /\ UNCHANGED <<files, map, locks, closed, crashes>>

\* The process dies and starts again; locks left behind become stale.
Crash ==
    /\ crashes < MaxCrashes
    /\ crashes' = crashes + 1
    /\ call' = [c \in Calls |-> IF InFlight(c) THEN [call[c] EXCEPT !.pc = "dead"] ELSE call[c]]
    /\ locks' = [l \in Locks |-> None]
    /\ UNCHANGED <<files, map, closed>>

Next == Crash \/ \E c \in Calls : Begin(c) \/ Step(c)

Spec == Init /\ [][Next]_vars

-----------------------------------------------------------------------------
(* Properties.                                                             *)

\* Types, and a lock has a holder only while its operation is under way.
TypeOK ==
    /\ files \in [Paths -> Projects \cup {None}]
    /\ map \in [Channels -> Paths \cup {None}]
    /\ locks \in [Locks -> Calls \cup {None}]
    /\ closed \subseteq Changes \cup {None}
    /\ crashes \in 0..MaxCrashes
    /\ \A c \in Calls :
         /\ call[c].pc \in Pcs
         /\ call[c].project \in Projects \cup {None}
    /\ \A l \in Locks : locks[l] # None =>
         call[locks[l]].pc \in {"record", "file", "drop", "write", "remove", "map", "look"}

Answered(kind) == {c \in Calls : call[c].pc = "ok" /\ call[c].req.kind = kind}

\* The changes that were proposed, with success, and not finished yet.
OpenChanges(repo) == {c \in Answered("propose") : call[c].project.repo = repo} \ closed

\* README.md:24: "One unfinished change is enforced per repo across channels."
OneChangePerRepo == \A repo \in Repos : \A c, d \in OpenChanges(repo) : c = d

\* A request of another channel that shares a repository updated a record that
\* names channel ch, and so entered it in the map for ch.
EnteredByOther(ch) ==
    \E d \in Calls : call[d].project # None /\ call[d].project.chan = ch /\ Chan(d) # ch

\* The record of an unfinished change is in its repository, from the answer to
\* the proposal until the change is finished: no later request of any channel
\* and no crash between two writes of the store loses it.  And its channel
\* leads there, unless a request of another channel entered something else.
OpenChangesKept ==
    \A repo \in Repos : \A c \in OpenChanges(repo) :
        /\ files[repo] # None /\ files[repo].change = c /\ HasOpenChange(files[repo])
        /\ map[Chan(c)] = repo \/ EnteredByOther(Chan(c))

\* The project of the channel was archived, from this channel or from another
\* one that shares its repository, maybe by a request that a crash left without
\* its answer, or the project is about to enter the map.
Unentered(ch) ==
    \E c \in Calls : /\ call[c].project # None /\ call[c].project.chan = ch
                     /\ \/ Kind(c) = "archive" /\ call[c].pc \in {"ok", "dead"}
                        \/ call[c].pc = "map"

\* A selection that a crash came upon, after it had made its record.
SelectionCut(d) ==
    call[d].pc = "dead" /\ call[d].project # None /\ Kind(d) = "use" /\ call[d].at = 5

\* A selection in another channel, which may move or overwrite the file of this one,
\* or one in this channel that a crash came upon.
Upset(ch) ==
    \E d \in Calls : /\ call[d].req # None /\ Kind(d) = "use" /\ call[d].at = 5
                     /\ Chan(d) # ch \/ SelectionCut(d)

\* Or a selection in this channel that takes over the change of another project.
Displaced(c) ==
    \/ Upset(Chan(c))
    \/ \E d \in Calls : /\ call[d].req # None /\ Kind(d) = "use" /\ call[d].at = 5
                        /\ Resumes(d) /\ call[d].seen.id # call[c].project.id

\* Such a crash may have left the project in two copies.
Doubled(id) == \E d \in Calls : SelectionCut(d) /\ call[d].project.id = id

\* No update is lost, also by a crash: every copy of the record of a project has in
\* it every update of the project that was answered, whoever else writes it, unless
\* a crash came upon a selection that moved the project; and the channel of the
\* update leads to that record until the project is archived or displaced.
UpdatesKept ==
    \A c \in UNION {Answered(kind) : kind \in Kinds \ Reads} :
        /\ \A path \in Paths :
              files[path] # None /\ files[path].id = call[c].project.id
              => c \in files[path].log \/ Doubled(call[c].project.id)
        /\ LET path == map[Chan(c)]
           IN  \/ path # None /\ files[path] # None
                  /\ files[path].id = call[c].project.id
               \/ Unentered(Chan(c)) \/ Displaced(c)

\* Reading, changing and storing a record is one step: what an update is about to
\* store is the record that is on file then, as the update changes it, and the
\* change that a selection takes over is as it was when the selection looked.
UpdatesAtomic ==
    \A c \in Calls : call[c].pc = "write" /\ Op(c) \in {"settle", "update"} =>
        /\ files[call[c].path] # None
        /\ call[c].project = Updated(c, files[call[c].path])
        /\ Op(c) = "update" /\ Kind(c) = "use" /\ Resumes(c) => call[c].seen = files[Repo(c)]

\* What a call waits for is free: its lock, or the lock of the map.
Ready(c) ==
    \/ call[c].pc = "start" /\ Op(c) = "peek"
    \/ call[c].pc = "start" /\ Op(c) = "list" /\ IsFree("map")
    \/ call[c].pc = "start" /\ Op(c) \notin {"peek", "list"} /\ CanLockChannel(c)
    \/ call[c].pc \in {"record", "drop", "map"} /\ IsFree("map")
    \/ call[c].pc \in {"file", "write", "remove"}
    \/ call[c].pc = "look" /\ (call[c].left = {} \/ \E ch \in call[c].left : Readable(ch))

SomeReady == (\E c \in Calls : InFlight(c)) => \E c \in Calls : Ready(c)

\* The locks deadlock nobody: while requests are served, one of them can go
\* on.  (Every request has finitely many steps.)
NoneStuck == SomeReady /\ \A c \in Calls : Ready(c) => ENABLED Step(c)
=============================================================================
