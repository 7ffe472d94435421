---------------------------- MODULE SessionTree ----------------------------
(***************************************************************************)
(* The browser's tree of workspaces (projects), sessions (threads) and     *)
(* timelines: src/web/src/domains/session.ts, useSessionDomain.            *)
(*                                                                         *)
(* The tree is React state.  An operation queues an update; updates that   *)
(* are functions apply to what is queued before them, but an operation     *)
(* also reads the tree of the last render, through its closure or through  *)
(* workspacesRef, and a whole tree it computes from that replaces whatever *)
(* is queued.  So there are two trees: cur, with every queued update       *)
(* applied, and seen, the rendered one.  The effects after a render also   *)
(* save the rendered tree in the local storage of the browser.             *)
(*                                                                         *)
(* Titles, times and the host's name are left out.  Every option of a      *)
(* session that is one value is the field setting, every option that is a  *)
(* list the field flags; an empty setting is "".                           *)
(***************************************************************************)
EXTENDS ProjectSync, Timeline

CONSTANTS
  DefaultPlace,   (* <<"local", "/">> of createWorkspace                    *)
  Answers,        (* what the server may list, [projects, sessions], and a  *)
  Discoveries,    (* discovery find: sequences of [host, sessions]          *)
  StoredTrees,    (* trees an earlier visit may have stored                 *)
  NewID,          (* the session the server creates for a submitted draft   *)
  Bodies,         (* texts of replies                                       *)
  Flags,          (* values in the options that are lists                   *)
  MaxOps          (* bound on the operations                                *)

LocalID(n) == <<"local", n>>          \* session_<time>_<n>, workspace_<time>_<n>
PlaceID(place) == <<"project", place>>            \* project_<host>::<path>

VARIABLES
  cur,      (* workspaces, activeWorkspaceID, activeJobThreadID with every  *)
            (* queued update                                                *)
  seen,     (* the same as last rendered                                    *)
  stored,   (* what the local storage holds                                 *)
  held,     (* what the handler that waits for the server holds in its      *)
            (* closure: the tree it was made on and its session             *)
  born,     (* the server has been asked for the session NewID              *)
  made,     (* the counter of ids: sessions, workspaces and entries         *)
  ops,      (* operations so far                                            *)
  said,     (* ghost: <<session, entry>> that must be in a timeline         *)
  late      (* ghost: a session was activated that had left meanwhile       *)

vars == <<cur, seen, stored, held, born, made, ops, said, late>>

-----------------------------------------------------------------------------
(* Sessions and workspaces.                                                *)

Session(id) ==
  [id |-> id, draft |-> "", timeline |-> <<>>, setting |-> "", flags |-> <<>>,
   job |-> "", last |-> "idle", unread |-> FALSE, pinned |-> FALSE]

NewSession(id) == [Session(id) EXCEPT !.draft = "summary", !.setting = "default"]

Workspace(n, place) ==
  [id |-> LocalID(n), place |-> place, sessions |-> <<NewSession(LocalID(n))>>,
   active |-> LocalID(n)]

DefaultTree(n) ==
  [spaces |-> <<Workspace(n, DefaultPlace)>>, active |-> LocalID(n),
   jobThread |-> LocalID(n)]

IDs(sessions) == {sessions[i].id : i \in DOMAIN sessions}

FirstID(sessions) == IF sessions = <<>> THEN NoID ELSE sessions[1].id

(* The workspace w of a tree by its id, the one find() returns.            *)
SpaceOf(tree, w) == SelectInSeq(tree.spaces, LAMBDA s : s.id = w)

SpaceWith(tree, t) == SelectInSeq(tree.spaces, LAMBDA s : t \in IDs(s.sessions))

ThreadIDs(tree) == UNION {IDs(tree.spaces[i].sessions) : i \in DOMAIN tree.spaces}

(* The session t, as find() returns it: the first one with that id.        *)
Thread(tree, t) ==
  LET s == tree.spaces[SpaceWith(tree, t)].sessions
  IN s[SelectInSeq(s, LAMBDA x : x.id = t)]

(* currentByThreadID, bindThreadID: a scan of all workspaces keeps the     *)
(* last session with that id.                                              *)
LastThread(tree, t) ==
  LET w == SelectLastInSeq(tree.spaces, LAMBDA s : t \in IDs(s.sessions))
      s == tree.spaces[w].sessions
  IN s[SelectLastInSeq(s, LAMBDA x : x.id = t)]

(* activeWorkspace, activeThreadID and activeThread of the rendered tree.  *)
ActiveSpace(tree) ==
  LET i == SpaceOf(tree, tree.active) IN tree.spaces[IF i = 0 THEN 1 ELSE i]

ActiveThreadID(tree) == ActiveSpace(tree).active

ActiveThread(tree) ==
  LET s == ActiveSpace(tree)
  IN IF s.active \in IDs(s.sessions) THEN s.active ELSE FirstID(s.sessions)

(* updateWorkspacesByThread.                                               *)
UpdateThread(tree, t, Update(_)) ==
  [tree EXCEPT !.spaces = [i \in DOMAIN @ |->
     [@[i] EXCEPT !.sessions = [j \in DOMAIN @ |->
        IF @[j].id = t THEN Update(@[j]) ELSE @[j]]]]]

UpdateSpace(tree, w, Update(_)) ==
  [tree EXCEPT !.spaces = [i \in DOMAIN @ |->
     IF @[i].id = w THEN Update(@[i]) ELSE @[i]]]

ReadUnread(sessions, t) ==
  [j \in DOMAIN sessions |->
     IF sessions[j].id = t THEN [sessions[j] EXCEPT !.unread = FALSE] ELSE sessions[j]]

-----------------------------------------------------------------------------
(* bindThreadID: the session `from`, a local draft, becomes the session    *)
(* `to` of the server, which may be in the tree already.                   *)

Either(a, b, empty) == IF a # empty THEN a ELSE b

Merged(source, target) ==
  [target EXCEPT
     !.draft = Either(source.draft, @, ""),
     !.timeline = IF @ # <<>> THEN @ ELSE source.timeline,
     !.setting = Either(source.setting, @, ""),
     !.flags = Either(source.flags, @, <<>>),
     !.job = Either(source.job, @, ""),
     !.last = Either(source.last, @, "idle"),
     !.unread = source.unread \/ @,
     !.pinned = source.pinned \/ @]

(* Mutation: the session of the server wins.                               *)
MergedFromServer(source, target) == target

DistinctSessions(sessions) ==
  FoldLeft(LAMBDA out, x : IF x.id \in IDs(out) THEN out ELSE Append(out, x), <<>>, sessions)

(* The draft is in the tree and the session is not: it gets the new id.    *)
Renamed(tree, from, to) ==
  [tree EXCEPT !.spaces = [i \in DOMAIN @ |->
     [@[i] EXCEPT
        !.sessions = DistinctSessions([j \in DOMAIN @ |->
          IF @[j].id = from THEN [@[j] EXCEPT !.id = to] ELSE @[j]]),
        !.active = IF @ = from THEN to ELSE @]]]

(* Both are: the session takes what the draft holds, and the draft leaves. *)
(* A workspace whose active session leaves falls back to its first one.    *)
MergedInto(tree, from, to, Merge(_, _)) ==
  LET draft == LastThread(tree, from)
      Rest(sessions) == DistinctSessions(
        SelectSeq([j \in DOMAIN sessions |->
                     IF sessions[j].id = to THEN Merge(draft, sessions[j]) ELSE sessions[j]],
                  LAMBDA x : x.id # from))
  IN [tree EXCEPT !.spaces = [i \in DOMAIN @ |->
        [@[i] EXCEPT !.sessions = Rest(@),
                     !.active = IF @ = from THEN FirstID(Rest(tree.spaces[i].sessions))
                                ELSE @]]]

(* Mutation: see MergedFromServer.                                         *)
BoundFromServer(tree, from, to) ==
  CASE SpaceWith(tree, from) = 0 -> tree
    [] SpaceWith(tree, to) = 0   -> Renamed(tree, from, to)
    [] OTHER                     -> MergedInto(tree, from, to, MergedFromServer)

Bound(tree, from, to) ==
  CASE SpaceWith(tree, from) = 0 -> tree
    [] SpaceWith(tree, to) = 0   -> Renamed(tree, from, to)
    [] OTHER                     -> MergedInto(tree, from, to, Merged)

-----------------------------------------------------------------------------
(* syncProjectsFromDiscovery: the tree from a list of projects, computed   *)
(* from the rendered tree `view`.                                          *)

(* The workspace a listed project continues: by the project's id, else by  *)
(* its place (the last one there).                                         *)
Existing(view, project) ==
  LET byID == SelectInSeq(view.spaces, LAMBDA s : s.id = project.id)
  IN IF project.id # NoID /\ byID > 0 THEN byID
     ELSE SelectLastInSeq(view.spaces, LAMBDA s : s.place = project.place)

(* A listed session keeps everything that is known of it, but its title.   *)
Listed(view, t) ==
  IF t \in ThreadIDs(view) THEN LastThread(view, t) ELSE [Session(t) EXCEPT !.setting = "default"]

SyncedSpace(view, project, keepSessions) ==
  LET e == Existing(view, project)
      listed == [j \in DOMAIN project.sessions |-> Listed(view, project.sessions[j])]
      prior == IF e > 0 /\ keepSessions THEN view.spaces[e].sessions ELSE <<>>
      sessions == DistinctSessions(listed \o prior)
  IN [id |-> IF project.id # NoID THEN project.id
             ELSE IF e > 0 THEN view.spaces[e].id ELSE PlaceID(project.place),
      place |-> project.place,
      sessions |-> sessions,
      active |-> IF e > 0 /\ view.spaces[e].active \in IDs(sessions)
                 THEN view.spaces[e].active ELSE FirstID(sessions)]

(* keepProjects: workspaces that are not listed stay, except those of a    *)
(* host that is listed no more.                                            *)
SyncedSpaces(view, answer, keepSessions, keepProjects) ==
  LET listed == [k \in DOMAIN answer |-> SyncedSpace(view, answer[k], keepSessions)]
      hosts == {answer[k].place[1] : k \in DOMAIN answer}
      Stays(s) == /\ keepProjects
                  /\ s.id \notin {listed[k].id : k \in DOMAIN listed}
                  /\ hosts = {} \/ s.place[1] \in hosts
  IN listed \o SelectSeq(view.spaces, Stays)

(* The active workspace stays, by its id or else by its place.             *)
SyncedActive(view, spaces) ==
  LET ids == {spaces[i].id : i \in DOMAIN spaces}
      was == SpaceOf(view, view.active)
      same == IF was = 0 THEN 0
              ELSE SelectInSeq(spaces, LAMBDA s : s.place = view.spaces[was].place)
  IN IF view.active \in ids THEN view.active
     ELSE IF same > 0 THEN spaces[same].id ELSE spaces[1].id

(* The tree of these workspaces; the discovery keeps a tree when nothing   *)
(* is left, the server's list makes a new workspace with the number n.     *)
Synced(now, view, spaces, fromServer, n) ==
  LET tree == [spaces |-> spaces, active |-> SyncedActive(view, spaces), jobThread |-> NoID]
  IN IF spaces # <<>> THEN [tree EXCEPT !.jobThread = ActiveThreadID(tree)]
     ELSE IF fromServer \/ view.spaces = <<>> THEN DefaultTree(n)
     ELSE now

-----------------------------------------------------------------------------
(* The operations.                                                         *)

Idle == [phase |-> "idle"]

Entries(tree) ==
  UNION {{<<x.id, x.timeline[k].id>> : k \in DOMAIN x.timeline} :
           x \in UNION {ToSet(tree.spaces[i].sessions) : i \in DOMAIN tree.spaces}}

(* An operation that queues an update and reads nothing but its arguments. *)
Queue(tree) ==
  /\ ops < MaxOps
  /\ ops' = ops + 1
  /\ cur' = tree
  /\ said' = {p \in said : p[1] \in ThreadIDs(tree)} \cup (Entries(tree) \ Entries(cur))
  /\ UNCHANGED <<seen, stored, held, born, late>>

Update(t, New(_)) == Queue(UpdateThread(cur, t, New)) /\ made' = made

(* The session a handler was made for: any that is or was just rendered.   *)
Known == ThreadIDs(seen) \cup ThreadIDs(cur)

WithActive(tree, w, t) ==
  UpdateSpace(tree, w, LAMBDA s : [s EXCEPT !.active = t, !.sessions = ReadUnread(@, t)])

(* activateThread finds the workspace in the rendered tree and does not    *)
(* look whether the session is still in it.                                *)
ActivateThread(t) ==
  /\ ops < MaxOps
  /\ SpaceWith(seen, t) > 0
  /\ LET w == seen.spaces[SpaceWith(seen, t)].id
     IN /\ cur' = [WithActive(cur, w, t) EXCEPT !.active = w]
        /\ late' = (late \/ \E i \in DOMAIN cur.spaces :
                              cur.spaces[i].id = w /\ t \notin IDs(cur.spaces[i].sessions))
  /\ ops' = ops + 1
  /\ UNCHANGED <<seen, stored, held, born, made, said>>

(* setActiveThreadID; switchThreadByOffset calls it for a neighbour.       *)
SetActiveThreadID(t) ==
  /\ \E i \in DOMAIN cur.spaces :
        cur.spaces[i].id = seen.active /\ t \in IDs(cur.spaces[i].sessions)
  /\ Queue(WithActive(cur, seen.active, t)) /\ made' = made

SwitchThreadByOffset(offset) ==
  LET s == ActiveSpace(seen).sessions
      at == SelectInSeq(s, LAMBDA x : x.id = ActiveThreadID(seen))
      n == Len(s)
  IN /\ n > 0
     /\ SetActiveThreadID(s[(((IF at = 0 THEN 0 ELSE at - 1) + offset + n) % n) + 1].id)

SetActiveWorkspaceID(w) == Queue([cur EXCEPT !.active = w]) /\ made' = made

UpdateThreadDraft(t, draft) == Update(t, LAMBDA x : [x EXCEPT !.draft = draft])

(* addTimelineEntry, of an entry that is no noise.                         *)
AddTimelineEntry(t, kind) ==
  /\ Queue(UpdateThread(cur, t, LAMBDA x :
             [x EXCEPT !.timeline = Append(@, Entry(made + 1, kind, "none", "text"))]))
  /\ made' = made + 1

UpsertAssistantStreamEntry(t, body) ==
  /\ Queue(UpdateThread(cur, t, LAMBDA x :
             [x EXCEPT !.timeline = Upserted(@, made + 1, body)]))
  /\ made' = made + 1

FinalizeAssistantStreamEntry(t, state, body) ==
  /\ Queue(UpdateThread(cur, t, LAMBDA x :
             [x EXCEPT !.timeline = Finalized(@, made + 1, state, body)]))
  /\ made' = made + 1

(* createThread does nothing when the active workspace is gone.            *)
CreateThread ==
  /\ Queue(UpdateSpace(cur, seen.active, LAMBDA s :
             [s EXCEPT !.sessions = Append(@, NewSession(LocalID(made + 1))),
                       !.active = LocalID(made + 1)]))
  /\ made' = made + 1

(* A fork copies the rendered session, with its timeline, and runs nothing.*)
ForkThread(t) ==
  LET fork == [Thread(seen, t) EXCEPT !.id = LocalID(made + 1), !.job = "", !.last = "idle",
                                      !.unread = FALSE, !.pinned = FALSE]
      w == seen.spaces[SpaceWith(seen, t)].id
  IN /\ SpaceWith(seen, t) > 0
     /\ Queue([UpdateSpace(cur, w, LAMBDA s :
                 [s EXCEPT !.sessions = Append(@, fork), !.active = fork.id])
               EXCEPT !.active = w])
     /\ made' = made + 1

(* The session after the removed one takes its place, or else the last one.*)
WithoutThread(s, t) ==
  LET at == SelectInSeq(s.sessions, LAMBDA x : x.id = t)
      rest == SelectSeq(s.sessions, LAMBDA x : x.id # t)
  IN IF at = 0 THEN s
     ELSE [s EXCEPT !.sessions = rest,
                    !.active = IF @ # t THEN @
                               ELSE IF rest = <<>> THEN NoID
                               ELSE rest[IF at <= Len(rest) THEN at ELSE Len(rest)].id]

(* removeThread, made on the tree view, learns in the updater whether      *)
(* something was removed and what to fall back to; React may run the       *)
(* updater at once only when nothing is queued, and otherwise the rest is  *)
(* skipped.                                                                *)
RemoveThread(view, t, eager) ==
  LET removed == [cur EXCEPT !.spaces = [i \in DOMAIN @ |-> WithoutThread(@[i], t)]]
      w == IF SpaceOf(removed, view.active) > 0 THEN view.active ELSE removed.spaces[1].id
  IN /\ eager => cur = seen /\ t \in ThreadIDs(cur)
     /\ ops < MaxOps
     /\ cur' = IF ~eager THEN removed
               ELSE [removed EXCEPT
                       !.active = IF w # view.active THEN w ELSE @,
                       !.jobThread = IF view.jobThread # t THEN @
                                     ELSE removed.spaces[SpaceOf(removed, w)].active]
     /\ said' = {p \in said : p[1] # t}
     /\ ops' = ops + 1
     /\ UNCHANGED <<seen, stored, born, made, late>>

IsLocalDraftSessionID(t) == t[1] = "local"

(* onArchiveActiveSession: a draft is removed at once, a session of the    *)
(* server when the server has archived it.  A session that runs, or whose  *)
(* submission in progress was rendered, gets an entry instead.             *)
Blocked(t) ==
  \/ Thread(seen, t).job # ""
  \/ held.phase = "creating" /\ held.from = t /\ held.tree # seen

ArchiveDraft(eager) ==
  LET t == ActiveThread(seen)
  IN /\ IsLocalDraftSessionID(t) /\ ~Blocked(t)
     /\ RemoveThread(seen, t, eager)
     /\ UNCHANGED held

Archive ==
  LET t == ActiveThread(seen)
  IN /\ held = Idle
     /\ t # NoID /\ ~IsLocalDraftSessionID(t) /\ ~Blocked(t)
     /\ held' = [phase |-> "archiving", tree |-> seen, from |-> t]
     /\ UNCHANGED <<cur, seen, stored, born, made, ops, said, late>>

Archived(eager) ==
  /\ held.phase = "archiving"
  /\ RemoveThread(held.tree, held.from, eager)
  /\ held' = Idle

(* setThreadModel, setThreadCodexMode, ... setThreadProfile.               *)
SetOption(t, value) == Update(t, LAMBDA x : [x EXCEPT !.setting = value])

(* addThreadConfigFlag, ... addThreadAddDir add a value once.              *)
AddFlag(t, value) ==
  Update(t, LAMBDA x : [x EXCEPT !.flags = IF Contains(@, value) THEN @ ELSE Append(@, value)])

RemoveFlag(t, value) ==
  Update(t, LAMBDA x : [x EXCEPT !.flags = SelectSeq(@, LAMBDA v : v # value)])

(* setThreadJobState.                                                      *)
SetThreadJobState(t, job, status) == Update(t, LAMBDA x : JobState(x, job, status))

SetThreadUnread(t, unread) == Update(t, LAMBDA x : [x EXCEPT !.unread = unread])

SetThreadPinned(t, pinned) == Update(t, LAMBDA x : [x EXCEPT !.pinned = pinned])

(* The prompt of a local draft is submitted: the closure of the handler    *)
(* keeps this tree until the server has created the session.               *)
Submit ==
  LET t == ActiveThread(seen)
  IN /\ held = Idle
     /\ ops < MaxOps
     /\ ~born /\ IsLocalDraftSessionID(t)
     /\ held' = [phase |-> "creating", tree |-> seen, from |-> t]
     /\ born' = TRUE
     /\ cur' = UpdateThread(cur, t, LAMBDA x :
                 [x EXCEPT !.timeline = Append(@, Entry(made + 1, "user", "none", "text")),
                           !.draft = ""])
     /\ said' = said \cup (Entries(cur') \ Entries(cur))
     /\ made' = made + 1
     /\ ops' = ops + 1
     /\ UNCHANGED <<seen, stored, late>>

(* What must be in a timeline after a bind: the draft's entries move to    *)
(* the session of the server unless that one has entries of its own.       *)
SaidOnceBound(from, to) ==
  LET moves == SpaceWith(cur, to) = 0 \/ LastThread(cur, to).timeline = <<>>
  IN {p \in said : p[1] # from} \cup
     (IF moves THEN {<<to, p[2]>> : p \in {q \in said : q[1] = from}} ELSE {})

(* bindThreadID: where the sessions are is read from the tree of the       *)
(* submission, what is done from the queued one.                           *)
BindThreadID ==
  LET from == held.from
      view == held.tree
      w == IF SpaceWith(view, NewID) > 0 THEN view.spaces[SpaceWith(view, NewID)].id
           ELSE view.spaces[SpaceWith(view, from)].id
      bound == Bound(cur, from, NewID)
  IN /\ held.phase = "creating"
     /\ ops < MaxOps
     /\ cur' = [bound EXCEPT
                  !.active = IF view.active = view.spaces[SpaceWith(view, from)].id THEN w ELSE @,
                  !.jobThread = IF view.jobThread = from THEN NewID ELSE @]
     /\ said' = IF SpaceWith(cur, from) = 0 THEN said ELSE SaidOnceBound(from, NewID)
     /\ held' = Idle
     /\ ops' = ops + 1
     /\ UNCHANGED <<seen, stored, born, made, late>>

(* The server refuses, or does not answer: an entry says so.               *)
RequestFails ==
  /\ held # Idle
  /\ ops < MaxOps
  /\ cur' = UpdateThread(cur, held.from, LAMBDA x :
              [x EXCEPT !.timeline = Append(@, Entry(made + 1, "system", "error", "text"))])
  /\ said' = said \cup (Entries(cur') \ Entries(cur))
  /\ held' = Idle
  /\ made' = made + 1
  /\ ops' = ops + 1
  /\ UNCHANGED <<seen, stored, born, late>>

(* reconcileFromSessionRecords: the records of the server correct what the *)
(* tree says of a session's run, as far as it differs in the tree `view`   *)
(* the request was made on; nobody knows how old the records are.          *)
Reconciled(tree, view, records) ==
  LET Run(x, r) == IF r.last = "running" THEN Either(r.run, x.job, "") ELSE ""
      Differs(r) == /\ r.id \in ThreadIDs(view)
                    /\ LET x == LastThread(view, r.id) IN x.job # Run(x, r) \/ x.last # r.last
      Corrected(t, r) ==
        IF ~Differs(r) THEN t
        ELSE UpdateThread(t, r.id, LAMBDA x : JobState(x, Run(LastThread(view, r.id), r), r.last))
  IN FoldLeft(Corrected, tree, records)

(* refreshProjectsFromSource and its fallback: the server's lists, unless  *)
(* they fail or hold no session, and then what a discovery finds.  The     *)
(* lists can hold the new session once the server was asked for it.        *)
Refreshed(tree) ==
  /\ ops < MaxOps
  /\ cur' = tree
  /\ said' = IF tree = cur THEN said
             ELSE {p \in said : p \in Entries(seen) /\ p[1] \in ThreadIDs(tree)}
  /\ made' = made + 1
  /\ ops' = ops + 1
  /\ UNCHANGED <<seen, stored, held, born, late>>

HasSessions(projects) == \E i \in DOMAIN projects : projects[i].sessions # <<>>

Lists(records, id) == \E i \in DOMAIN records : records[i].id = id

SyncFromServer(view, answer) ==
  \E built \in {BuildProjectsFromRecords(answer.projects, answer.sessions)} :
    /\ HasSessions(built)
    /\ Lists(answer.sessions, NewID) => born
    /\ \E spaces \in {SyncedSpaces(seen, built, FALSE, FALSE)} :
         \E synced \in {Synced(cur, seen, spaces, TRUE, made + 1)} :
           \E tree \in {Reconciled(synced, view, answer.sessions)} : Refreshed(tree)

SyncFromDiscovery(targets) ==
  /\ \A i \in DOMAIN targets : Lists(targets[i].sessions, NewID) => born
  /\ \E spaces \in {SyncedSpaces(seen, BuildDiscoveredProjects(targets), TRUE, TRUE)} :
       \E tree \in {Synced(cur, seen, spaces, FALSE, made + 1)} : Refreshed(tree)

(* resetSessionDomain: logging out drops the tree and what is stored.      *)
ResetSessionDomain ==
  /\ ops < MaxOps
  /\ cur' = DefaultTree(made + 1)
  /\ stored' = <<>>
  /\ said' = {}
  /\ made' = made + 1
  /\ ops' = ops + 1
  /\ UNCHANGED <<seen, held, born, late>>

(* React renders what is queued, and the effects save it.                  *)
Render ==
  /\ seen # cur
  /\ seen' = cur
  /\ stored' = <<cur>>
  /\ UNCHANGED <<cur, held, born, made, ops, said, late>>

(* normalizeWorkspace and loadPersistedState.                              *)
Loaded(tree) ==
  LET Normal(s) == [s EXCEPT !.active = IF @ \in IDs(s.sessions) THEN @ ELSE FirstID(s.sessions)]
      loaded == [tree EXCEPT !.spaces = [i \in DOMAIN @ |-> Normal(@[i])]]
      active == IF SpaceOf(tree, tree.active) > 0 THEN tree.active ELSE tree.spaces[1].id
  IN [loaded EXCEPT !.active = active,
                    !.jobThread = loaded.spaces[SpaceOf(tree, active)].active]

(* The page is reloaded: what was not rendered is gone, and so are the     *)
(* requests in progress.  normalizeSession gives back a session as it was  *)
(* stored: the server says later whether its run goes on.                  *)
Reload ==
  /\ ops < MaxOps
  /\ cur' = IF stored = <<>> THEN DefaultTree(made + 1) ELSE Loaded(stored[1])
  /\ seen' = cur'
  /\ stored' = <<cur'>>
  /\ said' = IF stored = <<>> THEN {} ELSE said \cap Entries(stored[1])
  /\ held' = Idle
  /\ late' = FALSE
  /\ made' = made + 1
  /\ ops' = ops + 1
  /\ UNCHANGED born

(* The page starts with the default tree, or with one it has stored.       *)
Init ==
  /\ \/ cur = DefaultTree(1)
     \/ \E tree \in StoredTrees : cur = Loaded(tree)
  /\ seen = cur
  /\ stored = <<cur>>
  /\ held = Idle
  /\ born = FALSE
  /\ made = 3
  /\ ops = 0
  /\ said = Entries(cur)
  /\ late = FALSE

SessionOps(t) ==
  \/ ActivateThread(t)
  \/ SetActiveThreadID(t)
  \/ UpdateThreadDraft(t, "text")
  \/ AddTimelineEntry(t, "system")
  \/ \E body \in Bodies : UpsertAssistantStreamEntry(t, body)
  \/ \E state \in {"success", "error"}, body \in Bodies \cup {NoBody} :
        FinalizeAssistantStreamEntry(t, state, body)
  \/ ForkThread(t)
  \/ SetOption(t, "chosen")
  \/ \E value \in Flags : AddFlag(t, value) \/ RemoveFlag(t, value)
  \/ SetThreadJobState(t, "run", "") \/ SetThreadJobState(t, "", "failed")
  \/ SetThreadUnread(t, TRUE) \/ SetThreadPinned(t, TRUE)

WorkspaceOps ==
  \/ CreateThread
  \/ SwitchThreadByOffset(1)
  \/ \E i \in DOMAIN seen.spaces : SetActiveWorkspaceID(seen.spaces[i].id)
  \/ \E answer \in Answers, view \in {seen} \cup (IF held = Idle THEN {} ELSE {held.tree}) :
        SyncFromServer(view, answer)
  \/ \E targets \in Discoveries : SyncFromDiscovery(targets)
  \/ ResetSessionDomain

Next ==
  \/ \E t \in Known : SessionOps(t)
  \/ WorkspaceOps
  \/ \E eager \in BOOLEAN : ArchiveDraft(eager) \/ Archived(eager)
  \/ Archive
  \/ Submit
  \/ BindThreadID
  \/ RequestFails
  \/ Render
  \/ Reload

Spec == Init /\ [][Next]_vars

-----------------------------------------------------------------------------
(* Properties.                                                             *)

SessionsOf(tree) == UNION {ToSet(tree.spaces[i].sessions) : i \in DOMAIN tree.spaces}

TypeOK ==
  /\ \A tree \in {cur, seen} \cup ToSet(stored) :
       /\ tree.spaces # <<>>
       /\ \A x \in SessionsOf(tree) :
            /\ x.draft \in {"", "text", "summary"}
            /\ x.setting \in {"", "default", "chosen"}
            /\ x.job \in {"", "run"}
            /\ x.last \in {"idle", "running", "failed"}
            /\ \A k \in DOMAIN x.timeline :
                 /\ x.timeline[k].id \in 1..made
                 /\ x.timeline[k].state \in {"none", "running", "success", "error"}
  /\ held.phase \in {"idle", "creating", "archiving"}
  /\ ops \in 0..MaxOps

(* No two workspaces and no two sessions of a workspace have the same id,  *)
(* whatever is listed, bound or created meanwhile: React would mix them up *)
(* and an update of one would change both.                                 *)
DistinctIDs ==
  /\ IsInjective([i \in DOMAIN cur.spaces |-> cur.spaces[i].id])
  /\ \A i \in DOMAIN cur.spaces :
       LET s == cur.spaces[i].sessions IN IsInjective([j \in DOMAIN s |-> s[j].id])

(* A timeline shows at most one reply that is still being written: the     *)
(* stream looks for the running entry before it adds one, wherever other   *)
(* entries were put after it (upsertAssistantStreamEntry).                 *)
OneRunningReply ==
  \A x \in SessionsOf(cur) :
    Cardinality({k \in DOMAIN x.timeline :
      x.timeline[k].kind = "assistant" /\ x.timeline[k].state = "running"}) <= 1

(* What was added to a timeline stays in it, through binding the draft to  *)
(* the session of the server, lists of projects, forks and reloads.  Only  *)
(* these drop entries: removing the session, a list of the server without  *)
(* the session, a draft bound to a session that has entries of its own,    *)
(* and a list or a reload that comes before the entry was rendered.        *)
NothingLost == said \subseteq Entries(cur)

(* The active session of a workspace is one of its sessions, unless it was *)
(* activated by a click on a rendered tree that it had left meanwhile.     *)
ActiveKnown ==
  late \/ \A i \in DOMAIN cur.spaces :
            LET s == cur.spaces[i]
            IN s.active \in IDs(s.sessions) \cup (IF s.sessions = <<>> THEN {NoID} ELSE {})

=============================================================================
