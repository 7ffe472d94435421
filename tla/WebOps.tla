------------------------------- MODULE WebOps -------------------------------
(***************************************************************************)
(* What the user administers in the browser: the hosts and the targets of  *)
(* runs, the jobs, commands to a host's codex and the projects             *)
(* (src/web/src/features/session/host-actions.ts, workspace-auth-actions.ts*)
(* ops-job-actions.ts, use-ops-polling.ts, platform-actions.ts,            *)
(* project-actions.ts and project-source-actions.ts), with the server's    *)
(* records (src/server/internal/store/store.go), which other clients       *)
(* change too.                                                             *)
(*                                                                         *)
(* A handler asks the server several times, and between two answers the    *)
(* page and the server go on: each handler in progress is a task with the  *)
(* step it waits at and what its closure holds.  A project is its place    *)
(* (its id is made of host and path); notices are left out.                *)
(***************************************************************************)
EXTENDS Naturals, FiniteSets, SequencesExt

CONSTANTS
  Places,         (* places of projects                                     *)
  ActiveHost,     (* the host of the active workspace                       *)
  MaxTasks,       (* bound on the handlers in progress                      *)
  MaxOps          (* bound on what users and the network do                 *)

NoHost == 0

VARIABLES
  hosts,    (* the server's hosts, in order: [id, local]                    *)
  projects, (* its projects                                                 *)
  sessions, (* projects that have a session                                 *)
  starting, (* projects a session is being started in                       *)
  writing,  (* projects a session of which a handler has read and will write*)
  job,      (* its job: "none", "running" or "ended"                        *)
  page,     (* the browser                                                  *)
  tasks,    (* handlers in progress                                         *)
  made,     (* ids of hosts so far                                          *)
  ops,      (* operations so far                                            *)
  raced     (* ghost: projects deleted under such a handler, and not made   *)
            (* again since                                                  *)

vars == <<hosts, projects, sessions, starting, writing, job, page, tasks, made, ops, raced>>
server == <<hosts, projects, sessions, starting, writing, job, made, raced>>

-----------------------------------------------------------------------------
(* The server's records.                                                   *)

HostIDs(list) == {list[i].id : i \in DOMAIN list}

UpsertHost(host) ==
  LET i == SelectInSeq(hosts, LAMBDA h : h.id = host.id)
  IN IF i > 0 THEN [hosts EXCEPT ![i] = host] ELSE Append(hosts, host)

DeleteHost(id) == RemoveAt(hosts, SelectInSeq(hosts, LAMBDA h : h.id = id))

(* Mutation: the sessions of the project are not counted.                  *)
DeleteAnyProject(place) == projects \ {place}

(* DeleteProject: a project with sessions stays.                           *)
DeleteProject(place) == IF place \in sessions THEN projects ELSE projects \ {place}

-----------------------------------------------------------------------------
(* The page.                                                               *)

EmptyPage ==
  [auth |-> "locked", hosts |-> <<>>, all |-> TRUE, selected |-> {}, filter |-> FALSE,
   editing |-> NoHost, form |-> "", adding |-> FALSE, busy |-> NoHost, refreshing |-> FALSE,
   jobs |-> "none", active |-> "none", sources |-> {}, filled |-> {}, saving |-> FALSE,
   deleting |-> FALSE, platform |-> NoHost, section |-> ""]

(* resetOpsDomain.                                                         *)
ResetOpsDomain(p) ==
  [EmptyPage EXCEPT !.sources = p.sources, !.filled = p.filled, !.saving = p.saving,
                    !.deleting = p.deleting, !.platform = NoHost, !.section = p.section]

(* The platform panel follows the hosts.                                   *)
PlatformHost(p) ==
  LET ids == HostIDs(p.hosts)
  IN IF p.platform \in ids THEN p.platform
     ELSE IF p.hosts = <<>> THEN NoHost
     ELSE IF ActiveHost \in ids THEN ActiveHost
     ELSE p.hosts[1].id

(* Mutation: the hosts that were selected stay so without a local host.    *)
UnprunedTargets(p, list) ==
  LET local == SelectInSeq(list, LAMBDA h : h.local)
  IN IF local > 0 THEN {list[local].id}
     ELSE IF p.selected # {} \/ list = <<>> THEN p.selected
     ELSE {list[1].id}

(* The targets of runs: the local host, or what is left of the selected.   *)
Targets(p, list) ==
  LET local == SelectInSeq(list, LAMBDA h : h.local)
      left == p.selected \cap HostIDs(list)
  IN IF local > 0 THEN {list[local].id}
     ELSE IF left # {} \/ list = <<>> THEN left
     ELSE {list[1].id}

(* loadWorkspace with the hosts and jobs of the server.                    *)
WithLists(p, got) ==
  LET q == [p EXCEPT
              !.hosts = got.hosts, !.selected = Targets(p, got.hosts),
              !.all = @ /\ \A i \in DOMAIN got.hosts : ~got.hosts[i].local,
              !.jobs = got.job]
  IN [q EXCEPT !.platform = PlatformHost(q)]

(* filteredHosts: the hosts the side bar shows.                            *)
Shown == {h \in ToSet(page.hosts) : page.filter => ~h.local}

CanRun == page.auth = "ready"

-----------------------------------------------------------------------------
(* Handlers.                                                               *)

NoLists == [hosts |-> <<>>, job |-> "none"]

Task(kind, on, held, step) ==
  [n |-> ops, kind |-> kind, on |-> on, held |-> held, step |-> step, got |-> NoLists]

Op == ops < MaxOps /\ ops' = ops + 1

Begin(p, task) ==
  /\ Op /\ Cardinality(tasks) < MaxTasks
  /\ page' = p
  /\ tasks' = tasks \cup {task}
  /\ UNCHANGED server

Touch(p) == Op /\ page' = p /\ UNCHANGED <<server, tasks>>

Goes(t, step) == tasks' = (tasks \ {t}) \cup {[t EXCEPT !.step = step]}

(* The finally of each handler.                                            *)
Finished(p, t) ==
  CASE t.kind = "save"               -> [p EXCEPT !.adding = FALSE]
    [] t.kind \in {"probe", "delete"} -> [p EXCEPT !.busy = NoHost]
    [] t.kind = "project"            -> [p EXCEPT !.saving = FALSE]
    [] t.kind = "archive"            -> [p EXCEPT !.deleting = FALSE]
    [] t.kind = "platform"           -> [p EXCEPT !.section = ""]
    [] OTHER                         -> p

Ends(p, t) == page' = Finished(p, t) /\ tasks' = tasks \ {t}

Loading == {"lists", "ensure", "relist"}

(* A call fails.  A failed login locks the page; without the lists of the  *)
(* projects none is taken for a recorded one.                              *)
Fails(t) ==
  LET p == IF t.step \in Loading THEN [page EXCEPT !.refreshing = FALSE]
           ELSE IF t.step = "projects" THEN [page EXCEPT !.sources = {}]
           ELSE page
  IN /\ Op /\ t.step \notin {"land", "sources", "resolve", "count"}
     /\ Ends(IF t.kind = "unlock" THEN [p EXCEPT !.auth = "locked"] ELSE p, t)
     /\ UNCHANGED server

(* loadWorkspace: the lists are read; without a local host one is made and *)
(* the hosts are read again (ensureLocalCodexHost).                        *)
Lists(t) == [t.got EXCEPT !.hosts = hosts, !.job = job]

ListsRead(t) ==
  LET read == [t EXCEPT !.got = Lists(t)]
      local == \E i \in DOMAIN hosts : hosts[i].local
  IN /\ t.step \in {"lists", "relist"}
     /\ tasks' = (tasks \ {t}) \cup
                 {[read EXCEPT !.step = IF local \/ t.step = "relist" THEN "land" ELSE "ensure"]}
     /\ UNCHANGED <<server, page, ops>>

EnsureLocalCodexHost(t) ==
  /\ t.step = "ensure"
  /\ hosts' = Append(hosts, [id |-> made + 1, local |-> TRUE])
  /\ made' = made + 1
  /\ Goes(t, "relist")
  /\ UNCHANGED <<projects, sessions, starting, writing, job, page, ops, raced>>

ListsLand(t) ==
  /\ t.step = "land"
  /\ page' = WithLists(page, t.got)
  /\ Goes(t, "sources")
  /\ UNCHANGED <<server, ops>>

(* The projects follow (refreshProjectsFromSource), and the job that was   *)
(* read with the hosts becomes the active one.  The projects are those of  *)
(* the server when they have a session; otherwise, and without an answer,  *)
(* those of a discovery, which have no records.                            *)
SourcesLand(t, ok) ==
  LET p == [page EXCEPT !.sources = IF ok /\ sessions # {} THEN projects ELSE {},
                        !.filled = IF ok THEN sessions ELSE @,
                        !.active = IF t.got.job = "running" THEN "running" ELSE "none",
                        !.refreshing = FALSE]
  IN /\ t.step = "sources"
     /\ IF ok THEN ops' = ops ELSE Op
     /\ Ends(IF t.kind = "unlock" THEN [p EXCEPT !.auth = "ready"] ELSE p, t)
     /\ UNCHANGED server

(* unlockWorkspace, onRefreshWorkspace and onLogout.                       *)
Unlock ==
  /\ page.auth = "locked"
  /\ Begin([page EXCEPT !.auth = "checking", !.refreshing = TRUE],
           Task("unlock", NoHost, NoHost, "lists"))

Refresh ==
  /\ CanRun /\ ~page.refreshing
  /\ Begin([page EXCEPT !.refreshing = TRUE], Task("refresh", NoHost, NoHost, "lists"))

Logout == CanRun /\ Touch(ResetOpsDomain(page))

-----------------------------------------------------------------------------
(* Hosts and targets.                                                      *)

ToggleHostSelection(h) ==
  /\ ~page.all
  /\ Touch([page EXCEPT !.selected = IF h.id \in @ THEN @ \ {h.id} ELSE @ \cup {h.id}])

SetAllHosts == CanRun /\ Touch([page EXCEPT !.all = ~@])

SetFilter == CanRun /\ Touch([page EXCEPT !.filter = ~@])

StartEditHost(h) ==
  /\ page.busy # h.id
  /\ Touch([page EXCEPT !.editing = h.id, !.form = IF h.local THEN "local" ELSE "ssh"])

CancelHostEdit ==
  /\ page.editing # NoHost
  /\ Touch([page EXCEPT !.editing = NoHost, !.form = ""])

FillForm(mode) == CanRun /\ page.form # mode /\ Touch([page EXCEPT !.form = mode])

AddHost ==
  /\ CanRun /\ page.form # "" /\ ~page.adding
  /\ Begin([page EXCEPT !.adding = TRUE], Task("save", page.editing, page.form, "call"))

HostSaved(t) ==
  /\ t.kind = "save" /\ t.step = "call"
  /\ hosts' = UpsertHost([id |-> IF t.on = NoHost THEN made + 1 ELSE t.on,
                          local |-> t.held = "local"])
  /\ made' = IF t.on = NoHost THEN made + 1 ELSE made
  /\ page' = [page EXCEPT !.form = "", !.editing = NoHost, !.refreshing = TRUE]
  /\ Goes(t, "lists")
  /\ UNCHANGED <<projects, sessions, starting, writing, job, ops, raced>>

ProbeHost(h) ==
  /\ CanRun /\ page.busy # h.id
  /\ Begin([page EXCEPT !.busy = h.id], Task("probe", h.id, NoHost, "call"))

Probed(t) ==
  /\ t.kind = "probe"
  /\ Ends(page, t)
  /\ UNCHANGED <<server, ops>>

(* The closure holds the host that was edited at the click.                *)
AskDeleteHost(h) ==
  /\ CanRun /\ page.busy # h.id
  /\ Begin([page EXCEPT !.busy = h.id], Task("delete", h.id, page.editing, "call"))

HostDeleted(t) ==
  LET p == [page EXCEPT !.selected = @ \ {t.on}, !.refreshing = TRUE]
  IN /\ t.kind = "delete" /\ t.step = "call"
     /\ t.on \in HostIDs(hosts)
     /\ hosts' = DeleteHost(t.on)
     /\ page' = IF t.held = t.on THEN [p EXCEPT !.editing = NoHost, !.form = ""] ELSE p
     /\ Goes(t, "lists")
     /\ UNCHANGED <<projects, sessions, starting, writing, job, made, ops, raced>>

(* Another client deletes a host.                                          *)
HostLeaves(id) ==
  /\ Op
  /\ id \in HostIDs(hosts)
  /\ hosts' = DeleteHost(id)
  /\ UNCHANGED <<projects, sessions, starting, writing, job, page, tasks, made, raced>>

-----------------------------------------------------------------------------
(* Jobs.                                                                   *)

JobRuns ==
  /\ Op /\ job # "ended"
  /\ job' = IF job = "none" THEN "running" ELSE "ended"
  /\ UNCHANGED <<hosts, projects, sessions, starting, writing, page, tasks, made, raced>>

CancelJob ==
  /\ CanRun /\ "running" \in {page.jobs, page.active}
  /\ Begin(page, Task("cancel", NoHost, NoHost, "call"))

JobCanceled(t) ==
  /\ t.kind = "cancel" /\ t.step = "call"
  /\ job' = "ended"
  /\ page' = [page EXCEPT !.refreshing = TRUE]
  /\ Goes(t, "lists")
  /\ UNCHANGED <<hosts, projects, sessions, starting, writing, made, ops, raced>>

(* useOpsPolling: what a timer brings is dropped once the active job is    *)
(* another; it finds an active job when there is none.                     *)
Poll == CanRun /\ Begin(page, Task("poll", NoHost, page.active, "poll"))

PollRead(t) ==
  /\ t.step = "poll"
  /\ tasks' = (tasks \ {t}) \cup {[t EXCEPT !.got.job = job, !.step = "polled"]}
  /\ UNCHANGED <<server, page, ops>>

PollLands(t) ==
  LET p == [page EXCEPT !.jobs = t.got.job,
                        !.active = IF @ = "none" /\ t.got.job = "running" THEN "running" ELSE @]
  IN /\ t.step = "polled"
     /\ Ends(IF CanRun /\ page.active = t.held THEN p ELSE page, t)
     /\ UNCHANGED <<server, ops>>

-----------------------------------------------------------------------------
(* Commands to the codex of a host: one at a time.                         *)

SelectPlatformHost(h) ==
  /\ page.section = "" /\ page.platform # h.id
  /\ Touch([page EXCEPT !.platform = h.id])

RunPlatform(section) ==
  /\ CanRun /\ page.section = "" /\ page.platform # NoHost
  /\ Begin([page EXCEPT !.section = section], Task("platform", page.platform, NoHost, "call"))

(* onRunPlatformLogin, onRunPlatformMCP and onRunPlatformCloud.            *)
RunPlatformLogin == RunPlatform("login")
RunPlatformMCP == RunPlatform("mcp")
RunPlatformCloud == RunPlatform("cloud")

PlatformAnswers(t) ==
  /\ t.kind = "platform"
  /\ Ends(page, t)
  /\ UNCHANGED <<server, ops>>

-----------------------------------------------------------------------------
(* Projects.                                                               *)

(* onCreateProject and onRenameProject.                                    *)
SaveProject(place) ==
  /\ CanRun /\ ~page.saving
  /\ Begin([page EXCEPT !.saving = TRUE], Task("project", place, NoHost, "call"))

ProjectSaved(t) ==
  /\ t.kind = "project" /\ t.step = "call"
  /\ projects' = projects \cup {t.on}
  /\ raced' = raced \ {t.on}
  /\ Goes(t, "projects")
  /\ UNCHANGED <<hosts, sessions, starting, writing, job, page, made, ops>>

(* onArchiveProject: the project is looked up unless it is known to have a *)
(* record, its sessions are counted, and then it is deleted.               *)
ArchiveProject(place) ==
  /\ CanRun /\ ~page.saving /\ ~page.deleting
  /\ Begin([page EXCEPT !.deleting = TRUE],
           Task("archive", place, place \in page.filled,
                IF place \in page.sources THEN "count" ELSE "resolve"))

(* Without an answer the project is taken for a local one.                 *)
ProjectResolved(t, ok) ==
  LET p == IF ok THEN [page EXCEPT !.sources = projects] ELSE page
  IN /\ t.step = "resolve"
     /\ IF ok /\ t.on \in projects THEN page' = p /\ Goes(t, "count") ELSE Ends(p, t)
     /\ UNCHANGED <<server, ops>>

(* Without an answer the sessions shown at the click count.                *)
SessionsCounted(t, ok) ==
  /\ t.step = "count"
  /\ IF (IF ok THEN t.on \in sessions ELSE t.held) THEN Ends(page, t)
     ELSE Goes(t, "call") /\ page' = page
  /\ UNCHANGED <<server, ops>>

ProjectDeleted(t) ==
  /\ t.kind = "archive" /\ t.step = "call"
  /\ projects' = DeleteProject(t.on)
  /\ raced' = raced \cup ((projects \ projects') \cap (starting \cup writing))
  /\ IF projects' = projects THEN Ends(page, t) ELSE Goes(t, "projects") /\ page' = page
  /\ UNCHANGED <<hosts, sessions, starting, writing, job, made, ops>>

(* refreshProjectsFromSource without a discovery; its lists land when they *)
(* are read.                                                               *)
ProjectsRefreshed(t) ==
  /\ t.step = "projects"
  /\ Ends([page EXCEPT !.sources = projects, !.filled = sessions], t)
  /\ UNCHANGED <<server, ops>>

(* A client starts a session in a project, which is made when it is named  *)
(* by its path; the record of the session is written when codex has        *)
(* answered (resolveCodexV2StartTarget, upsertCodexV2Session).             *)
StartSession(place) ==
  /\ Op /\ place \notin starting
  /\ projects' = projects \cup {place}
  /\ starting' = starting \cup {place}
  /\ raced' = raced \ {place}
  /\ UNCHANGED <<hosts, sessions, writing, job, page, tasks, made>>

SessionStarted(place) ==
  /\ place \in starting
  /\ starting' = starting \ {place}
  /\ sessions' = sessions \cup {place}
  /\ UNCHANGED <<hosts, projects, writing, job, page, tasks, made, ops, raced>>

(* A handler that changes a session (the start of a turn, a new name, a    *)
(* notification) reads its record, may wait for codex, and writes it back: *)
(* UpsertSession adds it again when it was archived since.                 *)
SessionRead(place) ==
  /\ place \in sessions /\ place \notin writing
  /\ writing' = writing \cup {place}
  /\ UNCHANGED <<hosts, projects, sessions, starting, job, page, tasks, made, ops, raced>>

(* When the call of codex failed nothing is written.                       *)
SessionWritten(place) ==
  /\ place \in writing
  /\ writing' = writing \ {place}
  /\ sessions' \in {sessions, sessions \cup {place}}
  /\ UNCHANGED <<hosts, projects, starting, job, page, tasks, made, ops, raced>>

SessionArchived(place) ==
  /\ Op /\ place \in sessions
  /\ sessions' = sessions \ {place}
  /\ UNCHANGED <<hosts, projects, starting, writing, job, page, tasks, made, raced>>

-----------------------------------------------------------------------------

Init ==
  /\ hosts = <<[id |-> 1, local |-> TRUE], [id |-> 2, local |-> FALSE]>>
  /\ projects = Places
  /\ sessions = {}
  /\ starting = {}
  /\ writing = {}
  /\ job = "none"
  /\ page = WithLists([EmptyPage EXCEPT !.auth = "ready"],
                      [hosts |-> hosts, job |-> job])
  /\ tasks = {}
  /\ made = 2
  /\ ops = 0
  /\ raced = {}

TaskNext(t) ==
  \/ Fails(t)
  \/ ListsRead(t) \/ EnsureLocalCodexHost(t) \/ ListsLand(t)
  \/ HostSaved(t) \/ Probed(t) \/ HostDeleted(t)
  \/ JobCanceled(t) \/ PollRead(t) \/ PollLands(t)
  \/ PlatformAnswers(t)
  \/ ProjectSaved(t) \/ ProjectDeleted(t) \/ ProjectsRefreshed(t)
  \/ \E ok \in BOOLEAN : SourcesLand(t, ok) \/ ProjectResolved(t, ok) \/ SessionsCounted(t, ok)

HostNext(h) ==
  \/ ToggleHostSelection(h) \/ StartEditHost(h)
  \/ ProbeHost(h) \/ AskDeleteHost(h) \/ SelectPlatformHost(h)

UserNext ==
  \/ Unlock \/ Refresh \/ Logout
  \/ SetAllHosts \/ SetFilter \/ CancelHostEdit \/ AddHost
  \/ \E mode \in {"ssh", "local"} : FillForm(mode)
  \/ CancelJob \/ Poll
  \/ RunPlatformLogin \/ RunPlatformMCP \/ RunPlatformCloud

ProjectNext(place) ==
  \/ SaveProject(place) \/ ArchiveProject(place)
  \/ StartSession(place) \/ SessionStarted(place)
  \/ SessionRead(place) \/ SessionWritten(place) \/ SessionArchived(place)

Next ==
  \/ \E t \in tasks : TaskNext(t)
  \/ \E h \in Shown : HostNext(h)
  \/ UserNext
  \/ \E place \in Places : ProjectNext(place)
  \/ \E id \in HostIDs(hosts) : HostLeaves(id)
  \/ JobRuns

Spec == Init /\ [][Next]_vars

-----------------------------------------------------------------------------
(* Properties.                                                             *)

TypeOK ==
  /\ IsInjective([i \in DOMAIN hosts |-> hosts[i].id])
  /\ HostIDs(hosts) \subseteq 1..made
  /\ page.auth \in {"locked", "checking", "ready"}
  /\ page.platform \in HostIDs(page.hosts) \cup {NoHost}
  /\ job \in {"none", "running", "ended"}
  /\ ops \in 0..MaxOps
  /\ Cardinality(tasks) <= MaxTasks

(* The hosts a run would go to are hosts the page lists, whatever lists    *)
(* land after hosts were deleted, here or by another client.               *)
TargetsListed == page.selected \subseteq HostIDs(page.hosts)

(* A session of the server has its project, whoever archives the project   *)
(* and however old the count of its sessions is by then, except after a    *)
(* deletion that came between the two steps of a handler: while a session  *)
(* was being started in the project, or while a handler held a session of  *)
(* it that was archived meanwhile and writes it back.  Once the project is *)
(* made again its sessions have it.                                        *)
SessionsHaveProject == sessions \subseteq projects \cup raced
=============================================================================
