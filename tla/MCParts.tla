------------------------------- MODULE MCParts -------------------------------
(***************************************************************************)
(* The parts of the web client for TLC, in one run, and the small parts of *)
(* the server: the terminal of a project, the fan-out of a run, the audit. *)
(* They share no state, so a behaviour is a                                *)
(* behaviour of one of them (part), whose variables x1, ..., x16 hold; the *)
(* rest of these stay 0.  The states of the run are those of the parts side*)
(* by side instead of every combination of them.                           *)
(***************************************************************************)
EXTENDS Naturals, Sequences, FiniteSets

CONSTANTS
  TreeOps, RequestOps, TerminalOps, NoteOps, GitOps, PageOps,
                  (* MaxOps of the parts                                    *)
  OutputKept,     (* MaxOut and MaxChunk of RunOutput                       *)
  OutputChunk,
  ScrollChanges,  (* MaxChanges and MaxMoves of TimelineScroll              *)
  ScrollMoves,
  FramesSent,     (* MaxFrames of EventStream                               *)
  ShellOps,       (* MaxOps of ProjectTerminal                              *)
  Retries,        (* RetryCount of Fanout                                   *)
  Requested       (* MaxEvents of Audit                                     *)

VARIABLES part, x1, x2, x3, x4, x5, x6, x7, x8, x9, x10, x11, x12, x13, x14, x15, x16

-----------------------------------------------------------------------------
(* The sessions: two hosts, two sessions of the server, and the tree of an *)
(* earlier visit with a reply that was being written and a local draft.    *)

Root == <<"local", "/">>
Work == <<"far", "/w">>
TwoHosts == <<"local", "far">>
Homes == [h \in {"local", "far"} |-> IF h = "local" THEN Root ELSE Work]

RootProject == <<"project", Root>>
Server(n) == <<"srv", n>>
Record(n, project) ==
  [id |-> Server(n), project |-> project, place |-> Root, last |-> "idle", run |-> ""]

Listed ==
  {[projects |-> <<[id |-> RootProject, place |-> Root]>>, sessions |-> records] :
     records \in {<<Record(1, RootProject)>>,
                  <<Record(1, RootProject), Record(0, <<"none", 0>>)>>}}

Discovered ==
  {<<[host |-> "local", sessions |-> <<[id |-> Server(1), place |-> Root],
                                       [id |-> Server(0), place |-> Root]>>]>>}

Shown(id, draft, setting, timeline) ==
  [id |-> id, draft |-> draft, timeline |-> timeline, setting |-> setting, flags |-> <<>>,
   job |-> "", last |-> "idle", unread |-> FALSE, pinned |-> FALSE]

EarlierTree ==
  {[spaces |->
      <<[id |-> RootProject, place |-> Root, active |-> <<"local", 1>>,
         sessions |->
           <<Shown(Server(1), "", "",
                   <<[id |-> 1, kind |-> "assistant", state |-> "running", body |-> "text"],
                     [id |-> 2, kind |-> "system", state |-> "none", body |-> "text"]>>),
             Shown(<<"local", 1>>, "summary", "default", <<>>)>>]>>,
    active |-> RootProject, jobThread |-> <<"local", 1>>]}

Tree == INSTANCE SessionTree WITH
  NoBody <- "", Hosts <- TwoHosts, Home <- Homes, DefaultPlace <- Root,
  Answers <- Listed, Discoveries <- Discovered, StoredTrees <- EarlierTree,
  NewID <- <<"srv", 0>>, Bodies <- {"text"}, Flags <- {"flag"},
  MaxOps <- TreeOps, cur <- x1, seen <- x2, stored <- x3, held <- x4,
  born <- x5, made <- x6, ops <- x7, said <- x8, late <- x9

-----------------------------------------------------------------------------
(* The runs of a session: two turns, a job, or a turn with more going on.  *)

Two(a, b, n) == [kinds |-> <<a, b>>, ops |-> n]
SomeRuns == {Two("turn", "turn", 1), Two("job", "none", 2), Two("turn", "none", 2)}

Runs == INSTANCE WebRuns WITH
  NoBody <- <<>>, Runs <- 1..2, Scenarios <- SomeRuns, MaxDone <- 2,
  MaxAlerts <- 1, MaxTries <- 1, MaxPieces <- 2, log <- x1, runs <- x2,
  page <- x3, seen <- x4, cursor <- x5, stream <- x6, health <- x7,
  submit <- x8, polls <- x9, place <- x10, auth <- x11, cutoff <- x12,
  known <- x13, ops <- x14, exact <- x15, settled <- x16

-----------------------------------------------------------------------------
(* The output of a run: commands that are over with pieces before, a       *)
(* message, noise, a patch; and what the app-server notifies of them.      *)

Line(type, item, kind, status, text) ==
  [type |-> type, item |-> item, kind |-> kind, status |-> status, role |-> "", text |-> text]

Started == Line("item.started", "c", "command_execution", "", <<>>)
Piece(item) == Line("item.commandexecution.outputdelta", item, "", "", <<"a">>)
Over(status) == Line("item.completed", "c", "command_execution", status, <<"whole">>)
Titled == Line("thread.started", "", "", "", <<"title">>)

SomeScripts ==
  {<<Started, Piece("c"), Piece("d"), Over("")>>,
   <<Titled, Piece("c"), Over("failed"), Line("item.completed", "m", "agent_message", "", <<"m">>)>>,
   <<Line("text", "", "", "", <<"noise">>), Line("turn.diff.updated", "", "", "", <<"diff">>),
     Line("item.completed", "p", "file_change", "", <<"change">>),
     Line("item.filechange.outputdelta", "p", "", "", <<"piece">>)>>}

Notice(method, line) ==
  [type |-> "codexrpc", method |-> method, run |-> "", turn |-> "turn", job |-> "",
   title |-> <<"named">>, line |-> line]

SomeNotices ==
  {Notice("thread_named", Titled), Notice("turn_started", Titled), Notice("turn_completed", Titled),
   Notice("item_commandexecution_outputdelta", Piece("c")), Notice("item_completed", Over("failed"))}

Output == INSTANCE RunOutput WITH
  NoiseTexts <- {<<"noise">>}, ApprovalTexts <- {<<"approval">>},
  MaxCommands <- 2, Scripts <- SomeScripts, Notices <- SomeNotices,
  MaxOut <- OutputKept, MaxChunk <- OutputChunk, lines <- x1, sent <- x2,
  run <- x3, surface <- x4, cards <- x5, cutoff <- x6, title <- x7,
  read <- x8, whole <- x9

-----------------------------------------------------------------------------
(* The requests of codex: questions, a form, an approval whose decisions   *)
(* repeat, and one of a method the browser does not know.                  *)

Request(id, s, method, mode) ==
  [id |-> id, session |-> s, method |-> method, mode |-> mode, decisions |-> <<>>,
   questions |-> <<>>, schema |-> <<>>]

Field(key, type) == [key |-> key, type |-> type, required |-> TRUE]

AllRequests ==
  {[Request("a", "s1", "item/tool/requestUserInput", "") EXCEPT
      !.questions = <<[id |-> "x", options |-> <<"yes">>, other |-> TRUE]>>],
   [Request("b", "s1", "mcpServer/elicitation/request", "form") EXCEPT
      !.schema = <<Field("n", "number"), Field("f", "boolean")>>],
   [Request("c", "s2", "item/commandExecution/requestApproval", "") EXCEPT
      !.decisions = <<"accept", "accept">>],
   Request("d", "s2", "other", "")}

Requests == INSTANCE WebRequests WITH
  Requests <- AllRequests, Sessions <- {"s1", "s2"}, QuestionIDs <- {"x"},
  Keys <- {"n", "f"}, Texts <- {"", "7", "word"}, Numbers <- {"7"},
  JSONTexts <- {"{}", "7"}, MaxCalls <- 2, MaxOps <- RequestOps,
  waiting <- x1, gone <- x2, left <- x3, received <- x4, session <- x5,
  lists <- x6, issued <- x7, calls <- x8, error <- x9, resolving <- x10,
  answers <- x11, drafts <- x12, wrong <- x13, answered <- x14, ops <- x15

-----------------------------------------------------------------------------

Terminal == INSTANCE WebTerminal WITH
  Projects <- {"p", "q"}, MaxFrames <- 2, MaxTyped <- 2,
  MaxOps <- TerminalOps, shells <- x1, heard <- x2, project <- x3,
  enabled <- x4, status <- x5, terminal <- x6, output <- x7, cursor <- x8,
  socket <- x9, failing <- x10, surface <- x11, typed <- x12, base <- x13,
  same <- x14, ops <- x15

-----------------------------------------------------------------------------
(* The review pane: two files with one name in two directories, patches of *)
(* several hunks, and notes that name a file, both or none.                *)

TwoPaths == {"src/main.go", "lib/main.go"}
Bases == [p \in TwoPaths |-> "main.go"]
Sizes == [w \in TwoPaths \cup {"main.go", "src", "lib", "return", "value", "fix", "@@"} |->
            CASE w \in TwoPaths -> 11
              [] w = "main.go"  -> 7
              [] w = "return"   -> 6
              [] w = "value"    -> 5
              [] w = "@@"       -> 2
              [] OTHER          -> 3]

DiffLine(kind, text) == [kind |-> kind, text |-> text]
Headed == <<DiffLine("header", <<"src/main.go">>), DiffLine("hunk", <<"@@">>),
            DiffLine("add", <<"return", "value">>), DiffLine("hunk", <<"@@">>),
            DiffLine("remove", <<"value">>)>>
Unheaded == <<DiffLine("context", <<"lib/main.go">>), DiffLine("hunk", <<"@@">>),
              DiffLine("context", <<"fix">>), DiffLine("add", <<"value">>)>>

Patch(changes) == [type |-> "patch", title |-> <<>>, parts |-> <<>>, changes |-> changes]
Text(type, title, parts) == [type |-> type, title |-> title, parts |-> parts, changes |-> <<>>]
Change(path, diff) == [path |-> path, diff |-> diff]

OnePatch == {Patch(<<Change("src/main.go", <<>>)>>)}

Reviewed ==
  OnePatch \cup
  {Patch(<<Change("src/main.go", Headed)>>),
   Patch(<<Change("src/main.go", <<>>), Change("lib/main.go", Unheaded)>>),
   Text("note", <<"value">>, <<<<"return">>>>), Text("note", <<"fix">>, <<<<"main.go", "value">>>>),
   Text("diff", <<>>, <<<<"value">>>>), Text("piece", <<>>, <<<<"fix">>>>)}

Notes == INSTANCE WebReview WITH
  Projects <- {"p"}, Paths <- TwoPaths, BaseName <- Bases, SizeOf <- Sizes,
  Arrivals <- Reviewed, MaxFindings <- 1, MaxPieces <- 1, MaxEntries <- 2,
  MaxOps <- NoteOps, timelines <- x1, busy <- x2, repo <- x3, calls <- x4,
  project <- x5, modes <- x6, git <- x7, pane <- x8, crossed <- x9, ops <- x10

Git == INSTANCE WebReview WITH
  Projects <- {"p", "q"}, Paths <- TwoPaths, BaseName <- Bases,
  SizeOf <- Sizes, Arrivals <- OnePatch, MaxFindings <- 1, MaxPieces <- 1,
  MaxEntries <- 1, MaxOps <- GitOps, timelines <- x1, busy <- x2, repo <- x3,
  calls <- x4, project <- x5, modes <- x6, git <- x7, pane <- x8,
  crossed <- x9, ops <- x10

-----------------------------------------------------------------------------

Ops == INSTANCE WebOps WITH
  Places <- {"p"}, ActiveHost <- 2, MaxTasks <- 2, MaxOps <- PageOps,
  hosts <- x1, projects <- x2, sessions <- x3, starting <- x4, job <- x5,
  page <- x6, tasks <- x7, made <- x8, ops <- x9, raced <- x10, writing <- x11

Scroll == INSTANCE TimelineScroll WITH
  Threads <- {"s1", "s2"}, CountCap <- 2, MaxChanges <- ScrollChanges,
  MaxMoves <- ScrollMoves, timelines <- x1, active <- x2, mode <- x3,
  last <- x4, stick <- x5, force <- x6, count <- x7, frame <- x8, dirty <- x9,
  view <- x10, moves <- x11, unseen <- x12, away <- x13

-----------------------------------------------------------------------------

Events == INSTANCE EventStream WITH
  Types <- {"session.event", "session.ready"}, Numbered <- {"session.event"},
  MaxFrames <- FramesSent, MaxChunk <- 5, sent <- x1, wire <- x2,
  reader <- x3, phase <- x4

-----------------------------------------------------------------------------
(* A client that leaves and comes back while its handlers are at work, a   *)
(* shell that keeps one frame, and a frame that waits for the handler.     *)

Shell == INSTANCE ProjectTerminal WITH
  Clients <- {"c"}, FrameBacklog <- 1, SubBuffer <- 1, MaxFrames <- 1,
  MaxOps <- ShellOps, term <- x1, shells <- x2, handlers <- x3, clients <- x4,
  got <- x5, missed <- x6, ops <- x7

-----------------------------------------------------------------------------
(* Three hosts at two at a time.                                           *)

Fan == INSTANCE Fanout WITH
  HostCount <- 3, Width <- 2, RetryCount <- Retries, ctx <- x1, phase <- x2,
  next <- x3, workers <- x4, results <- x5, made <- x6, last <- x7, late <- x8

Log == INSTANCE Audit WITH
  QueueSize <- 2, BatchSize <- 2, Retention <- 2, MaxEvents <- Requested,
  MaxFaults <- 1, queue <- x1, batch <- x2, stored <- x3, saved <- x4,
  dropped <- x5, offered <- x6, evicted <- x7, failures <- x8, restarts <- x9

-----------------------------------------------------------------------------

Unused14 == x14 = 0 /\ x15 = 0 /\ x16 = 0
Unused12 == x12 = 0 /\ x13 = 0 /\ Unused14
Unused11 == x11 = 0 /\ Unused12
Unused10 == x10 = 0 /\ Unused11
Unused9 == x9 = 0 /\ Unused10
Unused8 == x8 = 0 /\ Unused9
Unused5 == x5 = 0 /\ x6 = 0 /\ x7 = 0 /\ Unused8

Init ==
  \/ part = "tree" /\ Tree!Init /\ Unused10
  \/ part = "runs" /\ Runs!Init
  \/ part = "output" /\ Output!Init /\ Unused10
  \/ part = "requests" /\ Requests!Init /\ x16 = 0
  \/ part = "terminal" /\ Terminal!Init /\ x16 = 0
  \/ part = "notes" /\ Notes!Init /\ Unused11
  \/ part = "git" /\ Git!Init /\ Unused11
  \/ part = "ops" /\ Ops!Init /\ Unused12
  \/ part = "scroll" /\ Scroll!Init /\ Unused14
  \/ part = "events" /\ Events!Init /\ Unused5
  \/ part = "shell" /\ Shell!Init /\ Unused8
  \/ part = "fan" /\ Fan!Init /\ Unused9
  \/ part = "log" /\ Log!Init /\ Unused10

TreeNext == part = "tree" /\ Tree!Next /\ UNCHANGED <<part, x10, x11, x12, x13, x14, x15, x16>>
RunsNext == part = "runs" /\ Runs!Next /\ UNCHANGED part
OutputNext == part = "output" /\ Output!Next /\ UNCHANGED <<part, x10, x11, x12, x13, x14, x15, x16>>
RequestsNext == part = "requests" /\ Requests!Next /\ UNCHANGED <<part, x16>>
TerminalNext == part = "terminal" /\ Terminal!Next /\ UNCHANGED <<part, x16>>
NotesNext == part = "notes" /\ Notes!Next /\ UNCHANGED <<part, x11, x12, x13, x14, x15, x16>>
GitNext == part = "git" /\ Git!Next /\ UNCHANGED <<part, x11, x12, x13, x14, x15, x16>>
OpsNext == part = "ops" /\ Ops!Next /\ UNCHANGED <<part, x12, x13, x14, x15, x16>>
ScrollNext == part = "scroll" /\ Scroll!Next /\ UNCHANGED <<part, x14, x15, x16>>
EventsNext ==
  /\ part = "events" /\ Events!Next
  /\ UNCHANGED <<part, x5, x6, x7, x8, x9, x10, x11, x12, x13, x14, x15, x16>>
ShellNext ==
  /\ part = "shell" /\ Shell!Next
  /\ UNCHANGED <<part, x8, x9, x10, x11, x12, x13, x14, x15, x16>>

FanNext ==
  /\ part = "fan" /\ Fan!Next
  /\ UNCHANGED <<part, x9, x10, x11, x12, x13, x14, x15, x16>>
LogNext == part = "log" /\ Log!Next /\ UNCHANGED <<part, x10, x11, x12, x13, x14, x15, x16>>

Next ==
  \/ TreeNext
  \/ RunsNext
  \/ OutputNext
  \/ RequestsNext
  \/ TerminalNext
  \/ NotesNext
  \/ GitNext
  \/ OpsNext
  \/ ScrollNext
  \/ EventsNext
  \/ ShellNext
  \/ FanNext
  \/ LogNext

x == <<x1, x2, x3, x4, x5, x6, x7, x8, x9, x10, x11, x12, x13, x14, x15, x16>>

Spec == Init /\ [][Next]_<<part, x>>

-----------------------------------------------------------------------------
(* The properties of the parts.                                            *)

(* The types of the parts; no two workspaces, and no two sessions of one,  *)
(* have the same id, and the active session of a workspace is one of its   *)
(* sessions (session.ts); the hosts a run would go to are listed           *)
(* (allHosts, selectedHostIDs); the shell of a project that runs is the one*)
(* its connections are given (ensureProjectTerminal).                      *)
PartsTypeOK ==
  CASE part = "tree"     -> Tree!TypeOK /\ Tree!DistinctIDs /\ Tree!ActiveKnown
    [] part = "runs"     -> Runs!TypeOK
    [] part = "output"   -> Output!TypeOK
    [] part = "requests" -> Requests!TypeOK
    [] part = "terminal" -> Terminal!TypeOK
    [] part = "notes"    -> Notes!TypeOK
    [] part = "git"      -> Git!TypeOK
    [] part = "ops"      -> Ops!TypeOK /\ Ops!TargetsListed
    [] part = "scroll"   -> Scroll!TypeOK
    [] part = "events"   -> Events!TypeOK
    [] part = "shell"    -> Shell!TypeOK /\ Shell!OneShell
    [] part = "fan"      -> Fan!TypeOK
    [] part = "log"      -> Log!TypeOK

(* No entry is lost when lists land, a draft is bound to its session of    *)
(* the server and the page is reloaded (bindThreadID,                      *)
(* syncProjectsFromDiscovery); and at most one reply of a session is being *)
(* written (upsertAssistantStreamEntry).                                   *)
TreeFaithful == part = "tree" => Tree!NothingLost /\ Tree!OneRunningReply

(* Nobody is told of the end of a run twice (markSessionDone, use-         *)
(* completed-runs.ts).                                                     *)
ToldOnce == part = "runs" => Runs!ToldOnce

(* A stream that has caught up shows each reply once and complete          *)
(* (session-stream-controller.ts).                                         *)
TimelineFaithful == part = "runs" => Runs!TimelineFaithful

(* A stream that has caught up shows the run the server runs (session-run- *)
(* events.ts).                                                             *)
StatusSettles == part = "runs" => Runs!StatusSettles

(* Lines are read once, in order (appendCodexStdoutChunk).                 *)
EveryLineRead == part = "output" => Output!EveryLineRead

(* A command that is over is shown with its whole output (App.tsx,         *)
(* terminalCommands).                                                      *)
CommandShown == part = "output" => Output!CommandShown

(* The server receives no incomplete answer (SessionPendingRequests.tsx).  *)
CompleteAnswers == part = "requests" => Requests!CompleteAnswers

(* A request that has left the list of its session does not come back but  *)
(* by the list that was on its way when it was answered (requestSeqRef of  *)
(* use-codex-pending-requests.ts).                                         *)
RequestsStayGone == [][part = "requests" => Requests!ReturnsStep]_x

(* The output is that of the shell of the project that is shown (use-      *)
(* project-terminal-session.ts), and the surface shows the output, each    *)
(* frame once (LiveTerminalSurface.tsx).                                   *)
TerminalFaithful == part = "terminal" => Terminal!OutputFaithful /\ Terminal!ScreenFaithful

(* A shell reads what was typed in its order (openProjectTerminalSocket).  *)
InputOrdered == part = "terminal" => Terminal!InputOrdered

(* A client receives the frames of a shell once and in order, and all but  *)
(* those of four races (handleProjectTerminalWS, appendFrame).             *)
FramesFaithful == part = "shell" => Shell!FramesFaithful

(* A run on several hosts returns, whenever its context ends, with the     *)
(* result of the last attempt at every host, after no more attempts than   *)
(* the retries allow, and begins with few hosts once it was cancelled      *)
(* (runFanout, executeWithRetry).                                          *)
FanoutFaithful ==
  part = "fan" =>
    Fan!AttemptsBounded /\ Fan!ResultsFaithful /\ Fan!EndsSoon /\ Fan!NeverStuck

(* The audit is in order and what is missing from it is accounted for      *)
(* (enqueueAuditEvent, startAuditWriter).                                  *)
AuditFaithful == part = "log" => Log!AuditFaithful

(* A note that was not dismissed is shown exactly once for each file it    *)
(* names (SessionReviewPane.tsx).                                          *)
NoteOnce ==
  /\ part = "notes" => Notes!NoteOnce
  /\ part = "git" => Git!NoteOnce

(* The status shown is that of the working tree (use-project-review-       *)
(* git.ts).                                                                *)
StagedShown ==
  /\ part = "notes" => Notes!StagedShown
  /\ part = "git" => Git!StagedShown

(* A session has its project unless that was deleted between the two steps *)
(* of a handler that starts a session in it or writes one back             *)
(* (DeleteProject, UpsertSession).                                         *)
SessionsHaveProject == part = "ops" => Ops!SessionsHaveProject

(* A change is on the screen or counted (use-timeline-scroll.ts).          *)
SeenOrCounted == part = "scroll" => Scroll!SeenOrCounted

(* Frames are handed on whole and in order, wherever the chunks end        *)
(* (streamSessionEventsViaSSE).                                            *)
FramesWhole == part = "events" => Events!FramesWhole
==============================================================================
