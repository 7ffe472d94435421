------------------------------- MODULE WebRuns -------------------------------
(***************************************************************************)
(* One session of the server and the browser that shows it: the stream of  *)
(* the session's events (session-stream-controller.ts, stream-loop.ts,     *)
(* use-session-event-cursor.ts), the submission of prompts                 *)
(* (session-submit-action.ts), the polling of jobs                         *)
(* (use-session-job-polling.ts) and what the page does when the session    *)
(* leaves the tree, when it is reloaded and when the user logs out and in  *)
(* (App.tsx, use-session-runtime-effects.ts, workspace-auth-actions.ts).   *)
(*                                                                         *)
(* A frame is handled when it arrives, so a frame that is lost with its    *)
(* connection is one that was not sent; SessionStream has the server's     *)
(* side of the stream.  The time of an event is its position in the log.   *)
(***************************************************************************)
EXTENDS RunPage, FiniteSets

CONSTANTS
  Scenarios,      (* [kinds, ops]: the kind of each run ("turn" of codex,   *)
                  (* "job", or "none" for a run that never is), and a bound *)
                  (* on what the user and the network do                    *)
  MaxPieces       (* bound on the pieces of output of a run                 *)

VARIABLES
  log,      (* the events of the session                                    *)
  runs,     (* the runs at the server                                       *)
  page,     (* the browser, with every queued update                        *)
  seen,     (* the session as last rendered and stored                      *)
  cursor,   (* the last event the browser has received; it is stored        *)
  stream,   (* the stream of the session in the browser                     *)
  health,   (* what the page says of the stream                             *)
  submit,   (* the submission in progress                                   *)
  polls,    (* polls in progress                                            *)
  place,    (* what the user looks at: this session ("open"), the           *)
            (* operations page ("ops") or another session ("other")         *)
  auth,     (* "ready" or "locked"                                          *)
  cutoff,   (* the events and jobs that are too old to tell the user of     *)
  known,    (* the jobs of the last list                                    *)
  ops,      (* how much the user and the network may do yet                 *)
  exact,    (* ghost: nothing came between the events and the timeline      *)
  settled   (* ghost: nothing came between the events and the status        *)

vars == <<log, runs, page, seen, cursor, stream, health, submit, polls, place, auth, cutoff,
          known, ops, exact, settled>>
server == <<log, runs>>
ghosts == <<exact, settled>>

NoStream ==
  [phase |-> "off", via |-> "ws", from |-> 0, ready |-> FALSE, suppress |-> TRUE, sent |-> 0]
NewStream == [NoStream EXCEPT !.phase = "waiting"]
NoSubmit == [phase |-> "none", run |-> 0, review |-> FALSE, shown |-> FALSE]
Ended == {"succeeded", "failed", "canceled"}
EndTypes == {"run.completed", "run.failed", "run.canceled"}

Op == ops > 0 /\ ops' = ops - 1

-----------------------------------------------------------------------------
(* The server.                                                             *)

Event(type, r, text, ok) == [type |-> type, run |-> r, text |-> text, ok |-> ok]

(* A run follows the one before it.                                        *)
NextRun(r) ==
  /\ runs[r].kind # "none"
  /\ runs[r].state = "none"
  /\ \A q \in Runs : q < r => runs[q].state \in Ended

Begin(r) ==
  /\ NextRun(r)
  /\ runs' = [runs EXCEPT ![r].state = "running"]
  /\ log' = Append(log, Event("run.started", r, <<>>, TRUE))

(* Another client starts a run, or a job.                                  *)
Start(r) ==
  /\ Begin(r)
  /\ UNCHANGED <<page, seen, cursor, stream, health, submit, polls, place, auth, cutoff, known,
                 ops, ghosts>>

(* The text of a run is the pieces it has written; the first is its start. *)
TextOf(r) == [k \in 1..(runs[r].pieces - 1) |-> <<r, k + 1>>]

Emit(r) ==
  /\ runs[r].state = "running"
  /\ runs[r].pieces < MaxPieces
  /\ LET k == runs[r].pieces + 1
     IN log' = Append(log, Event("assistant.delta", r, IF k = 1 THEN <<>> ELSE << <<r, k>> >>, TRUE))
  /\ runs' = [runs EXCEPT ![r].pieces = @ + 1]
  /\ UNCHANGED <<page, seen, cursor, stream, health, submit, polls, place, auth, cutoff, known,
                 ops, ghosts>>

(* A job's target is done before the job, and its reply is completed after *)
(* it; its record is final only later.                                     *)
EndEvents(r, how, ok) ==
  LET end == Event(CASE how = "succeeded" -> "run.completed"
                     [] how = "failed"    -> "run.failed"
                     [] how = "canceled"  -> "run.canceled", r, <<>>, TRUE)
  IN IF runs[r].kind = "turn" THEN <<end>>
     ELSE <<Event("target.done", r, <<>>, ok), end>> \o
          (IF how = "succeeded" THEN <<Event("assistant.completed", r, <<>>, TRUE)>> ELSE <<>>)

End(r, how, ok) ==
  /\ runs[r].state = "running"
  /\ ok \/ (runs[r].kind = "job" /\ how = "succeeded")
  /\ log' = log \o EndEvents(r, how, ok)
  /\ runs' = [runs EXCEPT ![r].state = how, ![r].ok = ok]
  /\ UNCHANGED <<page, seen, cursor, stream, health, submit, polls, place, auth, cutoff, known,
                 ops, ghosts>>

Settle(r) ==
  /\ runs[r].kind = "job" /\ runs[r].state \in Ended /\ ~runs[r].final
  /\ runs' = [runs EXCEPT ![r].final = TRUE]
  /\ UNCHANGED <<log, page, seen, cursor, stream, health, submit, polls, place, auth, cutoff,
                 known, ops, ghosts>>

(* What a run's end is to the browser.                                     *)
Outcome(r) == IF runs[r].state = "succeeded" /\ ~runs[r].ok THEN "failed" ELSE runs[r].state

(* What the server says of the session.                                    *)
Begun == {r \in Runs : runs[r].state # "none"}
Latest == IF Begun = {} THEN 0 ELSE CHOOSE r \in Begun : \A q \in Begun : q <= r
Status == IF Begun = {} THEN "idle" ELSE runs[Latest].state

(* While the page shows a run and its stream is idle, it asks the server to*)
(* catch up with codex, which may append the end of a turn again.          *)
Recover(r) ==
  /\ auth = "ready" /\ place # "ops" /\ seen.job # 0 /\ Op
  /\ r = Latest /\ runs[r].kind = "turn" /\ runs[r].state \in Ended
  /\ log' = log \o EndEvents(r, runs[r].state, TRUE)
  /\ UNCHANGED <<runs, page, seen, cursor, stream, health, submit, polls, place, auth, cutoff,
                 known, ghosts>>

-----------------------------------------------------------------------------
(* The stream.                                                             *)

Active == place # "other"

(* Mutation: every frame is handled.                                       *)
NeverReplayed(k) == FALSE

Replayed(k) == k <= cursor

(* shouldSurfaceCompletion.                                                *)
AfterCutoff(k) == k > cutoff.log

Max2(a, b) == IF a > b THEN a ELSE b

Health(state, retries) == [state |-> state, retries |-> retries]

(* The loop asks for the events after the cursor.                          *)
Connect(via) ==
  /\ stream.phase = "waiting"
  /\ stream' = [stream EXCEPT !.phase = "open", !.via = via, !.from = cursor, !.sent = cursor,
                              !.suppress = (cursor = 0)]
  /\ health' = [health EXCEPT !.state = "live"]
  /\ UNCHANGED <<server, page, seen, cursor, submit, polls, place, auth, cutoff, known, ghosts>>

(* It asks over a WebSocket; when that cannot be opened, it asks for the   *)
(* server-sent events of the second API, which EventStream reads.          *)
OpenSocket == Connect("ws") /\ UNCHANGED ops
OpenEvents == Connect("sse2") /\ Op

(* When those break, the first API is asked for the same events again.     *)
FallBack ==
  /\ stream.phase = "open" /\ stream.via = "sse2"
  /\ stream' = [stream EXCEPT !.via = "sse1", !.sent = stream.from]
  /\ health' = [health EXCEPT !.state = "live"]
  /\ UNCHANGED <<server, page, seen, cursor, submit, polls, place, auth, cutoff, known, ops,
                 ghosts>>

Deliver ==
  LET k == stream.sent + 1
      surface == (stream.ready \/ ~stream.suppress) /\ AfterCutoff(k)
  IN /\ stream.phase = "open"
     /\ stream.sent < Len(log)
     /\ stream' = [stream EXCEPT !.sent = k]
     /\ health' = [health EXCEPT !.state = "live"]
     /\ IF Replayed(k) THEN UNCHANGED <<page, cursor>>
        ELSE /\ cursor' = k
             /\ page' = HandleSessionEvent(page, log[k], surface, Active)
     /\ UNCHANGED <<server, seen, submit, polls, place, auth, cutoff, known, ops, ghosts>>

(* session.ready, when everything was replayed.                            *)
Ready ==
  /\ stream.phase = "open" /\ ~stream.ready
  /\ stream.sent = Len(log)
  /\ stream' = [stream EXCEPT !.ready = TRUE, !.suppress = FALSE]
  /\ health' = [health EXCEPT !.state = "live"]
  /\ cursor' = Max2(cursor, stream.sent)
  /\ UNCHANGED <<server, page, seen, submit, polls, place, auth, cutoff, known, ops, ghosts>>

(* The connection ends; the loop waits and connects again.  Only the last  *)
(* of the three ways, broken or refused, counts as an error.               *)
Waiting == [stream EXCEPT !.phase = "waiting", !.ready = FALSE]

Closed(broken, retries) ==
  IF broken THEN Health(IF retries >= 3 THEN "error" ELSE "reconnecting", retries)
  ELSE IF seen.job # 0 THEN Health("reconnecting", retries) ELSE Health("live", 0)

Close(broken) ==
  /\ IF broken THEN stream.phase = "waiting" \/ (stream.phase = "open" /\ stream.via = "sse1")
     ELSE stream.phase = "open"
  /\ Op
  /\ stream' = Waiting
  /\ health' = Closed(broken, IF health.retries < 3 THEN health.retries + 1 ELSE 3)
  /\ UNCHANGED <<server, page, seen, cursor, submit, polls, place, auth, cutoff, known, ghosts>>

(* Before it ends by itself it may say where to go on.                     *)
Reset ==
  /\ stream.phase = "open" /\ stream.ready /\ Op
  /\ cursor' = Max2(cursor, stream.sent)
  /\ stream' = Waiting
  /\ health' = Closed(FALSE, IF health.retries < 3 THEN health.retries + 1 ELSE 3)
  /\ UNCHANGED <<server, page, seen, submit, polls, place, auth, cutoff, known, ghosts>>

(* A stream that is idle while a run goes on is shown as reconnecting.     *)
Idle ==
  /\ stream.phase = "open" /\ seen.job # 0 /\ Op
  /\ health' = [health EXCEPT !.state = "reconnecting"]
  /\ UNCHANGED <<server, page, seen, cursor, stream, submit, polls, place, auth, cutoff, known,
                 ghosts>>

(* onReconnectActiveStream.                                                *)
Reconnect ==
  /\ auth = "ready" /\ Active /\ seen.listed /\ stream.phase # "off" /\ Op
  /\ stream' = NewStream
  /\ health' = Health("connecting", 0)
  /\ UNCHANGED <<server, page, seen, cursor, submit, polls, place, auth, cutoff, known, ghosts>>

-----------------------------------------------------------------------------
(* Rendering.  The effects start and stop the stream and forget what       *)
(* belongs to a session that has left; the effect that polls is made anew, *)
(* and what its polls in progress bring is dropped.                        *)

Stopped(p) == [p EXCEPT !.run = NoRun]

Render ==
  /\ seen # page.thread
  /\ seen' = page.thread
  /\ polls' = {}
  /\ cursor' = IF page.thread.listed THEN cursor ELSE 0
  /\ IF page.thread.listed /\ auth = "ready"
     THEN /\ stream' = IF stream.phase = "off" THEN NewStream ELSE stream
          /\ health' = IF stream.phase = "off" THEN Health("connecting", 0) ELSE health
          /\ page' = page
     ELSE /\ stream' = NoStream
          /\ health' = Health("offline", 0)
          /\ page' = Stopped(page)
  /\ UNCHANGED <<server, submit, place, auth, cutoff, known, ops, ghosts>>

(* A list of sessions is without this one, or has it again.                *)
Leave ==
  /\ page.thread.listed /\ Op
  /\ page' = [page EXCEPT !.thread = Unlisted]
  /\ UNCHANGED <<server, seen, cursor, stream, health, submit, polls, place, auth, cutoff, known,
                 ghosts>>

(* A session that comes back is replayed from the start, but the runs that *)
(* are done do not end again.                                              *)
Relist ==
  /\ auth = "ready" /\ ~page.thread.listed /\ Op
  /\ page' = [page EXCEPT !.thread = [Unlisted EXCEPT !.listed = TRUE]]
  /\ exact' = (exact /\ page.done = <<>> /\ ~seen.listed /\ cursor = 0)
  /\ settled' = (settled /\ page.done = <<>> /\ ~seen.listed /\ cursor = 0)
  /\ UNCHANGED <<server, seen, cursor, stream, health, submit, polls, place, auth, cutoff, known>>

(* The user looks elsewhere; activateThread reads a session.               *)
Look(where) ==
  /\ place # where /\ Op
  /\ place' = where
  /\ page' = IF where = "open" THEN WithThread(page, LAMBDA x : [x EXCEPT !.unread = FALSE])
             ELSE page
  /\ UNCHANGED <<server, seen, cursor, stream, health, submit, polls, auth, cutoff, known, ghosts>>

ClearAlerts ==
  /\ page.alerts # <<>> /\ Op
  /\ page' = [page EXCEPT !.alerts = <<>>]
  /\ UNCHANGED <<server, seen, cursor, stream, health, submit, polls, place, auth, cutoff, known,
                 ghosts>>

-----------------------------------------------------------------------------
(* Loading.  What the server says of the session corrects the page; from   *)
(* then on the user is told only of what is new.                           *)

FinalJobs == {r \in Runs : runs[r].final}
Listable == {r \in Runs : runs[r].kind = "job" /\ runs[r].state # "none"}

Corrected(p) ==
  LET job == IF Status = "running" THEN Latest ELSE 0
  IN IF p.thread.job = job /\ p.thread.last = Status THEN p ELSE SetJob(p, job, Status)

Cutoff == [log |-> Len(log), jobs |-> FinalJobs]

(* onRefreshWorkspace.                                                     *)
Refresh ==
  /\ auth = "ready" /\ Op
  /\ page' = Corrected(page)
  /\ cutoff' = Cutoff
  /\ known' = Listable
  /\ settled' = (settled /\ cursor = Len(log))
  /\ UNCHANGED <<server, seen, cursor, stream, health, submit, polls, place, auth, exact>>

(* The page is reloaded.  The cursor and the runs that are done were       *)
(* stored when they changed, the session when it was rendered, and the     *)
(* output of the run that is read is lost.                                 *)
Reload ==
  /\ auth = "ready" /\ Op
  /\ page' = Corrected([NewPage EXCEPT !.thread = seen, !.done = page.done, !.told = page.told])
  /\ seen' = page'.thread
  /\ stream' = IF seen.listed THEN NewStream ELSE NoStream
  /\ health' = IF seen.listed THEN Health("connecting", 0) ELSE Health("offline", 0)
  /\ submit' = NoSubmit
  /\ polls' = {}
  /\ cutoff' = Cutoff
  /\ known' = Listable
  /\ exact' = (exact /\ seen = page.thread /\ page.run = NoRun /\ submit = NoSubmit)
  /\ settled' = (settled /\ seen = page.thread /\ cursor = Len(log))
  /\ UNCHANGED <<server, cursor, place, auth>>

(* onLogout forgets everything.                                            *)
Logout ==
  /\ auth = "ready" /\ Op
  /\ auth' = "locked"
  /\ page' = NewPage
  /\ cursor' = 0
  /\ stream' = NoStream
  /\ health' = Health("offline", 0)
  /\ place' = "open"
  /\ polls' = {}
  /\ submit' = [submit EXCEPT !.shown = FALSE]
  /\ UNCHANGED <<server, seen, cutoff, known, ghosts>>

(* unlockWorkspace: the streams start when the session was listed.  A      *)
(* stream that was started while the page was locked is stopped, but its   *)
(* cursor stays.                                                           *)
Login ==
  /\ auth = "locked" /\ Op
  /\ auth' = "ready"
  /\ page' = Corrected([Stopped(page) EXCEPT !.thread = [Unlisted EXCEPT !.listed = TRUE],
                                              !.told = NewPage.told])
  /\ seen' = page'.thread
  /\ stream' = NewStream
  /\ health' = Health("connecting", 0)
  /\ cutoff' = Cutoff
  /\ known' = Listable
  /\ exact' = (exact /\ cursor = 0 /\ page.done = <<>>)
  /\ settled' = (settled /\ cursor = 0 /\ page.done = <<>>)
  /\ UNCHANGED <<server, cursor, submit, polls, place>>

-----------------------------------------------------------------------------
(* Submitting a prompt, or a review.  An entry of the kind "notice" tells  *)
(* the user something that changes nothing of a run.                       *)

(* submittingThreadID shows a submission until the user logs out.          *)
Busy == seen.job # 0 \/ submit.shown

Submittable == auth = "ready" /\ seen.listed /\ Active /\ Op

Tried(p, sub) ==
  /\ page' = p
  /\ submit' = sub
  /\ UNCHANGED <<server, seen, cursor, stream, health, polls, place, auth, cutoff, known, ghosts>>

Notice == Tried(AddEntry(page, "notice", NoBody), submit)

Sent(review) == [phase |-> "sent", run |-> 0, review |-> review, shown |-> TRUE]

(* submitPromptForActiveThread.                                            *)
Submit ==
  IF Busy THEN Notice
  ELSE submit = NoSubmit /\ Tried(AddEntry(page, "user", NoBody), Sent(FALSE))

SendPrompt == Submittable /\ Submit

(* The last prompt again; there may be none to send.                       *)
LastUserPrompt(timeline) == SelectSeq(timeline, LAMBDA e : e.kind = "user")

Regenerate ==
  /\ Submittable
  /\ IF LastUserPrompt(seen.timeline) = <<>> THEN Notice ELSE Submit

(* A prompt that is edited before it is sent again may be empty then.      *)
EditAndResend(empty) ==
  /\ Submittable
  /\ LastUserPrompt(seen.timeline) # <<>>
  /\ IF empty THEN Notice ELSE Submit

(* startReviewForActiveThread; there may be nothing to review.             *)
StartReview(scoped) ==
  /\ Submittable
  /\ IF Busy \/ ~scoped THEN Notice ELSE submit = NoSubmit /\ Tried(page, Sent(TRUE))

(* The server starts the turn; its answer comes later.                     *)
Accept ==
  /\ submit.phase = "sent"
  /\ \E r \in Runs :
       /\ runs[r].kind = "turn"
       /\ Begin(r)
       /\ submit' = [submit EXCEPT !.phase = "answered", !.run = r]
  /\ UNCHANGED <<page, seen, cursor, stream, health, polls, place, auth, cutoff, known, ops,
                 ghosts>>

(* The answer can come before the events of the runs before, or after the  *)
(* end of its own run; then the page starts anew to read a run that is     *)
(* over, or forgets one that is not.                                       *)
Timely(r) ==
  /\ \A k \in DOMAIN log : log[k].run < r => k <= cursor
  /\ \A k \in 1..cursor : log[k].run <= r /\ (log[k].run = r => log[k].type \notin EndTypes)

Running(r) ==
  /\ submit.phase = "answered"
  /\ page' = SetJob(EnsureRun(page, r), r, "running")
  /\ stream' = IF stream.phase = "off" THEN NewStream ELSE stream
  /\ health' = IF stream.phase = "off" THEN Health("connecting", 0) ELSE health
  /\ submit' = NoSubmit
  /\ exact' = (exact /\ Timely(r) /\ auth = "ready")
  /\ settled' = (settled /\ Timely(r) /\ auth = "ready")
  /\ UNCHANGED <<server, seen, cursor, polls, place, auth, cutoff, known, ops>>

TurnAccepted == ~submit.review /\ Running(submit.run)
ReviewAccepted == submit.review /\ Running(submit.run)

(* The turn is refused, or its answer is lost; only a prompt's failure     *)
(* ends the reply that is being written.                                   *)
NotRunning(p) ==
  /\ submit.phase # "none" /\ Op
  /\ page' = SetJob(AddEntry(p, "failed", NoBody), 0, "failed")
  /\ submit' = NoSubmit
  /\ exact' = (exact /\ submit.phase = "sent" /\ page.run = NoRun)
  /\ settled' = FALSE
  /\ UNCHANGED <<server, seen, cursor, stream, health, polls, place, auth, cutoff, known>>

TurnRefused == ~submit.review /\ NotRunning(EndReply(page, "error", NoBody))
ReviewRefused == submit.review /\ NotRunning(page)

(* onStopActiveSessionRun: the server is asked, and an entry says so.      *)
Stop ==
  /\ auth = "ready" /\ Active /\ seen.job # 0 /\ Op
  /\ page' = AddEntry(page, "notice", NoBody)
  /\ UNCHANGED <<server, seen, cursor, stream, health, submit, polls, place, auth, cutoff, known,
                 ghosts>>

-----------------------------------------------------------------------------
(* Polling.                                                                *)

NewPoll(n, r) ==
  [n |-> n, run |-> r, after |-> page.jobs[r].cursor, shown |-> place = "open",
   active |-> Active, phase |-> "sent", ans |-> NoJob]

Poll ==
  LET r == seen.job
  IN /\ auth = "ready" /\ r \in known /\ Op
     /\ Cardinality(polls) < 2
     /\ polls' = polls \cup {NewPoll(Cardinality(polls), r)}
     /\ UNCHANGED <<server, page, seen, cursor, stream, health, submit, place, auth, cutoff,
                    known, ghosts>>

(* The record of a job has its end and its response when it is final.      *)
AnswerOf(q, ok) ==
  LET r == q.run
      text == TextOf(r)
      from == IF q.after = 0 THEN 1 ELSE q.after
  IN [ok |-> ok,
      status |-> IF runs[r].final THEN runs[r].state ELSE "running",
      failed |-> runs[r].final /\ ~runs[r].ok,
      text |-> IF runs[r].final THEN text ELSE <<>>,
      pieces |-> SubSeq(text, from, Len(text)),
      next |-> runs[r].pieces]

PollAnswered(ok) ==
  \E q \in polls :
    /\ q.phase = "sent"
    /\ polls' = (polls \ {q}) \cup {[q EXCEPT !.phase = "answered", !.ans = AnswerOf(q, ok)]}
    /\ UNCHANGED <<server, page, seen, cursor, stream, health, submit, place, auth, cutoff,
                   known, ops, ghosts>>

(* The answer about a run that is over ends it on the page whatever the    *)
(* page has heard: of a next run, which the page then forgets, or not of   *)
(* this one yet, when the events are replayed.                             *)
LastHeard == IF cursor = 0 THEN 0 ELSE log[cursor].run

PollLands ==
  \E q \in polls :
    /\ q.phase = "answered"
    /\ polls' = polls \ {q}
    /\ page' = Polled(page, q.run, q.ans, q.run \notin cutoff.jobs, q.shown, q.active)
    /\ known' = IF q.ans.ok THEN Listable ELSE known
    /\ exact' = FALSE
    /\ settled' = (settled /\ q.ans.ok /\ IF page'.thread.job = 0 THEN LastHeard = q.run
                                            ELSE page'.thread.job = page.thread.job)
    /\ UNCHANGED <<server, seen, cursor, stream, health, submit, place, auth, cutoff, ops>>

-----------------------------------------------------------------------------

Init ==
  /\ log = <<>>
  /\ \E s \in Scenarios :
       /\ ops = s.ops
       /\ runs = [r \in Runs |-> [kind |-> s.kinds[r], state |-> "none", pieces |-> 0,
                                  ok |-> TRUE, final |-> FALSE]]
  /\ page = [NewPage EXCEPT !.thread = [Unlisted EXCEPT !.listed = TRUE]]
  /\ seen = page.thread
  /\ cursor = 0
  /\ stream = NewStream
  /\ health = Health("connecting", 0)
  /\ submit = NoSubmit
  /\ polls = {}
  /\ place = "open"
  /\ auth = "ready"
  /\ cutoff = [log |-> 0, jobs |-> {}]
  /\ known = {}
  /\ exact = TRUE
  /\ settled = TRUE

ServerNext ==
  \E r \in Runs :
    \/ Start(r)
    \/ Emit(r)
    \/ \E how \in Ended, ok \in BOOLEAN : End(r, how, ok)
    \/ Settle(r)
    \/ Recover(r)

StreamNext ==
  \/ OpenSocket
  \/ OpenEvents
  \/ FallBack
  \/ Deliver
  \/ Ready
  \/ \E broken \in BOOLEAN : Close(broken)
  \/ Reset
  \/ Idle
  \/ Reconnect

UserNext ==
  \/ Leave
  \/ Relist
  \/ \E where \in {"open", "ops", "other"} : Look(where)
  \/ ClearAlerts
  \/ Refresh
  \/ Reload
  \/ Logout
  \/ Login
  \/ Stop

SubmitNext ==
  \/ SendPrompt
  \/ Regenerate
  \/ \E empty \in BOOLEAN : EditAndResend(empty)
  \/ \E scoped \in BOOLEAN : StartReview(scoped)
  \/ Accept
  \/ TurnAccepted
  \/ ReviewAccepted
  \/ TurnRefused
  \/ ReviewRefused

PollNext ==
  \/ Poll
  \/ \E ok \in BOOLEAN : PollAnswered(ok)
  \/ PollLands

Next == ServerNext \/ StreamNext \/ Render \/ UserNext \/ SubmitNext \/ PollNext

Spec == Init /\ [][Next]_vars

-----------------------------------------------------------------------------
(* Properties.                                                             *)

TypeOK ==
  /\ cursor \in 0..Len(log)
  /\ stream.phase \in {"off", "waiting", "open"}
  /\ stream.phase = "open" => stream.from <= stream.sent /\ stream.sent <= Len(log)
  /\ health.state \in {"connecting", "live", "reconnecting", "error", "offline"}
  /\ submit.phase \in {"none", "sent", "answered"}
  /\ page.thread.job \in Runs \cup {0}
  /\ page.thread.last \in Ended \cup {"idle", "running"}
  /\ known \subseteq Runs
  /\ Len(page.alerts) <= MaxAlerts

(* Between a login and a logout nobody is told of the end of a run twice,  *)
(* however the stream is replayed, the page is reloaded, and polls and the *)
(* stream meet.                                                            *)
ToldOnce == \A r \in Runs : page.told[r] <= 1

(* Where the replies are in a timeline.                                    *)
Replies(timeline) == {i \in DOMAIN timeline : timeline[i].kind = "assistant"}

(* What the server says in a run; a run without a text has the fallback    *)
(* when it succeeds, and no reply before.                                  *)
ReplyOf(r) ==
  IF TextOf(r) # <<>> THEN TextOf(r)
  ELSE IF runs[r].pieces > 0 /\ runs[r].state = "succeeded" /\ runs[r].ok THEN Fallback
  ELSE <<>>

Answered == {r \in Runs : ReplyOf(r) # <<>>}

CaughtUp == stream.phase = "open" /\ stream.sent = Len(log) /\ cursor = Len(log)

(* When the stream has caught up, the timeline shows the replies of the    *)
(* runs: each reply is that of a run of its own, complete, in the order of *)
(* the runs, and every run that was answered has one.                      *)
TimelineFaithful ==
  CaughtUp /\ exact /\ page.thread.listed =>
    LET timeline == page.thread.timeline
    IN \E run \in [Replies(timeline) -> Answered] :
         /\ \A i, j \in Replies(timeline) : i < j => run[i] < run[j]
         /\ \A r \in Answered : \E i \in Replies(timeline) : run[i] = r
         /\ \A i \in Replies(timeline) : timeline[i].body = ReplyOf(run[i])

(* When the stream has caught up, the session runs what the server runs.   *)
StatusSettles ==
  CaughtUp /\ settled /\ page.thread.listed =>
    /\ page.thread.job = (IF Status = "running" THEN Latest ELSE 0)
    /\ Begun # {} => page.thread.last \in {Outcome(Latest), Status}
=============================================================================
