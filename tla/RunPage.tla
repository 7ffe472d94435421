------------------------------- MODULE RunPage -------------------------------
(***************************************************************************)
(* What the browser does to one session when it hears of its runs: from    *)
(* the events of the session's stream                                      *)
(* (src/web/src/features/session/session-run-events.ts) and from polling   *)
(* the jobs it knows (use-session-job-polling.ts).                         *)
(*                                                                         *)
(* A page is a record: the session in the tree (thread), the state of the  *)
(* run that is read (run), what is remembered of the polled jobs (jobs),   *)
(* the runs that are done (done), the alerts, and how often the user was   *)
(* told of the end of each run (told, a ghost).  A text is a sequence of   *)
(* pieces.  Cards, titles and the wording of entries are left out; the     *)
(* entry that reports a failure has the kind "failed".                     *)
(***************************************************************************)
EXTENDS Timeline

CONSTANTS
  Runs,           (* the runs: 1..n; 0 is none                              *)
  MaxDone,        (* MAX_COMPLETED_RUN_CACHE_SIZE                           *)
  MaxAlerts,      (* how many alerts are kept                               *)
  MaxTries        (* polls that wait for the text of a job that succeeded   *)

Fallback == << <<0, 0>> >>                      \* EMPTY_ASSISTANT_FALLBACK

NoRun == [id |-> 0, out |-> <<>>, seen |-> FALSE, final |-> FALSE, hints |-> FALSE]

NoJob == [cursor |-> 0, seen |-> FALSE, tries |-> 0]

Unlisted == [listed |-> FALSE, timeline |-> <<>>, job |-> 0, last |-> "idle", unread |-> FALSE]

NewPage ==
  [thread |-> Unlisted, run |-> NoRun, jobs |-> [r \in Runs |-> NoJob], done |-> <<>>,
   alerts |-> <<>>, told |-> [r \in Runs |-> 0]]

-----------------------------------------------------------------------------
(* The session; an update of a session that is not in the tree is lost.    *)

WithThread(p, Update(_)) ==
  IF p.thread.listed THEN [p EXCEPT !.thread = Update(@)] ELSE p

AddEntry(p, kind, body) ==
  WithThread(p, LAMBDA x :
    [x EXCEPT !.timeline = Append(@, Entry(0, kind, IF kind = "assistant" THEN "success" ELSE "none",
                                           body))])

WriteReply(p, body) ==
  WithThread(p, LAMBDA x : [x EXCEPT !.timeline = Upserted(@, 0, body)])

EndReply(p, state, body) ==
  WithThread(p, LAMBDA x : [x EXCEPT !.timeline = Finalized(@, 0, state, body)])

SetJob(p, r, status) == WithThread(p, LAMBDA x : JobState(x, r, status))

MarkUnread(p) == WithThread(p, LAMBDA x : [x EXCEPT !.unread = TRUE])

-----------------------------------------------------------------------------
(* The runs that are done, and the alerts.                                 *)

Newest(s, n) == IF Len(s) > n THEN SubSeq(s, Len(s) - n + 1, Len(s)) ELSE s

HasCompletedRun(p, r) == Contains(p.done, r)

(* Mutation: nothing is remembered.                                        *)
NeverRemembered(p, r) == p

MarkRunCompleted(p, r) ==
  IF HasCompletedRun(p, r) THEN p ELSE [p EXCEPT !.done = Newest(Append(@, r), MaxDone)]

(* An alert that says the same as one that is shown is not shown twice.    *)
PushSessionAlert(alerts, status) ==
  IF Contains(alerts, status) THEN alerts ELSE Newest(Append(alerts, status), MaxAlerts)

(* The user is notified, and an alert is shown.                            *)
Tell(p, r, status) ==
  [p EXCEPT !.alerts = PushSessionAlert(@, status), !.told[r] = @ + 1]

(* markSessionDone, and the mark on a session that is not the active one.  *)
MarkSessionDone(p, r, status, surface, active) ==
  LET q == MarkRunCompleted(p, r)
  IN IF HasCompletedRun(p, r) \/ ~surface THEN q
     ELSE IF active THEN Tell(q, r, status)
     ELSE MarkUnread(Tell(q, r, status))

-----------------------------------------------------------------------------
(* The events of a stream: [type, run, text, ok].                          *)

EnsureRun(p, r) == IF p.run.id = r THEN p ELSE [p EXCEPT !.run = [NoRun EXCEPT !.id = r]]

DeleteRun(p) == [p EXCEPT !.run = NoRun]

RunStarted(p, e) == SetJob(EnsureRun(p, e.run), e.run, "running")

(* A line that has text marks the stream as seen, and so does the first    *)
(* line of a run's output, thread.started, which has none; the lines of    *)
(* neither kind, which leave the mark as it is, are not among the events.  *)
AssistantDelta(p, e) ==
  LET q == [EnsureRun(p, e.run) EXCEPT !.run.out = @ \o e.text, !.run.seen = TRUE]
  IN IF q.run.out = <<>> THEN q ELSE WriteReply(q, q.run.out)

AssistantCompleted(p, e) ==
  LET q == EnsureRun(p, e.run)
  IN IF q.run.out = <<>> THEN [q EXCEPT !.run.final = FALSE]
     ELSE [EndReply(q, "success", q.run.out) EXCEPT !.run.seen = TRUE, !.run.final = TRUE]

TargetDone(p, e) == [EnsureRun(p, e.run) EXCEPT !.run.hints = @ \/ ~e.ok]

(* run.failed and run.canceled: whether the run was done before is looked  *)
(* at only for telling the user.                                           *)
RunBroken(p, e, status, surface, active) ==
  LET q == EnsureRun(p, e.run)
      ended == IF q.run.seen THEN EndReply(q, "error", NoBody) ELSE q
      shown == SetJob(AddEntry(ended, "failed", NoBody), 0, status)
  IN DeleteRun(MarkSessionDone(shown, e.run, status, surface, active))

(* finalizeStreamCompleted.  It reads whatever run is being read.          *)
ReplyCompleted(p) ==
  IF p.run.final THEN p
  ELSE IF p.run.out # <<>>
       THEN IF p.run.seen THEN EndReply(p, "success", p.run.out)
            ELSE AddEntry(p, "assistant", p.run.out)
  ELSE IF p.run.seen THEN EndReply(p, "success", Fallback)
  ELSE p

RunCompleted(p, e, surface, active) ==
  LET failed == SetJob(AddEntry(IF p.run.seen THEN EndReply(p, "error", NoBody) ELSE p,
                                "failed", NoBody), 0, "failed")
      succeeded == ReplyCompleted(SetJob(p, 0, "succeeded"))
  IN IF HasCompletedRun(p, e.run) THEN p
     ELSE IF p.run.hints
          THEN DeleteRun(MarkSessionDone(failed, e.run, "failed", surface, active))
          ELSE DeleteRun(MarkSessionDone(succeeded, e.run, "succeeded", surface, active))

(* handleSessionEventRecord.                                               *)
HandleSessionEvent(p, e, surface, active) ==
  CASE e.type = "run.started"         -> RunStarted(p, e)
    [] e.type = "assistant.delta"     -> AssistantDelta(p, e)
    [] e.type = "assistant.completed" -> AssistantCompleted(p, e)
    [] e.type = "target.done"         -> TargetDone(p, e)
    [] e.type = "run.failed"          -> RunBroken(p, e, "failed", surface, active)
    [] e.type = "run.canceled"        -> RunBroken(p, e, "canceled", surface, active)
    [] e.type = "run.completed"       -> RunCompleted(p, e, surface, active)

-----------------------------------------------------------------------------
(* The answer of one poll of the job r: [ok, status, text, failed, pieces, *)
(* next]: whether the job was read, its status, the text of its response   *)
(* and whether a target failed, and the output after the cursor.  The poll *)
(* was made while the session was shown or not.                            *)

PollFailed(p) == SetJob(AddEntry(p, "failed", NoBody), 0, "failed")

PrefersStream(p, r) == p.run.id = r /\ (p.run.seen \/ p.run.final)

(* The output goes to the run that is read, unless the stream writes it.   *)
OutputPolled(p, r, ans, shown) ==
  LET c == [p EXCEPT !.jobs[r].cursor = ans.next]
      q == [EnsureRun(c, r) EXCEPT !.run.out = @ \o ans.pieces]
  IN IF PrefersStream(p, r) THEN c
     ELSE IF HasCompletedRun(p, r) \/ ~shown \/ ans.next = p.jobs[r].cursor THEN q
     ELSE [IF q.run.out = <<>> THEN q ELSE WriteReply(q, q.run.out) EXCEPT !.jobs[r].seen = TRUE]

(* A job that succeeded without a text may get it yet.                     *)
AwaitsText(p, r, ans) ==
  /\ ans.status = "succeeded" /\ ~ans.failed /\ ans.text = <<>>
  /\ p.jobs[r].tries < MaxTries

TerminalStatus(ans) == IF ans.status = "succeeded" /\ ans.failed THEN "failed" ELSE ans.status

ReplyPolled(p, sawAny, text) ==
  IF sawAny THEN EndReply(p, "success", IF text = <<>> THEN Fallback ELSE text)
  ELSE IF text # <<>> THEN AddEntry(p, "assistant", text) ELSE p

(* The end of a job; p is the page before the poll, q after its output.    *)
JobEnded(p, q, r, ans, surface, active) ==
  LET text == IF ans.status = "succeeded" THEN ans.text ELSE <<>>
      sawAny == PrefersStream(p, r) \/ q.jobs[r].seen
      over == [(IF ~PrefersStream(p, r) /\ q.run.id = r THEN DeleteRun(q) ELSE q)
               EXCEPT !.jobs[r] = NoJob]
      settled == SetJob(over, 0, TerminalStatus(ans))
      marked == IF surface /\ ~active THEN MarkUnread(settled) ELSE settled
      ended == IF TerminalStatus(ans) = "succeeded" THEN ReplyPolled(marked, sawAny, text)
               ELSE AddEntry(IF sawAny THEN EndReply(marked, "error", NoBody) ELSE marked,
                             "failed", NoBody)
      known == MarkRunCompleted(ended, r)
  IN IF HasCompletedRun(p, r)
     THEN IF ans.status = "succeeded" /\ sawAny THEN ReplyPolled(marked, TRUE, text) ELSE marked
     ELSE IF surface THEN Tell(known, r, TerminalStatus(ans)) ELSE known

Polled(p, r, ans, surface, shown, active) ==
  LET q == OutputPolled(p, r, ans, shown)
  IN IF ~ans.ok THEN PollFailed(p)
     ELSE IF ans.status = "running" THEN SetJob(q, r, "running")
     ELSE IF AwaitsText(q, r, ans)
          THEN SetJob([q EXCEPT !.jobs[r].tries = @ + 1], r, "running")
     ELSE JobEnded(p, q, r, ans, surface, active)
=============================================================================
