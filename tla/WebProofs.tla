------------------------------ MODULE WebProofs ------------------------------
(***************************************************************************)
(* Proofs about four parts of the web client: the runs of a session and    *)
(* what the browser makes of them, their status, their ends and their      *)
(* replies in the timeline (WebRuns), for every set of runs; the frames of *)
(* its event stream (EventStream), wherever the chunks end; the pending    *)
(* requests, their list and the answers to them (WebRequests), for every   *)
(* set of requests and sessions and any number of lists; and the scrolling *)
(* of the timeline (TimelineScroll), for any sessions, changes and moves   *)
(* of the user.                                                            *)
(*                                                                         *)
(* The parts share no state.  The first is extended, the others are        *)
(* instances with variables of their own.                                  *)
(***************************************************************************)
EXTENDS WebRuns, FiniteSetTheorems, SequenceTheorems, WellFoundedInduction, TLAPS

-----------------------------------------------------------------------------
(* The page.                                                               *)

IsPage(p) ==
  /\ DOMAIN p = {"thread", "run", "jobs", "done", "alerts", "told"}
  /\ DOMAIN p.thread = {"listed", "timeline", "job", "last", "unread"}
  /\ DOMAIN p.run = {"id", "out", "seen", "final", "hints"}
  /\ p.done \in Seq(Runs)
  /\ p.told \in [Runs -> Nat]

(* Nothing but the text, the alerts and the marks of a page is new.        *)
SameRuns(p, q) ==
  /\ IsPage(q)
  /\ q.run = p.run
  /\ q.done = p.done /\ q.told = p.told
  /\ q.thread.listed = p.thread.listed
  /\ q.thread.job = p.thread.job /\ q.thread.last = p.thread.last

LEMMA SameTwice ==
  ASSUME NEW p, NEW q, NEW s, SameRuns(p, q), SameRuns(q, s)
  PROVE  SameRuns(p, s)
BY DEF SameRuns

LEMMA AddEntrySame ==
  ASSUME NEW p, IsPage(p), NEW kind, NEW body
  PROVE  SameRuns(p, AddEntry(p, kind, body))
BY DEF AddEntry, WithThread, IsPage, SameRuns

LEMMA WriteReplySame ==
  ASSUME NEW p, IsPage(p), NEW body
  PROVE  SameRuns(p, WriteReply(p, body))
BY DEF WriteReply, WithThread, IsPage, SameRuns

LEMMA EndReplySame ==
  ASSUME NEW p, IsPage(p), NEW state, NEW body
  PROVE  SameRuns(p, EndReply(p, state, body))
BY DEF EndReply, WithThread, IsPage, SameRuns

LEMMA MarkUnreadSame ==
  ASSUME NEW p, IsPage(p)
  PROVE  SameRuns(p, MarkUnread(p))
BY DEF MarkUnread, WithThread, IsPage, SameRuns

(* The run and the status of the session are set when it is listed.        *)
JobSet(p, q, r, status) ==
  /\ IsPage(q)
  /\ q.run = p.run
  /\ q.done = p.done /\ q.told = p.told
  /\ q.thread.listed = p.thread.listed
  /\ IF p.thread.listed THEN q.thread.job = r /\ q.thread.last = status
     ELSE q.thread.job = p.thread.job /\ q.thread.last = p.thread.last

LEMMA SetJobSets ==
  ASSUME NEW p, IsPage(p), NEW r, NEW status, status # ""
  PROVE  JobSet(p, SetJob(p, r, status), r, status)
BY DEF SetJob, JobState, WithThread, IsPage, JobSet

(* What the rest of an event finds: the same session, and r read.          *)
Reads(p, q, r) ==
  /\ IsPage(q)
  /\ q.run.id = r
  /\ q.run.hints => p.run.id = r /\ p.run.hints
  /\ q.done = p.done /\ q.told = p.told
  /\ q.thread.listed = p.thread.listed
  /\ q.thread.job = p.thread.job /\ q.thread.last = p.thread.last

LEMMA RunEnsured ==
  ASSUME NEW p, IsPage(p), NEW r
  PROVE  Reads(p, EnsureRun(p, r), r)
<1>1. CASE p.run.id = r
  BY <1>1 DEF EnsureRun, IsPage, Reads
<1>2. CASE p.run.id # r
  BY <1>2 DEF EnsureRun, NoRun, IsPage, Reads
<1> QED
  BY <1>1, <1>2

LEMMA ReadsSame ==
  ASSUME NEW p, NEW q, NEW s, NEW r, Reads(p, q, r), SameRuns(q, s)
  PROVE  Reads(p, s, r)
BY DEF Reads, SameRuns

-----------------------------------------------------------------------------
(* The events.                                                             *)

LEMMA StartedPage ==
  ASSUME NEW p, IsPage(p), NEW e
  PROVE  LET q == RunStarted(p, e)
         IN /\ IsPage(q)
            /\ q.run.id = e.run
            /\ q.run.hints => p.run.id = e.run /\ p.run.hints
            /\ q.done = p.done /\ q.told = p.told
            /\ q.thread.listed = p.thread.listed
            /\ p.thread.listed => q.thread.job = e.run /\ q.thread.last = "running"
<1> DEFINE m == EnsureRun(p, e.run)
<1>1. Reads(p, m, e.run)
  BY RunEnsured
<1>2. JobSet(m, SetJob(m, e.run, "running"), e.run, "running")
  BY <1>1, SetJobSets DEF Reads
<1> QED
  BY <1>1, <1>2 DEF RunStarted, JobSet, Reads

LEMMA DeltaPage ==
  ASSUME NEW p, IsPage(p), NEW e
  PROVE  Reads(p, AssistantDelta(p, e), e.run)
<1> DEFINE m == EnsureRun(p, e.run)
           q == [m EXCEPT !.run.out = @ \o e.text, !.run.seen = TRUE]
<1>1. Reads(p, m, e.run)
  BY RunEnsured
<1>2. Reads(p, q, e.run)
  BY <1>1 DEF Reads, IsPage
<1>3. SameRuns(q, WriteReply(q, q.run.out))
  BY <1>2, WriteReplySame DEF Reads
<1>4. Reads(p, WriteReply(q, q.run.out), e.run)
  BY <1>2, <1>3, ReadsSame
<1> HIDE DEF m
<1> QED
  BY <1>2, <1>4 DEF AssistantDelta, m

LEMMA CompletedReplyPage ==
  ASSUME NEW p, IsPage(p), NEW e
  PROVE  Reads(p, AssistantCompleted(p, e), e.run)
<1> DEFINE q == EnsureRun(p, e.run)
           s == EndReply(q, "success", q.run.out)
<1>1. Reads(p, q, e.run)
  BY RunEnsured
<1>2. Reads(p, [q EXCEPT !.run.final = FALSE], e.run)
  BY <1>1 DEF Reads, IsPage
<1>3. SameRuns(q, s)
  BY <1>1, EndReplySame DEF Reads
<1>4. Reads(p, s, e.run)
  BY <1>1, <1>3, ReadsSame
<1>5. Reads(p, [s EXCEPT !.run.seen = TRUE, !.run.final = TRUE], e.run)
  <2> HIDE DEF s
  <2> QED BY <1>4 DEF Reads, IsPage
<1> HIDE DEF q
<1> QED
  BY <1>2, <1>5 DEF AssistantCompleted, q

(* The hints of a failure.                                                 *)
LEMMA TargetDonePage ==
  ASSUME NEW p, IsPage(p), NEW e
  PROVE  LET q == TargetDone(p, e)
         IN /\ IsPage(q)
            /\ q.run.id = e.run
            /\ q.run.hints => (p.run.id = e.run /\ p.run.hints) \/ ~e.ok
            /\ q.done = p.done /\ q.told = p.told
            /\ q.thread.listed = p.thread.listed
            /\ q.thread.job = p.thread.job /\ q.thread.last = p.thread.last
<1> DEFINE m == EnsureRun(p, e.run)
<1>1. Reads(p, m, e.run)
  BY RunEnsured
<1> HIDE DEF m
<1> QED
  BY <1>1 DEF TargetDone, Reads, IsPage, m

-----------------------------------------------------------------------------
(* The end of a run.                                                       *)

Marked(done, r) ==
  IF Contains(done, r) THEN done ELSE Newest(Append(done, r), MaxDone)

LEMMA NewestOf ==
  ASSUME NEW s \in Seq(Runs), MaxDone \in Nat
  PROVE  /\ Newest(s, MaxDone) \in Seq(Runs)
         /\ \A x : Contains(Newest(s, MaxDone), x) => Contains(s, x)
         /\ Len(s) <= MaxDone => Newest(s, MaxDone) = s
<1>1. CASE Len(s) <= MaxDone
  BY <1>1 DEF Newest
<1>2. CASE ~(Len(s) <= MaxDone)
  <2> DEFINE m == Len(s) - MaxDone + 1
             q == SubSeq(s, m, Len(s))
  <2>1. Newest(s, MaxDone) = q
    BY <1>2 DEF Newest
  <2>2. m \in Nat /\ 1 <= m /\ m <= Len(s) + 1
    BY <1>2
  <2>3. q \in Seq(Runs) /\ Len(q) = Len(s) - m + 1
        /\ \A k \in 1..Len(q) : q[k] = s[m + k - 1] /\ m + k - 1 \in 1..Len(s)
    BY <2>2
  <2>4. ASSUME NEW x, Contains(q, x) PROVE Contains(s, x)
    <3>1. PICK k \in 1..Len(q) : q[k] = x
      BY <2>4 DEF Contains
    <3> QED
      BY <3>1, <2>3 DEF Contains
  <2> QED
    BY <1>2, <2>1, <2>3, <2>4
<1> QED
  BY <1>1, <1>2

LEMMA MarkedIs ==
  ASSUME NEW s \in Seq(Runs), NEW r \in Runs, MaxDone \in Nat
  PROVE  /\ Marked(s, r) \in Seq(Runs)
         /\ \A x : Contains(Marked(s, r), x) => x = r \/ Contains(s, x)
<1>1. CASE Contains(s, r)
  BY <1>1 DEF Marked
<1>2. CASE ~Contains(s, r)
  <2> DEFINE a == Append(s, r)
  <2>1. a \in Seq(Runs) /\ Len(a) = Len(s) + 1
        /\ \A k \in 1..Len(a) : IF k = Len(a) THEN a[k] = r ELSE k \in 1..Len(s) /\ a[k] = s[k]
    OBVIOUS
  <2>2. Newest(a, MaxDone) \in Seq(Runs) /\ \A x : Contains(Newest(a, MaxDone), x) => Contains(a, x)
    BY <2>1, NewestOf
  <2>3. ASSUME NEW x, Contains(a, x) PROVE x = r \/ Contains(s, x)
    BY <2>1, <2>3 DEF Contains
  <2> QED
    BY <1>2, <2>2, <2>3 DEF Marked
<1> QED
  BY <1>1, <1>2

(* r is done, and the user was told of it or not.                          *)
MadeDone(p, q, r) ==
  /\ IsPage(q)
  /\ q.run = p.run
  /\ q.done = Marked(p.done, r)
  /\ \/ q.told = p.told
     \/ ~Contains(p.done, r) /\ q.told = [p.told EXCEPT ![r] = @ + 1]
  /\ q.thread.listed = p.thread.listed
  /\ q.thread.job = p.thread.job /\ q.thread.last = p.thread.last

LEMMA MarkedPage ==
  ASSUME NEW p, IsPage(p), NEW r \in Runs, MaxDone \in Nat
  PROVE  LET q == MarkRunCompleted(p, r)
         IN IsPage(q) /\ q.run = p.run /\ q.done = Marked(p.done, r) /\ q.told = p.told
            /\ q.thread = p.thread
<1>1. Marked(p.done, r) \in Seq(Runs)
  BY MarkedIs DEF IsPage
<1>2. CASE Contains(p.done, r)
  BY <1>2 DEF MarkRunCompleted, HasCompletedRun, Marked, IsPage
<1>3. CASE ~Contains(p.done, r)
  <2>1. MarkRunCompleted(p, r) = [p EXCEPT !.done = Marked(p.done, r)]
    BY <1>3 DEF MarkRunCompleted, HasCompletedRun, Marked
  <2> QED
    BY <1>1, <2>1 DEF IsPage
<1> QED
  BY <1>2, <1>3

(* The user was told of r.                                                 *)
Notified(p, q, r) ==
  /\ IsPage(q)
  /\ q.run = p.run /\ q.done = p.done /\ q.thread = p.thread
  /\ q.told = [p.told EXCEPT ![r] = @ + 1]

LEMMA TellPage ==
  ASSUME NEW p, IsPage(p), NEW r \in Runs, NEW status
  PROVE  Notified(p, Tell(p, r, status), r)
BY DEF Tell, IsPage, Notified

LEMMA DonePage ==
  ASSUME NEW p, IsPage(p), NEW r \in Runs, NEW status, NEW surface, NEW active, MaxDone \in Nat
  PROVE  MadeDone(p, MarkSessionDone(p, r, status, surface, active), r)
<1> DEFINE q == MarkRunCompleted(p, r)
           t == Tell(q, r, status)
<1>1. IsPage(q) /\ q.run = p.run /\ q.done = Marked(p.done, r) /\ q.told = p.told
      /\ q.thread = p.thread
  BY MarkedPage
<1>2. IsPage(t) /\ t.run = q.run /\ t.done = q.done /\ t.thread = q.thread
      /\ t.told = [q.told EXCEPT ![r] = @ + 1]
  <2> HIDE DEF q
  <2> QED BY <1>1, TellPage DEF Notified
<1> HIDE DEF q, t
<1>3. SameRuns(t, MarkUnread(t))
  BY <1>2, MarkUnreadSame
<1>4. CASE HasCompletedRun(p, r) \/ ~surface
  BY <1>1, <1>4 DEF MarkSessionDone, MadeDone, q
<1>5. CASE ~(HasCompletedRun(p, r) \/ ~surface)
  <2>1. MarkSessionDone(p, r, status, surface, active) \in {t, MarkUnread(t)}
    BY <1>5 DEF MarkSessionDone, q, t
  <2>2. ~Contains(p.done, r)
    BY <1>5 DEF HasCompletedRun
  <2>3. MadeDone(p, t, r)
    BY <1>1, <1>2, <2>2 DEF MadeDone
  <2>4. MadeDone(p, MarkUnread(t), r)
    BY <1>3, <2>3 DEF MadeDone, SameRuns
  <2> QED
    BY <2>1, <2>3, <2>4
<1> QED
  BY <1>4, <1>5

(* The end of a run: no run goes on, none is read.                         *)
Over(p, q, r, status) ==
  /\ IsPage(q)
  /\ q.run = NoRun
  /\ q.done = Marked(p.done, r)
  /\ \/ q.told = p.told
     \/ ~Contains(p.done, r) /\ q.told = [p.told EXCEPT ![r] = @ + 1]
  /\ q.thread.listed = p.thread.listed
  /\ p.thread.listed => q.thread.job = 0 /\ q.thread.last = status

LEMMA OverPage ==
  ASSUME NEW p, NEW s, NEW r \in Runs, NEW status, NEW surface, NEW active, MaxDone \in Nat,
         IsPage(s), s.done = p.done, s.told = p.told, s.thread.listed = p.thread.listed,
         p.thread.listed => s.thread.job = 0 /\ s.thread.last = status
  PROVE  Over(p, DeleteRun(MarkSessionDone(s, r, status, surface, active)), r, status)
<1> DEFINE q == MarkSessionDone(s, r, status, surface, active)
<1>1. MadeDone(s, q, r)
  BY DonePage
<1> HIDE DEF q
<1>2. IsPage(DeleteRun(q)) /\ DeleteRun(q).run = NoRun
      /\ DeleteRun(q).done = q.done /\ DeleteRun(q).told = q.told
      /\ DeleteRun(q).thread = q.thread
  BY <1>1 DEF MadeDone, IsPage, DeleteRun, NoRun
<1> QED
  BY <1>1, <1>2 DEF MadeDone, Over, q

LEMMA BrokenPage ==
  ASSUME NEW p, IsPage(p), NEW e, e.run \in Runs, NEW status, status # "", NEW surface,
         NEW active, MaxDone \in Nat
  PROVE  Over(p, RunBroken(p, e, status, surface, active), e.run, status)
<1> DEFINE q == EnsureRun(p, e.run)
           ended == IF q.run.seen THEN EndReply(q, "error", NoBody) ELSE q
           a == AddEntry(ended, "failed", NoBody)
           shown == SetJob(a, 0, status)
<1>1. Reads(p, q, e.run)
  BY RunEnsured
<1>2. Reads(p, ended, e.run)
  <2> HIDE DEF q
  <2>1. SameRuns(q, EndReply(q, "error", NoBody))
    BY <1>1, EndReplySame DEF Reads
  <2>2. Reads(p, EndReply(q, "error", NoBody), e.run)
    BY <1>1, <2>1, ReadsSame
  <2> QED
    BY <1>1, <2>2
<1>3. Reads(p, a, e.run)
  <2> HIDE DEF ended
  <2>1. SameRuns(ended, a)
    BY <1>2, AddEntrySame DEF Reads
  <2> HIDE DEF a
  <2> QED BY <1>2, <2>1, ReadsSame
<1>4. JobSet(a, shown, 0, status)
  <2> HIDE DEF a
  <2> QED BY <1>3, SetJobSets DEF Reads
<1>5. IsPage(shown) /\ shown.done = p.done /\ shown.told = p.told
      /\ shown.thread.listed = p.thread.listed
      /\ (p.thread.listed => shown.thread.job = 0 /\ shown.thread.last = status)
  <2> HIDE DEF a, shown
  <2> QED BY <1>3, <1>4 DEF JobSet, Reads
<1>6. RunBroken(p, e, status, surface, active)
        = DeleteRun(MarkSessionDone(shown, e.run, status, surface, active))
  BY DEF RunBroken
<1> HIDE DEF shown
<1> QED
  BY <1>5, <1>6, OverPage

LEMMA ReplyCompletedSame ==
  ASSUME NEW p, IsPage(p)
  PROVE  SameRuns(p, ReplyCompleted(p))
<1>1. SameRuns(p, p)
  BY DEF SameRuns
<1>2. SameRuns(p, EndReply(p, "success", p.run.out)) /\ SameRuns(p, EndReply(p, "success", Fallback))
  BY EndReplySame
<1>3. SameRuns(p, AddEntry(p, "assistant", p.run.out))
  BY AddEntrySame
<1> QED
  BY <1>1, <1>2, <1>3 DEF ReplyCompleted

LEMMA CompletedPage ==
  ASSUME NEW p, IsPage(p), NEW e, e.run \in Runs, NEW surface, NEW active, MaxDone \in Nat
  PROVE  LET q == RunCompleted(p, e, surface, active)
         IN IF Contains(p.done, e.run) THEN q = p
            ELSE Over(p, q, e.run, IF p.run.hints THEN "failed" ELSE "succeeded")
<1> DEFINE ended == IF p.run.seen THEN EndReply(p, "error", NoBody) ELSE p
           a == AddEntry(ended, "failed", NoBody)
           failed == SetJob(a, 0, "failed")
           done == SetJob(p, 0, "succeeded")
           succeeded == ReplyCompleted(done)
<1>1. SameRuns(p, ended)
  BY EndReplySame DEF SameRuns
<1>2. SameRuns(p, a)
  <2> HIDE DEF ended
  <2>1. SameRuns(ended, a)
    BY <1>1, AddEntrySame DEF SameRuns
  <2> HIDE DEF a
  <2> QED BY <1>1, <2>1, SameTwice
<1>3. JobSet(a, failed, 0, "failed")
  <2> HIDE DEF a
  <2> QED BY <1>2, SetJobSets DEF SameRuns
<1>4. JobSet(p, done, 0, "succeeded")
  BY SetJobSets
<1>5. SameRuns(done, succeeded)
  <2> HIDE DEF done
  <2> QED BY <1>4, ReplyCompletedSame DEF JobSet
<1>6. RunCompleted(p, e, surface, active)
        = IF Contains(p.done, e.run) THEN p
          ELSE IF p.run.hints
               THEN DeleteRun(MarkSessionDone(failed, e.run, "failed", surface, active))
               ELSE DeleteRun(MarkSessionDone(succeeded, e.run, "succeeded", surface, active))
  BY DEF RunCompleted, HasCompletedRun
<1> HIDE DEF a, failed, done, succeeded
<1>7. Over(p, DeleteRun(MarkSessionDone(failed, e.run, "failed", surface, active)), e.run, "failed")
  <2>1. IsPage(failed) /\ failed.done = p.done /\ failed.told = p.told
        /\ failed.thread.listed = p.thread.listed
        /\ (p.thread.listed => failed.thread.job = 0 /\ failed.thread.last = "failed")
    BY <1>2, <1>3 DEF JobSet, SameRuns
  <2> QED
    BY <2>1, OverPage
<1>8. Over(p, DeleteRun(MarkSessionDone(succeeded, e.run, "succeeded", surface, active)), e.run,
           "succeeded")
  <2>1. IsPage(succeeded) /\ succeeded.done = p.done /\ succeeded.told = p.told
        /\ succeeded.thread.listed = p.thread.listed
        /\ (p.thread.listed => succeeded.thread.job = 0 /\ succeeded.thread.last = "succeeded")
    BY <1>4, <1>5 DEF JobSet, SameRuns
  <2> QED
    BY <2>1, OverPage
<1> QED
  BY <1>6, <1>7, <1>8

-----------------------------------------------------------------------------
(* A poll.                                                                 *)

(* The output of a poll is of the run polled, unless the stream writes it. *)
Written(p, q) ==
  /\ IsPage(q)
  /\ q.run.hints => q.run.id = p.run.id /\ p.run.hints
  /\ q.done = p.done /\ q.told = p.told
  /\ q.thread.listed = p.thread.listed
  /\ q.thread.job = p.thread.job /\ q.thread.last = p.thread.last

LEMMA OutputPage ==
  ASSUME NEW p, IsPage(p), NEW r \in Runs, NEW ans, NEW shown
  PROVE  Written(p, OutputPolled(p, r, ans, shown))
<1> DEFINE c == [p EXCEPT !.jobs[r].cursor = ans.next]
           m == EnsureRun(c, r)
           q == [m EXCEPT !.run.out = @ \o ans.pieces]
           w == WriteReply(q, q.run.out)
           v == IF q.run.out = <<>> THEN q ELSE w
           u == [v EXCEPT !.jobs[r].seen = TRUE]
<1>1. IsPage(c) /\ c.run = p.run /\ c.done = p.done /\ c.told = p.told /\ c.thread = p.thread
  BY DEF IsPage
<1>2. Reads(c, m, r)
  <2> HIDE DEF c
  <2> QED BY <1>1, RunEnsured
<1>3. Reads(c, q, r)
  <2> HIDE DEF c, m
  <2> QED BY <1>2 DEF Reads, IsPage
<1>4. Reads(c, v, r)
  <2> HIDE DEF c, q
  <2>1. SameRuns(q, w)
    BY <1>3, WriteReplySame DEF Reads
  <2> HIDE DEF w
  <2> QED BY <1>3, <2>1, ReadsSame
<1>5. Reads(c, u, r)
  <2> HIDE DEF c, v
  <2> QED BY <1>4 DEF Reads, IsPage
<1>6. OutputPolled(p, r, ans, shown) \in {c, q, u}
  BY DEF OutputPolled
<1> HIDE DEF c, q, u
<1> QED
  BY <1>1, <1>3, <1>5, <1>6 DEF Reads, Written

LEMMA ReplyPolledSame ==
  ASSUME NEW p, IsPage(p), NEW sawAny, NEW text
  PROVE  SameRuns(p, ReplyPolled(p, sawAny, text))
<1>1. SameRuns(p, p)
  BY DEF SameRuns
<1>2. SameRuns(p, EndReply(p, "success", IF text = <<>> THEN Fallback ELSE text))
  BY EndReplySame
<1>3. SameRuns(p, AddEntry(p, "assistant", text))
  BY AddEntrySame
<1> QED
  BY <1>1, <1>2, <1>3 DEF ReplyPolled

(* The end of a job that was polled.                                       *)
JobOver(p, n, r, status) ==
  /\ IsPage(n)
  /\ n.run.hints => n.run.id = p.run.id /\ p.run.hints
  /\ n.done = Marked(p.done, r)
  /\ \/ n.told = p.told
     \/ ~Contains(p.done, r) /\ n.told = [p.told EXCEPT ![r] = @ + 1]
  /\ n.thread.listed = p.thread.listed
  /\ p.thread.listed => n.thread.job = 0 /\ n.thread.last = status

LEMMA JobEndedPage ==
  ASSUME NEW p, NEW q, IsPage(q), NEW r \in Runs, NEW ans, TerminalStatus(ans) # "",
         NEW surface, NEW active, MaxDone \in Nat,
         q.run.hints => q.run.id = p.run.id /\ p.run.hints,
         q.done = p.done, q.told = p.told, q.thread.listed = p.thread.listed
  PROVE  JobOver(p, JobEnded(p, q, r, ans, surface, active), r, TerminalStatus(ans))
<1> DEFINE text == IF ans.status = "succeeded" THEN ans.text ELSE <<>>
           sawAny == PrefersStream(p, r) \/ q.jobs[r].seen
           off == IF ~PrefersStream(p, r) /\ q.run.id = r THEN DeleteRun(q) ELSE q
           over == [off EXCEPT !.jobs[r] = NoJob]
           settle == SetJob(over, 0, TerminalStatus(ans))
           marked == IF surface /\ ~active THEN MarkUnread(settle) ELSE settle
           broken == IF sawAny THEN EndReply(marked, "error", NoBody) ELSE marked
           ended == IF TerminalStatus(ans) = "succeeded" THEN ReplyPolled(marked, sawAny, text)
                    ELSE AddEntry(broken, "failed", NoBody)
           kept == MarkRunCompleted(ended, r)
           n == JobEnded(p, q, r, ans, surface, active)
<1> HIDE DEF text, sawAny, off, over, settle, marked, broken, ended, kept, n
<1>1. IsPage(off) /\ (off.run.hints => q.run.id = off.run.id /\ q.run.hints)
      /\ off.done = q.done /\ off.told = q.told /\ off.thread = q.thread
  BY DEF DeleteRun, NoRun, IsPage, off
<1>2. IsPage(over) /\ over.run = off.run
      /\ over.done = q.done /\ over.told = q.told /\ over.thread = q.thread
  BY <1>1 DEF IsPage, over
<1>3. JobSet(over, settle, 0, TerminalStatus(ans))
  BY <1>2, SetJobSets DEF settle
<1>4. SameRuns(settle, settle) /\ IsPage(settle)
  BY <1>3 DEF JobSet, SameRuns
<1>5. SameRuns(settle, marked) /\ IsPage(marked)
  <2>1. SameRuns(settle, marked)
    BY <1>4, MarkUnreadSame DEF marked
  <2> QED BY <2>1 DEF SameRuns
<1>6. SameRuns(marked, broken) /\ IsPage(broken)
  <2>1. SameRuns(marked, marked)
    BY <1>5 DEF SameRuns
  <2>2. SameRuns(marked, broken)
    BY <1>5, <2>1, EndReplySame DEF broken
  <2> QED BY <2>2 DEF SameRuns
<1>7. SameRuns(marked, ended) /\ IsPage(ended)
  <2>1. SameRuns(marked, ReplyPolled(marked, sawAny, text))
    BY <1>5, ReplyPolledSame
  <2>2. SameRuns(broken, AddEntry(broken, "failed", NoBody))
    BY <1>6, AddEntrySame
  <2>3. SameRuns(marked, AddEntry(broken, "failed", NoBody))
    BY <1>6, <2>2, SameTwice
  <2>4. SameRuns(marked, ended)
    BY <2>1, <2>3 DEF ended
  <2> QED BY <2>4 DEF SameRuns
<1>8. SameRuns(settle, ended)
  BY <1>5, <1>7, SameTwice
<1>9. IsPage(kept) /\ kept.run = ended.run /\ kept.done = Marked(ended.done, r)
      /\ kept.told = ended.told /\ kept.thread = ended.thread
  BY <1>7, MarkedPage DEF kept
<1> DEFINE told == Tell(kept, r, TerminalStatus(ans))
<1> HIDE DEF told
<1>10. IsPage(told) /\ told.run = kept.run /\ told.done = kept.done /\ told.thread = kept.thread
       /\ told.told = [kept.told EXCEPT ![r] = @ + 1]
  <2>1. Notified(kept, Tell(kept, r, TerminalStatus(ans)), r)
    BY <1>9, TellPage
  <2>2. Notified(kept, told, r)
    BY <2>1 DEF told
  <2> QED
    BY <2>2 DEF Notified
<1>11. SameRuns(settle, ReplyPolled(marked, TRUE, text))
  <2>1. SameRuns(marked, ReplyPolled(marked, TRUE, text))
    BY <1>5, ReplyPolledSame
  <2> QED BY <1>5, <2>1, SameTwice
<1>12. n = IF Contains(p.done, r)
           THEN IF ans.status = "succeeded" /\ sawAny THEN ReplyPolled(marked, TRUE, text) ELSE marked
           ELSE IF surface THEN told ELSE kept
  BY DEF JobEnded, HasCompletedRun, text, sawAny, off, over, settle, marked, broken, ended, kept,
         told, n
<1>13. CASE Contains(p.done, r)
  <2>1. SameRuns(settle, n)
    BY <1>5, <1>11, <1>12, <1>13
  <2>2. Marked(p.done, r) = p.done
    BY <1>13 DEF Marked
  <2>3. JobOver(p, n, r, TerminalStatus(ans))
    BY <2>1, <2>2, <1>1, <1>2, <1>3 DEF SameRuns, JobSet, JobOver
  <2> QED
    BY <2>3 DEF n
<1>14. CASE ~Contains(p.done, r)
  <2>1. n = told \/ n = kept
    BY <1>12, <1>14
  <2>2. settle.done = p.done /\ settle.told = p.told
    BY <1>2, <1>3 DEF JobSet
  <2>3. IsPage(n) /\ n.run = settle.run /\ n.done = Marked(p.done, r)
        /\ (n.told = p.told \/ n.told = [p.told EXCEPT ![r] = @ + 1])
        /\ n.thread = ended.thread
    BY <2>1, <2>2, <1>8, <1>9, <1>10 DEF SameRuns
  <2>4. JobOver(p, n, r, TerminalStatus(ans))
    BY <2>3, <1>14, <1>1, <1>2, <1>3, <1>8 DEF SameRuns, JobSet, JobOver
  <2> QED
    BY <2>4 DEF n
<1> QED
  BY <1>13, <1>14

(* A poll leaves the run of the page, or ends it.                          *)
Decided(ans) == ans.status # "running" => TerminalStatus(ans) # ""

PolledTo(p, n, r, ans) ==
  \/ ans.status # "running" /\ JobOver(p, n, r, TerminalStatus(ans))
  \/ /\ IsPage(n)
     /\ n.run.hints => n.run.id = p.run.id /\ p.run.hints
     /\ n.done = p.done /\ n.told = p.told
     /\ n.thread.listed = p.thread.listed
     /\ ans.ok /\ p.thread.listed => n.thread.job = r /\ n.thread.last = "running"

LEMMA PolledPage ==
  ASSUME NEW p, IsPage(p), NEW r \in Runs, NEW ans, Decided(ans),
         NEW surface, NEW shown, NEW active, MaxDone \in Nat,
         NEW n, n = Polled(p, r, ans, surface, shown, active)
  PROVE  PolledTo(p, n, r, ans)
<1> SUFFICES ASSUME ans.status # "running" => TerminalStatus(ans) # ""
             PROVE  \/ ans.status # "running" /\ JobOver(p, n, r, TerminalStatus(ans))
                    \/ /\ IsPage(n)
                       /\ n.run.hints => n.run.id = p.run.id /\ p.run.hints
                       /\ n.done = p.done /\ n.told = p.told
                       /\ n.thread.listed = p.thread.listed
                       /\ ans.ok /\ p.thread.listed
                            => n.thread.job = r /\ n.thread.last = "running"
  BY DEF PolledTo, Decided
<1> DEFINE q == OutputPolled(p, r, ans, shown)
           t == [q EXCEPT !.jobs[r].tries = @ + 1]
           a == AddEntry(p, "failed", NoBody)
<1> HIDE DEF q, t, a
<1>1. IsPage(q) /\ (q.run.hints => q.run.id = p.run.id /\ p.run.hints)
      /\ q.done = p.done /\ q.told = p.told /\ q.thread.listed = p.thread.listed
      /\ q.thread.job = p.thread.job /\ q.thread.last = p.thread.last
  <2>1. Written(p, OutputPolled(p, r, ans, shown))
    BY OutputPage
  <2>2. Written(p, q)
    BY <2>1 DEF q
  <2> QED
    BY <2>2 DEF Written
<1>2. IsPage(t) /\ t.run = q.run /\ t.done = q.done /\ t.told = q.told /\ t.thread = q.thread
  BY <1>1 DEF IsPage, t
<1>3. SameRuns(p, a) /\ IsPage(a)
  <2>1. SameRuns(p, a)
    BY AddEntrySame DEF a
  <2> QED BY <2>1 DEF SameRuns
<1>4. CASE ~ans.ok
  <2>1. n = SetJob(a, 0, "failed")
    BY <1>4 DEF Polled, PollFailed, a
  <2>2. JobSet(a, n, 0, "failed")
    BY <2>1, <1>3, SetJobSets
  <2> QED
    BY <2>2, <1>3, <1>4 DEF JobSet, SameRuns
<1>5. CASE ans.ok /\ ans.status = "running"
  <2>1. n = SetJob(q, r, "running")
    BY <1>5 DEF Polled, q
  <2>2. JobSet(q, n, r, "running")
    BY <2>1, <1>1, SetJobSets
  <2> QED
    BY <2>2, <1>1, <1>5 DEF JobSet
<1>6. CASE ans.ok /\ ans.status # "running" /\ AwaitsText(q, r, ans)
  <2>1. n = SetJob(t, r, "running")
    BY <1>6 DEF Polled, q, t
  <2>2. JobSet(t, n, r, "running")
    BY <2>1, <1>2, SetJobSets
  <2> QED
    BY <2>2, <1>1, <1>2, <1>6 DEF JobSet
<1>7. CASE ans.ok /\ ans.status # "running" /\ ~AwaitsText(q, r, ans)
  <2>1. n = JobEnded(p, q, r, ans, surface, active)
    BY <1>7 DEF Polled, q
  <2> QED
    BY <2>1, <1>1, <1>7, JobEndedPage
<1> QED
  BY <1>4, <1>5, <1>6, <1>7

-----------------------------------------------------------------------------
(* The server: the events of the runs are in the order of the runs, and    *)
(* the log says of a run what its state says.                              *)

EventTypes == {"run.started", "assistant.delta", "target.done", "assistant.completed"} \cup EndTypes

Events == [type : EventTypes, run : Runs, text : Seq(Runs \X Nat), ok : BOOLEAN]

RunStates == {"none", "running"} \cup Ended

RunRecords ==
  [kind : {"turn", "job", "none"}, state : RunStates, pieces : Nat, ok : BOOLEAN, final : BOOLEAN]

StateOf(type) ==
  IF type = "run.completed" THEN "succeeded"
  ELSE IF type = "run.failed" THEN "failed" ELSE "canceled"

ServerTyped ==
  /\ log \in Seq(Events)
  /\ runs \in [Runs -> RunRecords]

Ordered ==
  \A i, j \in 1..Len(log) :
    i < j => /\ log[i].run <= log[j].run
             /\ log[j].type = "run.started" => log[i].run < log[j].run

LoggedRuns ==
  \A k \in 1..Len(log) :
    /\ runs[log[k].run].state # "none"
    /\ log[k].type \in EndTypes => runs[log[k].run].state = StateOf(log[k].type)
    /\ log[k].type = "target.done" /\ ~log[k].ok => ~runs[log[k].run].ok

RunsLogged ==
  \A r \in Runs :
    /\ runs[r].state # "none" => \E k \in 1..Len(log) : log[k].run = r /\ log[k].type = "run.started"
    /\ runs[r].state \in Ended => \E k \in 1..Len(log) : log[k].run = r /\ log[k].type \in EndTypes
    /\ runs[r].final \/ ~runs[r].ok => runs[r].state \in Ended

OneAtATime ==
  \A r, q \in Runs : q < r /\ runs[r].state # "none" => runs[q].state \in Ended

ServerInv == ServerTyped /\ Ordered /\ LoggedRuns /\ RunsLogged /\ OneAtATime

(* What is logged stays, and what has ended stays as it is.                *)
Grows ==
  /\ Len(log) <= Len(log')
  /\ \A k \in 1..Len(log) : log'[k] = log[k]
  /\ \A r \in Runs :
       /\ runs'[r].kind = runs[r].kind
       /\ runs[r].state # "none" => runs'[r].state # "none"
       /\ runs[r].state \in Ended => runs'[r].state = runs[r].state /\ runs'[r].ok = runs[r].ok
       /\ runs[r].final => runs'[r].final

LEMMA LogAppended ==
  ASSUME ServerTyped, NEW es \in Seq(Events), log' = log \o es
  PROVE  /\ log' \in Seq(Events)
         /\ Len(log') = Len(log) + Len(es)
         /\ Len(log) \in Nat /\ Len(es) \in Nat
         /\ \A k \in 1..Len(log) : log'[k] = log[k]
         /\ \A k \in 1..Len(log') :
              k \in 1..Len(log) \/ (k - Len(log) \in 1..Len(es) /\ log'[k] = es[k - Len(log)])
         /\ \A k \in 1..Len(es) : Len(log) + k \in 1..Len(log') /\ log'[Len(log) + k] = es[k]
BY DEF ServerTyped

LEMMA OneAppended ==
  ASSUME ServerTyped, NEW e \in Events, log' = Append(log, e)
  PROVE  <<e>> \in Seq(Events) /\ log' = log \o <<e>> /\ Len(<<e>>) = 1 /\ <<e>>[1] = e
BY DEF ServerTyped

(* More is logged of the run that goes on, or went on last.                *)
LEMMA MoreLogged ==
  ASSUME ServerInv, Runs \subseteq Nat, NEW r \in Runs, runs[r].state # "none",
         \A q \in Runs : runs[q].state # "none" => q <= r,
         NEW es \in Seq(Events), log' = log \o es,
         runs' \in [Runs -> RunRecords],
         \A q \in Runs : q # r => runs'[q] = runs[q],
         runs'[r].kind = runs[r].kind, runs'[r].state # "none",
         runs[r].state \in Ended => runs'[r] = runs[r],
         runs'[r].final = runs[r].final,
         ~runs'[r].ok => runs'[r].state \in Ended,
         \A k \in 1..Len(es) :
           /\ es[k].run = r
           /\ es[k].type # "run.started"
           /\ es[k].type \in EndTypes => runs'[r].state = StateOf(es[k].type)
           /\ es[k].type = "target.done" /\ ~es[k].ok => ~runs'[r].ok,
         runs'[r].state \in Ended /\ runs[r].state \notin Ended
           => \E k \in 1..Len(es) : es[k].type \in EndTypes
  PROVE  ServerInv' /\ Grows
<1> USE DEF ServerInv
<1>1. /\ log' \in Seq(Events)
      /\ Len(log') = Len(log) + Len(es)
      /\ Len(log) \in Nat /\ Len(es) \in Nat
      /\ \A k \in 1..Len(log) : log'[k] = log[k]
      /\ \A k \in 1..Len(log') :
           k \in 1..Len(log) \/ (k - Len(log) \in 1..Len(es) /\ log'[k] = es[k - Len(log)])
      /\ \A k \in 1..Len(es) : Len(log) + k \in 1..Len(log') /\ log'[Len(log) + k] = es[k]
  BY LogAppended
<1>2. ServerTyped'
  BY <1>1 DEF ServerTyped
<1>3. \A k \in 1..Len(log) : log[k].run \in Runs /\ log[k].run <= r
  <2> SUFFICES ASSUME NEW k \in 1..Len(log) PROVE log[k].run \in Runs /\ log[k].run <= r
    OBVIOUS
  <2>1. log[k] \in Events
    BY DEF ServerTyped
  <2>2. log[k].run \in Runs
    BY <2>1 DEF Events
  <2>3. runs[log[k].run].state # "none"
    BY DEF LoggedRuns
  <2> QED
    BY <2>2, <2>3
<1>4. \A k \in 1..Len(log') :
        \/ k \in 1..Len(log) /\ log'[k] = log[k] /\ log[k].run \in Nat /\ log[k].run <= r
        \/ k \notin 1..Len(log) /\ log'[k].run = r /\ r \in Nat /\ log'[k].type # "run.started"
  <2> SUFFICES ASSUME NEW k \in 1..Len(log')
               PROVE  \/ k \in 1..Len(log) /\ log'[k] = log[k] /\ log[k].run \in Nat /\ log[k].run <= r
                      \/ /\ k \notin 1..Len(log)
                         /\ log'[k].run = r /\ r \in Nat /\ log'[k].type # "run.started"
    OBVIOUS
  <2>1. CASE k \in 1..Len(log)
    BY <2>1, <1>1, <1>3
  <2>2. CASE k \notin 1..Len(log)
    <3>1. k - Len(log) \in 1..Len(es) /\ log'[k] = es[k - Len(log)]
      BY <2>2, <1>1
    <3> QED
      BY <2>2, <3>1
  <2> QED
    BY <2>1, <2>2
<1>5. Ordered'
  <2> SUFFICES ASSUME NEW i \in 1..Len(log'), NEW j \in 1..Len(log'), i < j
               PROVE  /\ log'[i].run <= log'[j].run
                      /\ log'[j].type = "run.started" => log'[i].run < log'[j].run
    BY DEF Ordered
  <2>1. CASE j \in 1..Len(log)
    <3>1. i \in 1..Len(log)
      BY <2>1, <1>1
    <3> QED
      BY <3>1, <2>1, <1>1 DEF Ordered
  <2>2. CASE j \notin 1..Len(log)
    BY <2>2, <1>4
  <2> QED
    BY <2>1, <2>2
<1>6. LoggedRuns'
  <2> SUFFICES ASSUME NEW k \in 1..Len(log')
               PROVE  /\ runs'[log'[k].run].state # "none"
                      /\ log'[k].type \in EndTypes => runs'[log'[k].run].state = StateOf(log'[k].type)
                      /\ log'[k].type = "target.done" /\ ~log'[k].ok => ~runs'[log'[k].run].ok
    BY DEF LoggedRuns
  <2>1. CASE k \in 1..Len(log)
    <3>1. log'[k] = log[k] /\ log[k].run \in Runs
      BY <2>1, <1>1, <1>3
    <3>2. CASE log[k].run # r
      BY <3>1, <3>2, <2>1 DEF LoggedRuns
    <3>3. CASE log[k].run = r /\ runs[r].state \in Ended
      BY <3>1, <3>3, <2>1 DEF LoggedRuns
    <3>4. CASE log[k].run = r /\ runs[r].state \notin Ended
      <4>1. log[k].type \notin EndTypes
        BY <3>4, <2>1 DEF LoggedRuns, StateOf, Ended
      <4>2. ~(log[k].type = "target.done" /\ ~log[k].ok)
        BY <3>4, <2>1 DEF LoggedRuns, RunsLogged
      <4> QED
        BY <3>1, <3>4, <4>1, <4>2
    <3> QED
      BY <3>2, <3>3, <3>4
  <2>2. CASE k \notin 1..Len(log)
    BY <2>2, <1>1
  <2> QED
    BY <2>1, <2>2
<1>7. RunsLogged'
  <2> SUFFICES ASSUME NEW q \in Runs
               PROVE  /\ runs'[q].state # "none"
                           => \E k \in 1..Len(log') : log'[k].run = q /\ log'[k].type = "run.started"
                      /\ runs'[q].state \in Ended
                           => \E k \in 1..Len(log') : log'[k].run = q /\ log'[k].type \in EndTypes
                      /\ runs'[q].final \/ ~runs'[q].ok => runs'[q].state \in Ended
    BY DEF RunsLogged
  <2>1. runs'[q].state # "none"
          => \E k \in 1..Len(log') : log'[k].run = q /\ log'[k].type = "run.started"
    <3>1. runs'[q].state # "none" => runs[q].state # "none"
      OBVIOUS
    <3>2. runs[q].state # "none"
          => \E k \in 1..Len(log) : log[k].run = q /\ log[k].type = "run.started"
      BY DEF RunsLogged
    <3> QED
      BY <3>1, <3>2, <1>1
  <2>2. runs[q].state \in Ended
          => \E k \in 1..Len(log') : log'[k].run = q /\ log'[k].type \in EndTypes
    <3>1. runs[q].state \in Ended => \E k \in 1..Len(log) : log[k].run = q /\ log[k].type \in EndTypes
      BY DEF RunsLogged
    <3> QED
      BY <3>1, <1>1
  <2>3. runs'[q].state \in Ended /\ runs[q].state \notin Ended
          => \E k \in 1..Len(log') : log'[k].run = q /\ log'[k].type \in EndTypes
    <3> SUFFICES ASSUME runs'[q].state \in Ended, runs[q].state \notin Ended
                 PROVE  \E k \in 1..Len(log') : log'[k].run = q /\ log'[k].type \in EndTypes
      OBVIOUS
    <3>1. q = r
      OBVIOUS
    <3>2. PICK k \in 1..Len(es) : es[k].type \in EndTypes
      BY <3>1
    <3>3. Len(log) + k \in 1..Len(log') /\ log'[Len(log) + k] = es[k]
      BY <1>1
    <3> QED
      BY <3>1, <3>2, <3>3
  <2>4. runs'[q].final \/ ~runs'[q].ok => runs'[q].state \in Ended
    BY DEF RunsLogged
  <2> QED
    BY <2>1, <2>2, <2>3, <2>4
<1>8. OneAtATime'
  <2> SUFFICES ASSUME NEW q \in Runs, NEW p \in Runs, p < q, runs'[q].state # "none"
               PROVE  runs'[p].state \in Ended
    BY DEF OneAtATime
  <2>1. runs[q].state # "none"
    OBVIOUS
  <2>2. runs[p].state \in Ended
    BY <2>1 DEF OneAtATime
  <2> QED
    BY <2>2
<1>9. Grows
  <2>1. Len(log) <= Len(log') /\ \A k \in 1..Len(log) : log'[k] = log[k]
    BY <1>1
  <2>2. ASSUME NEW q \in Runs
        PROVE  /\ runs'[q].kind = runs[q].kind
               /\ runs[q].state # "none" => runs'[q].state # "none"
               /\ runs[q].state \in Ended => runs'[q].state = runs[q].state /\ runs'[q].ok = runs[q].ok
               /\ runs[q].final => runs'[q].final
    OBVIOUS
  <2> QED
    BY <2>1, <2>2 DEF Grows
<1> QED
  BY <1>2, <1>5, <1>6, <1>7, <1>8, <1>9

LEMMA BeginServer ==
  ASSUME ServerInv, Runs \subseteq Nat, NEW r \in Runs, Begin(r)
  PROVE  ServerInv' /\ Grows
<1> DEFINE e == Event("run.started", r, <<>>, TRUE)
<1> USE DEF ServerInv
<1>1. e \in Events /\ e.run = r /\ e.type = "run.started"
  BY DEF Event, Events, EventTypes
<1>2. log' = Append(log, e)
  BY DEF Begin
<1> HIDE DEF e
<1>3. /\ log' \in Seq(Events) /\ Len(log') = Len(log) + 1 /\ Len(log) \in Nat
      /\ \A k \in 1..Len(log) : log'[k] = log[k]
      /\ log'[Len(log) + 1] = e
  BY <1>1, <1>2 DEF ServerTyped
<1>4. /\ runs[r].state = "none"
      /\ \A q \in Runs : q < r => runs[q].state \in Ended
      /\ runs' = [runs EXCEPT ![r].state = "running"]
  BY DEF Begin, NextRun
<1>5. /\ runs' \in [Runs -> RunRecords]
      /\ \A q \in Runs : q # r => runs'[q] = runs[q]
      /\ runs'[r].state = "running" /\ runs'[r].kind = runs[r].kind
      /\ runs'[r].ok = runs[r].ok /\ runs'[r].final = runs[r].final
  BY <1>4 DEF ServerTyped, RunRecords, RunStates
<1>6. "running" \notin Ended /\ "none" \notin Ended
  BY DEF Ended
<1>7. \A k \in 1..Len(log) : log[k].run \in Runs /\ log[k].run < r
  <2> SUFFICES ASSUME NEW k \in 1..Len(log) PROVE log[k].run \in Runs /\ log[k].run < r
    OBVIOUS
  <2>1. log[k] \in Events
    BY DEF ServerTyped
  <2>2. log[k].run \in Runs
    BY <2>1 DEF Events
  <2>3. runs[log[k].run].state # "none"
    BY DEF LoggedRuns
  <2>4. ~(r < log[k].run)
    BY <2>2, <2>3, <1>4, <1>6 DEF OneAtATime
  <2> QED
    BY <2>2, <2>3, <2>4, <1>4
<1>8. ServerTyped'
  BY <1>3, <1>5 DEF ServerTyped
<1>9. Ordered'
  <2> SUFFICES ASSUME NEW i \in 1..Len(log'), NEW j \in 1..Len(log'), i < j
               PROVE  /\ log'[i].run <= log'[j].run
                      /\ log'[j].type = "run.started" => log'[i].run < log'[j].run
    BY DEF Ordered
  <2>0. i \in 1..Len(log) /\ log'[i] = log[i]
    BY <1>3
  <2>1. CASE j \in 1..Len(log)
    BY <2>0, <2>1, <1>3 DEF Ordered
  <2>2. CASE j = Len(log) + 1
    <3>1. log'[i].run \in Nat /\ log'[i].run < r /\ log'[j].run = r /\ r \in Nat
      BY <2>0, <2>2, <1>1, <1>3, <1>7
    <3> QED
      BY <3>1
  <2> QED
    BY <2>1, <2>2, <1>3
<1>10. LoggedRuns'
  <2> SUFFICES ASSUME NEW k \in 1..Len(log')
               PROVE  /\ runs'[log'[k].run].state # "none"
                      /\ log'[k].type \in EndTypes => runs'[log'[k].run].state = StateOf(log'[k].type)
                      /\ log'[k].type = "target.done" /\ ~log'[k].ok => ~runs'[log'[k].run].ok
    BY DEF LoggedRuns
  <2>1. CASE k \in 1..Len(log)
    <3>1. log'[k] = log[k] /\ log[k].run \in Runs /\ log[k].run # r
      BY <2>1, <1>3, <1>7
    <3> QED
      BY <2>1, <3>1, <1>5 DEF LoggedRuns
  <2>2. CASE k = Len(log) + 1
    BY <2>2, <1>1, <1>3, <1>5 DEF EndTypes
  <2> QED
    BY <2>1, <2>2, <1>3
<1>11. RunsLogged'
  <2> SUFFICES ASSUME NEW q \in Runs
               PROVE  /\ runs'[q].state # "none"
                           => \E k \in 1..Len(log') : log'[k].run = q /\ log'[k].type = "run.started"
                      /\ runs'[q].state \in Ended
                           => \E k \in 1..Len(log') : log'[k].run = q /\ log'[k].type \in EndTypes
                      /\ runs'[q].final \/ ~runs'[q].ok => runs'[q].state \in Ended
    BY DEF RunsLogged
  <2>1. CASE q = r
    <3>1. Len(log) + 1 \in 1..Len(log')
      BY <1>3
    <3>2. ~(runs[r].final \/ ~runs[r].ok)
      BY <1>4, <1>6 DEF RunsLogged
    <3> QED
      BY <2>1, <3>1, <3>2, <1>1, <1>3, <1>5, <1>6
  <2>2. CASE q # r
    <3>1. /\ runs[q].state # "none"
               => \E k \in 1..Len(log) : log[k].run = q /\ log[k].type = "run.started"
          /\ runs[q].state \in Ended
               => \E k \in 1..Len(log) : log[k].run = q /\ log[k].type \in EndTypes
          /\ runs[q].final \/ ~runs[q].ok => runs[q].state \in Ended
      BY DEF RunsLogged
    <3>2. runs'[q] = runs[q]
      BY <2>2, <1>5
    <3> QED
      BY <3>1, <3>2, <1>3
  <2> QED
    BY <2>1, <2>2
<1>12. OneAtATime'
  <2> SUFFICES ASSUME NEW q \in Runs, NEW p \in Runs, p < q, runs'[q].state # "none"
               PROVE  runs'[p].state \in Ended
    BY DEF OneAtATime
  <2>1. CASE q = r
    BY <2>1, <1>4, <1>5
  <2>2. CASE q # r
    <3>1. runs[p].state \in Ended
      BY <2>2, <1>5 DEF OneAtATime
    <3> QED
      BY <3>1, <1>4, <1>5, <1>6
  <2> QED
    BY <2>1, <2>2
<1>13. Grows
  <2>1. Len(log) <= Len(log') /\ \A k \in 1..Len(log) : log'[k] = log[k]
    BY <1>3
  <2>2. ASSUME NEW q \in Runs
        PROVE  /\ runs'[q].kind = runs[q].kind
               /\ runs[q].state # "none" => runs'[q].state # "none"
               /\ runs[q].state \in Ended => runs'[q].state = runs[q].state /\ runs'[q].ok = runs[q].ok
               /\ runs[q].final => runs'[q].final
    BY <1>4, <1>5, <1>6
  <2> QED
    BY <2>1, <2>2 DEF Grows
<1> QED
  BY <1>8, <1>9, <1>10, <1>11, <1>12, <1>13

(* The run that goes on is the last.                                       *)
LEMMA RunningLast ==
  ASSUME ServerInv, Runs \subseteq Nat, NEW r \in Runs, runs[r].state \notin Ended
  PROVE  \A q \in Runs : runs[q].state # "none" => q <= r
<1> SUFFICES ASSUME NEW q \in Runs, runs[q].state # "none" PROVE q <= r
  OBVIOUS
<1>1. ~(r < q)
  BY DEF ServerInv, OneAtATime
<1> QED
  BY <1>1

LEMMA EmitServer ==
  ASSUME ServerInv, Runs \subseteq Nat, NEW r \in Runs, Emit(r)
  PROVE  ServerInv' /\ Grows
<1> DEFINE k == runs[r].pieces + 1
           e == Event("assistant.delta", r, IF k = 1 THEN <<>> ELSE << <<r, k>> >>, TRUE)
<1>1. runs[r] \in RunRecords /\ runs[r].state = "running" /\ k \in Nat
  BY DEF ServerInv, ServerTyped, Emit, RunRecords
<1>2. e \in Events /\ e.run = r /\ e.type = "assistant.delta"
  <2> HIDE DEF k
  <2>1. (IF k = 1 THEN <<>> ELSE << <<r, k>> >>) \in Seq(Runs \X Nat)
    BY <1>1
  <2> QED
    BY <2>1 DEF Event, Events, EventTypes
<1>3. log' = Append(log, e) /\ runs' = [runs EXCEPT ![r].pieces = @ + 1]
  BY DEF Emit
<1> HIDE DEF e, k
<1>4. <<e>> \in Seq(Events) /\ log' = log \o <<e>> /\ Len(<<e>>) = 1 /\ <<e>>[1] = e
  <2>1. ServerTyped
    BY DEF ServerInv
  <2> QED
    BY <2>1, <1>2, <1>3, OneAppended
<1>5. /\ runs' \in [Runs -> RunRecords]
      /\ \A q \in Runs : q # r => runs'[q] = runs[q]
      /\ runs'[r].state = "running" /\ runs'[r].kind = runs[r].kind
      /\ runs'[r].ok = runs[r].ok /\ runs'[r].final = runs[r].final
  <2>1. DOMAIN runs = Runs /\ runs \in [Runs -> RunRecords]
    BY DEF ServerInv, ServerTyped
  <2>2. runs[r].pieces + 1 \in Nat
    BY <1>1 DEF RunRecords
  <2>3. [runs[r] EXCEPT !.pieces = @ + 1] \in RunRecords
    BY <1>1, <2>2 DEF RunRecords
  <2>4. runs' = [runs EXCEPT ![r] = [runs[r] EXCEPT !.pieces = @ + 1]]
    BY <1>3
  <2>5. runs'[r] = [runs[r] EXCEPT !.pieces = @ + 1]
    BY <2>1, <2>4
  <2>6. runs' \in [Runs -> RunRecords] /\ \A q \in Runs : q # r => runs'[q] = runs[q]
    BY <2>1, <2>3, <2>4
  <2>7. runs'[r].state = runs[r].state /\ runs'[r].kind = runs[r].kind
        /\ runs'[r].ok = runs[r].ok /\ runs'[r].final = runs[r].final
    BY <2>5, <1>1 DEF RunRecords
  <2> QED
    BY <2>6, <2>7, <1>1
<1>6. "running" \notin Ended
  BY DEF Ended
<1>7. \A q \in Runs : runs[q].state # "none" => q <= r
  BY <1>1, <1>6, RunningLast
<1>8. \A j \in 1..Len(<<e>>) :
         /\ <<e>>[j].run = r
         /\ <<e>>[j].type # "run.started"
         /\ <<e>>[j].type \in EndTypes => runs'[r].state = StateOf(<<e>>[j].type)
         /\ <<e>>[j].type = "target.done" /\ ~<<e>>[j].ok => ~runs'[r].ok
  BY <1>2, <1>4 DEF EndTypes
<1>9. ~runs'[r].ok => runs'[r].state \in Ended
  <2>1. ~runs[r].ok => runs[r].state \in Ended
    BY DEF ServerInv, RunsLogged
  <2> QED
    BY <2>1, <1>1, <1>5, <1>6
<1>10. runs[r].state # "none" /\ runs'[r].state # "none" /\ runs[r].state \notin Ended
       /\ runs'[r].state \notin Ended
  BY <1>1, <1>5, <1>6
<1> QED
  BY <1>4, <1>5, <1>7, <1>8, <1>9, <1>10, MoreLogged

LEMMA EndEventsAre ==
  ASSUME ServerTyped, NEW r \in Runs, NEW how \in Ended, NEW ok \in BOOLEAN
  PROVE  /\ EndEvents(r, how, ok) \in Seq(Events)
         /\ \A k \in 1..Len(EndEvents(r, how, ok)) :
              /\ EndEvents(r, how, ok)[k].run = r
              /\ EndEvents(r, how, ok)[k].type # "run.started"
              /\ EndEvents(r, how, ok)[k].type \in EndTypes
                   => how = StateOf(EndEvents(r, how, ok)[k].type)
              /\ EndEvents(r, how, ok)[k].type = "target.done"
                   => EndEvents(r, how, ok)[k].ok = ok /\ runs[r].kind # "turn"
         /\ \E k \in 1..Len(EndEvents(r, how, ok)) : EndEvents(r, how, ok)[k].type \in EndTypes
<1> DEFINE end == Event(CASE how = "succeeded" -> "run.completed"
                          [] how = "failed"    -> "run.failed"
                          [] how = "canceled"  -> "run.canceled", r, <<>>, TRUE)
           done == Event("target.done", r, <<>>, ok)
           reply == Event("assistant.completed", r, <<>>, TRUE)
           es == EndEvents(r, how, ok)
<1>1. end \in Events /\ end.run = r /\ end.type \in EndTypes /\ StateOf(end.type) = how
  BY DEF Event, Events, EventTypes, EndTypes, Ended, StateOf
<1>2. done \in Events /\ done.run = r /\ done.type = "target.done" /\ done.ok = ok
  BY DEF Event, Events, EventTypes
<1>3. reply \in Events /\ reply.run = r /\ reply.type = "assistant.completed"
  BY DEF Event, Events, EventTypes
<1>4. /\ "target.done" \notin EndTypes /\ "assistant.completed" \notin EndTypes
      /\ "run.started" \notin EndTypes
  BY DEF EndTypes
<1>5. es = IF runs[r].kind = "turn" THEN <<end>>
           ELSE <<done, end>> \o (IF how = "succeeded" THEN <<reply>> ELSE <<>>)
  BY DEF EndEvents
<1> HIDE DEF end, done, reply, es
<1>6. CASE runs[r].kind = "turn"
  <2>1. es = <<end>> /\ es \in Seq(Events) /\ Len(es) = 1 /\ es[1] = end
    BY <1>1, <1>5, <1>6
  <2> QED
    BY <2>1, <1>1, <1>4 DEF es
<1>7. CASE runs[r].kind # "turn" /\ how = "succeeded"
  <2>1. es = <<done, end>> \o <<reply>>
    BY <1>5, <1>7
  <2>2. es \in Seq(Events) /\ Len(es) = 3 /\ es[1] = done /\ es[2] = end /\ es[3] = reply
    BY <2>1, <1>1, <1>2, <1>3
  <2> QED
    BY <2>2, <1>1, <1>2, <1>3, <1>4, <1>7 DEF es
<1>8. CASE runs[r].kind # "turn" /\ how # "succeeded"
  <2>1. es = <<done, end>> \o <<>>
    BY <1>5, <1>8
  <2>2. es \in Seq(Events) /\ Len(es) = 2 /\ es[1] = done /\ es[2] = end
    BY <2>1, <1>1, <1>2
  <2> QED
    BY <2>2, <1>1, <1>2, <1>4, <1>8 DEF es
<1> QED
  BY <1>6, <1>7, <1>8

LEMMA EndServer ==
  ASSUME ServerInv, Runs \subseteq Nat, NEW r \in Runs, NEW how \in Ended, NEW ok \in BOOLEAN,
         End(r, how, ok)
  PROVE  ServerInv' /\ Grows
<1> DEFINE es == EndEvents(r, how, ok)
<1>1. /\ es \in Seq(Events)
      /\ \A k \in 1..Len(es) :
           /\ es[k].run = r
           /\ es[k].type # "run.started"
           /\ es[k].type \in EndTypes => how = StateOf(es[k].type)
           /\ es[k].type = "target.done" => es[k].ok = ok
      /\ \E k \in 1..Len(es) : es[k].type \in EndTypes
  BY EndEventsAre DEF ServerInv
<1>2. log' = log \o es /\ runs' = [runs EXCEPT ![r].state = how, ![r].ok = ok]
      /\ runs[r].state = "running"
  BY DEF End
<1> HIDE DEF es
<1>3. /\ runs' \in [Runs -> RunRecords]
      /\ \A q \in Runs : q # r => runs'[q] = runs[q]
      /\ runs'[r].state = how /\ runs'[r].kind = runs[r].kind
      /\ runs'[r].ok = ok /\ runs'[r].final = runs[r].final
  BY <1>2 DEF ServerInv, ServerTyped, RunRecords, RunStates
<1>4. "running" \notin Ended /\ "none" \notin Ended
  BY DEF Ended
<1>5. \A q \in Runs : runs[q].state # "none" => q <= r
  BY <1>2, <1>4, RunningLast
<1>6. \A k \in 1..Len(es) :
           /\ es[k].run = r
           /\ es[k].type # "run.started"
           /\ es[k].type \in EndTypes => runs'[r].state = StateOf(es[k].type)
           /\ es[k].type = "target.done" /\ ~es[k].ok => ~runs'[r].ok
  BY <1>1, <1>3
<1>7. runs[r].state # "none" /\ runs'[r].state # "none" /\ runs'[r].state \in Ended
      /\ runs[r].state \notin Ended
  BY <1>2, <1>3, <1>4
<1> QED
  BY <1>1, <1>2, <1>3, <1>5, <1>6, <1>7, MoreLogged

LEMMA LatestLogged ==
  ASSUME ServerInv, Runs \subseteq Nat
  PROVE  /\ Begun = {} => log = <<>>
         /\ Begun # {} => /\ Len(log) > 0
                          /\ Latest \in Begun
                          /\ Latest = log[Len(log)].run
                          /\ \A q \in Begun : q <= Latest
<1>1. \A k \in 1..Len(log) : log[k].run \in Begun /\ log[k].run \in Nat
  <2> SUFFICES ASSUME NEW k \in 1..Len(log) PROVE log[k].run \in Begun /\ log[k].run \in Nat
    OBVIOUS
  <2>1. log[k] \in Events
    BY DEF ServerInv, ServerTyped
  <2>2. log[k].run \in Runs
    BY <2>1 DEF Events
  <2> QED
    BY <2>2 DEF ServerInv, LoggedRuns, Begun
<1>2. log \in Seq(Events) /\ Len(log) \in Nat
  BY DEF ServerInv, ServerTyped
<1>3. CASE Begun = {}
  <2>1. Len(log) = 0
    BY <1>1, <1>2, <1>3
  <2> QED
    BY <1>2, <1>3, <2>1
<1>4. CASE Begun # {}
  <2>1. ASSUME NEW q \in Begun
        PROVE  Len(log) > 0 /\ q <= log[Len(log)].run
    <3>1. PICK k \in 1..Len(log) : log[k].run = q
      BY DEF Begun, ServerInv, RunsLogged
    <3>2. Len(log) \in 1..Len(log) /\ Len(log) > 0
      BY <1>2, <3>1
    <3>3. CASE k = Len(log)
      BY <3>1, <3>2, <3>3, <1>1
    <3>4. CASE k < Len(log)
      BY <3>1, <3>2, <3>4 DEF ServerInv, Ordered
    <3> QED
      BY <3>1, <3>2, <3>3, <3>4
  <2>2. Len(log) > 0 /\ Len(log) \in 1..Len(log)
    BY <2>1, <1>2, <1>4
  <2> DEFINE b == log[Len(log)].run
  <2>3. b \in Begun /\ b \in Nat /\ \A q \in Begun : q <= b
    BY <2>1, <2>2, <1>1
  <2>4. Begun \subseteq Nat
    BY DEF Begun
  <2> HIDE DEF b
  <2>5. Latest = b
    <3>1. Latest \in Begun /\ \A q \in Begun : q <= Latest
      <4>1. Latest = CHOOSE r \in Begun : \A q \in Begun : q <= r
        BY <1>4 DEF Latest
      <4>2. \E r \in Begun : \A q \in Begun : q <= r
        BY <2>3
      <4> QED
        BY <4>1, <4>2
    <3>2. Latest <= b /\ b <= Latest /\ Latest \in Nat
      BY <3>1, <2>3, <2>4
    <3> QED
      BY <3>2, <2>3
  <2> QED
    BY <2>2, <2>3, <2>5 DEF b
<1> QED
  BY <1>3, <1>4

LEMMA RecoverServer ==
  ASSUME ServerInv, Runs \subseteq Nat, NEW r \in Runs, Recover(r)
  PROVE  ServerInv' /\ Grows
<1> DEFINE how == runs[r].state
           es == EndEvents(r, how, TRUE)
<1>0. how \in Ended /\ r = Latest /\ runs[r].kind = "turn" /\ log' = log \o es /\ runs' = runs
  BY DEF Recover
<1>1. /\ es \in Seq(Events)
      /\ \A k \in 1..Len(es) :
           /\ es[k].run = r
           /\ es[k].type # "run.started"
           /\ es[k].type \in EndTypes => how = StateOf(es[k].type)
           /\ es[k].type = "target.done" => runs[r].kind # "turn"
  <2> HIDE DEF how
  <2>1. ServerTyped /\ how \in Ended
    BY <1>0 DEF ServerInv
  <2>2. PICK ok \in BOOLEAN : ok = TRUE
    OBVIOUS
  <2> HIDE DEF es
  <2>3. es = EndEvents(r, how, ok)
    BY <2>2 DEF es
  <2> QED
    BY <2>1, <2>3, EndEventsAre
<1> HIDE DEF es
<1>2. r \in Begun
  BY <1>0 DEF Begun, Ended
<1>3. \A q \in Runs : runs[q].state # "none" => q <= r
  BY <1>0, <1>2, LatestLogged DEF Begun
<1>6. \A k \in 1..Len(es) :
           /\ es[k].run = r
           /\ es[k].type # "run.started"
           /\ es[k].type \in EndTypes => runs'[r].state = StateOf(es[k].type)
           /\ es[k].type = "target.done" /\ ~es[k].ok => ~runs'[r].ok
  BY <1>0, <1>1
<1>7. runs' \in [Runs -> RunRecords] /\ (~runs[r].ok => runs[r].state \in Ended)
  BY <1>0 DEF ServerInv, ServerTyped
<1>8. runs[r].state # "none"
  BY <1>0 DEF Ended
<1> QED
  BY <1>0, <1>1, <1>3, <1>6, <1>7, <1>8, MoreLogged

LEMMA SettleServer ==
  ASSUME ServerInv, NEW r \in Runs, Settle(r)
  PROVE  ServerInv' /\ Grows
<1>1. /\ log' = log
      /\ runs[r].state \in Ended
      /\ runs' = [runs EXCEPT ![r].final = TRUE]
  BY DEF Settle
<1>2. /\ runs' \in [Runs -> RunRecords]
      /\ \A q \in Runs : /\ runs'[q].kind = runs[q].kind /\ runs'[q].state = runs[q].state
                         /\ runs'[q].ok = runs[q].ok
                         /\ runs[q].final => runs'[q].final
                         /\ q # r => runs'[q].final = runs[q].final
  BY <1>1 DEF ServerInv, ServerTyped, RunRecords
<1>3. ServerTyped' /\ Ordered' /\ Grows
  BY <1>1, <1>2 DEF ServerInv, ServerTyped, Ordered, Grows
<1>4. \A k \in 1..Len(log) : log[k].run \in Runs
  <2> SUFFICES ASSUME NEW k \in 1..Len(log) PROVE log[k].run \in Runs
    OBVIOUS
  <2>1. log[k] \in Events
    BY DEF ServerInv, ServerTyped
  <2> QED
    BY <2>1 DEF Events
<1>5. LoggedRuns'
  BY <1>1, <1>2, <1>4 DEF ServerInv, LoggedRuns
<1>6. OneAtATime'
  BY <1>2 DEF ServerInv, OneAtATime
<1>7. RunsLogged'
  <2> SUFFICES ASSUME NEW q \in Runs
               PROVE  /\ runs'[q].state # "none"
                           => \E k \in 1..Len(log') : log'[k].run = q /\ log'[k].type = "run.started"
                      /\ runs'[q].state \in Ended
                           => \E k \in 1..Len(log') : log'[k].run = q /\ log'[k].type \in EndTypes
                      /\ runs'[q].final \/ ~runs'[q].ok => runs'[q].state \in Ended
    BY DEF RunsLogged
  <2>1. /\ runs[q].state # "none"
             => \E k \in 1..Len(log) : log[k].run = q /\ log[k].type = "run.started"
        /\ runs[q].state \in Ended
             => \E k \in 1..Len(log) : log[k].run = q /\ log[k].type \in EndTypes
        /\ runs[q].final \/ ~runs[q].ok => runs[q].state \in Ended
    BY DEF ServerInv, RunsLogged
  <2> QED
    BY <2>1, <1>1, <1>2
<1> QED
  BY <1>3, <1>5, <1>6, <1>7 DEF ServerInv

-----------------------------------------------------------------------------
(* What the browser knows of the server.                                   *)

StreamInv ==
  /\ cursor \in Nat /\ cursor <= Len(log)
  /\ DOMAIN stream = {"phase", "via", "from", "ready", "suppress", "sent"}
  /\ stream.phase = "open" =>
       /\ stream.from \in Nat /\ stream.sent \in Nat
       /\ stream.from <= stream.sent /\ stream.sent <= cursor

Shaped ==
  /\ IsPage(page)
  /\ DOMAIN seen = {"listed", "timeline", "job", "last", "unread"}
  /\ settled \in BOOLEAN

(* The next event begins a run, and so settles what the page has.          *)
NextStarts == cursor < Len(log) /\ log[cursor + 1].type = "run.started"

EndHeard(r) == \E k \in 1..cursor : log[k].run = r /\ log[k].type \in EndTypes

(* The hints of a failure are of a run that failed, and of the one that is *)
(* heard of.                                                               *)
Hinted ==
  page.run.hints =>
    /\ page.run.id \in Runs /\ ~runs[page.run.id].ok
    /\ NextStarts \/ cursor = 0 \/ page.run.id = log[cursor].run

(* The page has the run of the last event it heard, until it heard its end.*)
Follows ==
  \/ NextStarts
  \/ cursor = 0 /\ log = <<>> /\ page.thread.job = 0
  \/ /\ cursor > 0
     /\ page.thread.job = log[cursor].run /\ page.thread.last = "running"
     /\ ~EndHeard(log[cursor].run)
  \/ /\ cursor > 0
     /\ page.thread.job = 0 /\ runs[log[cursor].run].state \in Ended
     /\ page.thread.last \in {Outcome(log[cursor].run), runs[log[cursor].run].state}

(* A run that is done was heard of, has ended, and is not the page's run.  *)
DoneRuns ==
  \A r \in Runs : Contains(page.done, r) =>
    /\ \E k \in 1..cursor : log[k].run = r
    /\ runs[r].state \in Ended
    /\ EndHeard(r) \/ runs[r].kind = "job"
    /\ page.thread.job # r

PageInv == settled /\ page.thread.listed => Follows /\ DoneRuns

SubmitInv ==
  /\ DOMAIN submit = {"phase", "run", "review", "shown"}
  /\ submit.phase = "answered" =>
       submit.run \in Runs /\ runs[submit.run].state # "none" /\ runs[submit.run].kind = "turn"

IsPoll(q) ==
  /\ DOMAIN q = {"n", "run", "after", "shown", "active", "phase", "ans"}
  /\ q.run \in Runs /\ runs[q.run].kind = "job" /\ runs[q.run].state # "none"
  /\ q.phase = "answered" /\ q.ans.status # "running" =>
       /\ runs[q.run].final
       /\ q.ans.status = runs[q.run].state
       /\ q.ans.failed = ~runs[q.run].ok

PollsInv ==
  /\ \A r \in known : r \in Runs /\ runs[r].kind = "job" /\ runs[r].state # "none"
  /\ \A q \in polls : IsPoll(q)

RunsInv == ServerInv /\ StreamInv /\ Shaped /\ Hinted /\ PageInv /\ SubmitInv /\ PollsInv

-----------------------------------------------------------------------------

LEMMA LoggedRun ==
  ASSUME ServerInv, NEW k \in 1..Len(log)
  PROVE  log[k] \in Events /\ log[k].run \in Runs
<1>1. log[k] \in Events
  BY DEF ServerInv, ServerTyped
<1> QED
  BY <1>1 DEF Events

(* An event that begins no run is of the run of the event before.          *)
LEMMA SameRunNext ==
  ASSUME ServerInv, Runs \subseteq Nat, StreamInv, cursor < Len(log), ~NextStarts
  PROVE  cursor > 0 /\ log[cursor + 1].run = log[cursor].run
<1> DEFINE k == cursor + 1
<1>1. k \in 1..Len(log) /\ Len(log) \in Nat /\ cursor \in Nat
  BY DEF StreamInv, ServerInv, ServerTyped
<1>0. log[k].type # "run.started"
  BY DEF NextStarts
<1> HIDE DEF k
<1>2. log[k].run \in Runs /\ log[k].run \in Nat /\ log[k].type # "run.started"
  <2>1. log[k].run \in Runs
    BY <1>1, LoggedRun
  <2> QED
    BY <2>1, <1>0
<1>3. PICK j \in 1..Len(log) : log[j].run = log[k].run /\ log[j].type = "run.started"
  <2>1. runs[log[k].run].state # "none"
    BY <1>1 DEF ServerInv, LoggedRuns
  <2> QED
    BY <2>1, <1>2 DEF ServerInv, RunsLogged
<1>4. j # k
  BY <1>2, <1>3
<1>5. ~(k < j)
  <2>1. k < j => log[k].run < log[j].run
    BY <1>1, <1>3 DEF ServerInv, Ordered
  <2> QED
    BY <2>1, <1>2, <1>3
<1>6. j < k
  BY <1>1, <1>4, <1>5
<1>7. cursor > 0 /\ cursor \in 1..Len(log) /\ j <= cursor /\ cursor < k
  BY <1>1, <1>6 DEF k
<1>8. log[cursor].run \in Nat /\ log[cursor].run <= log[k].run
  <2>1. log[cursor].run \in Runs
    BY <1>7, LoggedRun
  <2> QED
    BY <2>1, <1>1, <1>7 DEF ServerInv, Ordered
<1>9. log[j].run <= log[cursor].run
  <2>1. CASE j = cursor
    <3>1. log[cursor].run <= log[cursor].run
      BY <1>8
    <3> QED
      BY <2>1, <3>1
  <2>2. CASE j < cursor
    BY <2>2, <1>7 DEF ServerInv, Ordered
  <2> QED
    BY <2>1, <2>2, <1>1, <1>7
<1>10. log[cursor].run = log[k].run
  BY <1>2, <1>3, <1>8, <1>9
<1> QED
  BY <1>7, <1>10 DEF k

LEMMA Unheard ==
  ASSUME ServerInv, Runs \subseteq Nat, StreamInv, cursor = 0
  PROVE  log = <<>> \/ NextStarts
<1>1. CASE cursor < Len(log)
  BY <1>1, SameRunNext
<1>2. CASE ~(cursor < Len(log))
  BY <1>2 DEF ServerInv, ServerTyped
<1> QED
  BY <1>1, <1>2

(* What is logged later changes nothing of what was heard.                 *)
LEMMA PageGrows ==
  ASSUME ServerInv, ServerInv', StreamInv, Hinted, PageInv, Runs \subseteq Nat, Grows,
         UNCHANGED <<page, cursor, settled>>
  PROVE  Hinted' /\ PageInv'
<1>1. /\ cursor \in Nat /\ cursor <= Len(log) /\ Len(log) \in Nat /\ Len(log') \in Nat
      /\ Len(log) <= Len(log') /\ \A k \in 1..Len(log) : log'[k] = log[k]
      /\ log \in Seq(Events) /\ log' \in Seq(Events)
  BY DEF StreamInv, ServerInv, ServerTyped, Grows
<1>2. NextStarts => NextStarts'
  BY <1>1 DEF NextStarts
<1>3. \A k \in 1..cursor : k \in 1..Len(log) /\ log'[k] = log[k] /\ log[k].run \in Runs
  BY <1>1, LoggedRun
<1>4. \A r : EndHeard(r)' <=> EndHeard(r)
  BY <1>3 DEF EndHeard
<1>5. cursor > 0 => log'[cursor] = log[cursor] /\ log[cursor].run \in Runs
  BY <1>1, <1>3
<1>6. \A r \in Runs : /\ runs'[r].kind = runs[r].kind
                      /\ runs[r].state \in Ended
                           => runs'[r].state = runs[r].state /\ runs'[r].ok = runs[r].ok
                      /\ ~runs[r].ok => runs[r].state \in Ended
  BY DEF Grows, ServerInv, RunsLogged
<1>7. Hinted'
  <2> SUFFICES ASSUME page.run.hints
               PROVE  /\ page.run.id \in Runs /\ ~runs'[page.run.id].ok
                      /\ NextStarts' \/ cursor = 0 \/ page.run.id = log'[cursor].run
    BY DEF Hinted
  <2>1. page.run.id \in Runs /\ ~runs[page.run.id].ok
        /\ (NextStarts \/ cursor = 0 \/ page.run.id = log[cursor].run)
    BY DEF Hinted
  <2>2. ~runs'[page.run.id].ok
    BY <2>1, <1>6
  <2> QED
    BY <2>1, <2>2, <1>1, <1>2, <1>5
<1>8. PageInv'
  <2> SUFFICES ASSUME settled, page.thread.listed PROVE Follows' /\ DoneRuns'
    BY DEF PageInv
  <2>1. Follows /\ DoneRuns
    BY DEF PageInv
  <2>2. Follows'
    <3>1. CASE NextStarts
      BY <3>1, <1>2 DEF Follows
    <3>2. CASE cursor = 0 /\ log = <<>> /\ page.thread.job = 0
      <4>1. CASE log' = <<>>
        BY <3>2, <4>1 DEF Follows
      <4>2. CASE log' # <<>>
        <5>1. 1 \in 1..Len(log') /\ log'[1] \in Events
          BY <4>2, <1>1
        <5>2. log'[1].type = "run.started"
          <6>1. log'[1].run \in Runs /\ runs'[log'[1].run].state # "none"
            BY <5>1 DEF Events, ServerInv, LoggedRuns
          <6>2. PICK j \in 1..Len(log') : log'[j].run = log'[1].run /\ log'[j].type = "run.started"
            BY <6>1 DEF ServerInv, RunsLogged
          <6>3. log'[1].run \in Nat
            BY <6>1
          <6>4. ~(1 < j)
            <7>1. 1 < j => log'[1].run < log'[j].run
              BY <5>1, <6>2 DEF ServerInv, Ordered
            <7> QED
              BY <7>1, <6>2, <6>3
          <6>5. j = 1
            BY <6>4, <1>1
          <6> QED
            BY <6>2, <6>5
        <5>3. NextStarts'
          BY <3>2, <5>1, <5>2, <1>1 DEF NextStarts
        <5> QED
          BY <5>3 DEF Follows
      <4> QED
        BY <4>1, <4>2
    <3>3. CASE /\ cursor > 0
               /\ page.thread.job = log[cursor].run /\ page.thread.last = "running"
               /\ ~EndHeard(log[cursor].run)
      BY <3>3, <1>4, <1>5 DEF Follows
    <3>4. CASE /\ cursor > 0
               /\ page.thread.job = 0 /\ runs[log[cursor].run].state \in Ended
               /\ page.thread.last \in {Outcome(log[cursor].run), runs[log[cursor].run].state}
      BY <3>4, <1>5, <1>6 DEF Follows, Outcome
    <3> QED
      BY <2>1, <3>1, <3>2, <3>3, <3>4 DEF Follows
  <2>3. DoneRuns'
    <3> SUFFICES ASSUME NEW r \in Runs, Contains(page.done, r)
                 PROVE  /\ \E k \in 1..cursor : log'[k].run = r
                        /\ runs'[r].state \in Ended
                        /\ EndHeard(r)' \/ runs'[r].kind = "job"
                        /\ page.thread.job # r
      BY DEF DoneRuns
    <3>1. /\ \E k \in 1..cursor : log[k].run = r
          /\ runs[r].state \in Ended
          /\ EndHeard(r) \/ runs[r].kind = "job"
          /\ page.thread.job # r
      BY <2>1 DEF DoneRuns
    <3> QED
      BY <3>1, <1>3, <1>4, <1>6
  <2> QED
    BY <2>2, <2>3
<1> QED
  BY <1>7, <1>8

LEMMA SubmitGrows ==
  ASSUME SubmitInv, Grows, UNCHANGED submit
  PROVE  SubmitInv'
BY DEF SubmitInv, Grows

LEMMA PollsGrow ==
  ASSUME PollsInv, Grows, RunsLogged, UNCHANGED <<polls, known>>
  PROVE  PollsInv'
<1>1. ASSUME NEW q \in polls PROVE IsPoll(q)'
  <2>1. IsPoll(q)
    BY DEF PollsInv
  <2>2. q.run \in Runs
    BY <2>1 DEF IsPoll
  <2>3. /\ runs'[q.run].kind = runs[q.run].kind
        /\ runs[q.run].state # "none" => runs'[q.run].state # "none"
        /\ runs[q.run].state \in Ended
             => runs'[q.run].state = runs[q.run].state /\ runs'[q.run].ok = runs[q.run].ok
        /\ runs[q.run].final => runs'[q.run].final
        /\ runs[q.run].final => runs[q.run].state \in Ended
    BY <2>2 DEF Grows, RunsLogged
  <2> QED
    BY <2>1, <2>3 DEF IsPoll
<1>2. \A r \in known : r \in Runs /\ runs'[r].kind = "job" /\ runs'[r].state # "none"
  BY DEF PollsInv, Grows
<1> QED
  BY <1>1, <1>2 DEF PollsInv

(* Nothing but entries, marks and alerts is new on the page.               *)
LEMMA PageKeeps ==
  ASSUME Hinted, PageInv, UNCHANGED <<log, runs, cursor>>, settled' => settled,
         page'.run.hints => page.run.hints /\ page'.run.id = page.run.id,
         page'.thread.listed => /\ page.thread.listed
                                /\ page'.done = page.done
                                /\ page'.thread.job = page.thread.job
                                /\ page'.thread.last = page.thread.last
  PROVE  Hinted' /\ PageInv'
<1>1. NextStarts' <=> NextStarts
  BY DEF NextStarts
<1>2. \A r : EndHeard(r)' <=> EndHeard(r)
  BY DEF EndHeard
<1>3. Hinted'
  BY <1>1 DEF Hinted
<1>4. PageInv'
  <2> SUFFICES ASSUME settled', page'.thread.listed PROVE Follows' /\ DoneRuns'
    BY DEF PageInv
  <2>1. Follows /\ DoneRuns
    BY DEF PageInv
  <2>2. Follows'
    BY <2>1, <1>1, <1>2 DEF Follows, Outcome
  <2>3. DoneRuns'
    BY <2>1, <1>2 DEF DoneRuns
  <2> QED
    BY <2>2, <2>3
<1> QED
  BY <1>3, <1>4

(* The next event of the stream.                                           *)
Heard(e, surface, active) ==
  /\ cursor < Len(log) /\ e = log[cursor + 1]
  /\ cursor' = cursor + 1
  /\ page' = HandleSessionEvent(page, e, surface, active)
  /\ UNCHANGED <<log, runs, settled>>

LEMMA HeardFacts ==
  ASSUME ServerInv, StreamInv, Runs \subseteq Nat, NEW e, NEW surface, NEW active,
         Heard(e, surface, active)
  PROVE  /\ cursor + 1 \in 1..Len(log) /\ cursor \in Nat
         /\ e \in Events /\ e.run \in Runs /\ e.type \in EventTypes
         /\ cursor' > 0 /\ log'[cursor'].run = e.run
         /\ e.type # "run.started" =>
              /\ ~NextStarts /\ cursor > 0 /\ log[cursor].run = e.run
         /\ e.type = "run.started" => \A k \in 1..cursor : log[k].run # e.run
         /\ \A r : EndHeard(r)' <=> EndHeard(r) \/ (r = e.run /\ e.type \in EndTypes)
         /\ \A k \in 1..cursor : k \in 1..cursor'
         /\ \E k \in 1..cursor' : log'[k].run = e.run
<1>1. cursor + 1 \in 1..Len(log) /\ cursor \in Nat /\ Len(log) \in Nat
  BY DEF ServerInv, ServerTyped, StreamInv, Heard
<1>2. e \in Events
  BY <1>1, LoggedRun DEF Heard
<1>3. e.run \in Runs /\ e.type \in EventTypes
  BY <1>2 DEF Events
<1>4. cursor' = cursor + 1 /\ cursor' > 0 /\ log' = log /\ log'[cursor'] = e
  BY <1>1 DEF Heard
<1>5. e.type # "run.started" => ~NextStarts /\ cursor > 0 /\ log[cursor].run = e.run
  <2> SUFFICES ASSUME e.type # "run.started"
               PROVE ~NextStarts /\ cursor > 0 /\ log[cursor].run = e.run
    OBVIOUS
  <2>1. ~NextStarts
    BY DEF Heard, NextStarts
  <2>2. cursor < Len(log)
    BY DEF Heard
  <2>3. cursor > 0 /\ log[cursor + 1].run = log[cursor].run
    BY <2>1, <2>2, SameRunNext
  <2> QED
    BY <2>1, <2>3 DEF Heard
<1>6. ASSUME e.type = "run.started", NEW k \in 1..cursor PROVE log[k].run # e.run
  <2>1. k \in 1..Len(log) /\ k < cursor + 1
    BY <1>1
  <2>2. log[k].run < e.run
    BY <2>1, <1>1, <1>6 DEF ServerInv, Ordered, Heard
  <2>3. e.run \in Nat
    BY <1>3
  <2> QED
    BY <2>2, <2>3
<1>7. ASSUME NEW r PROVE EndHeard(r)' <=> EndHeard(r) \/ (r = e.run /\ e.type \in EndTypes)
  <2>1. \A k : k \in 1..cursor' <=> k \in 1..cursor \/ k = cursor'
    BY <1>1, <1>4
  <2> QED
    BY <2>1, <1>4 DEF EndHeard
<1>8. \A k \in 1..cursor : k \in 1..cursor'
  BY <1>1, <1>4
<1>9. \E k \in 1..cursor' : log'[k].run = e.run
  BY <1>1, <1>4
<1> QED
  BY <1>1, <1>2, <1>3, <1>4, <1>5, <1>6, <1>7, <1>8, <1>9

LEMMA StartHeard ==
  ASSUME ServerInv, StreamInv, Shaped, Hinted, PageInv, Runs \subseteq Nat \ {0},
         NEW e, NEW surface, NEW active, Heard(e, surface, active), e.type = "run.started"
  PROVE  IsPage(page)' /\ Hinted' /\ PageInv'
<1>0. IsPage(page)
  BY DEF Shaped
<1>1. Runs \subseteq Nat
  OBVIOUS
<1>2. /\ e.run \in Runs /\ cursor' > 0 /\ log'[cursor'].run = e.run
      /\ \A k \in 1..cursor : log[k].run # e.run
      /\ \A r : EndHeard(r)' <=> EndHeard(r) \/ (r = e.run /\ e.type \in EndTypes)
      /\ \A k \in 1..cursor : k \in 1..cursor'
  BY <1>1, HeardFacts
<1>3. page' = RunStarted(page, e) /\ log' = log /\ runs' = runs /\ settled' = settled
  BY DEF Heard, HandleSessionEvent
<1>4. LET q == RunStarted(page, e)
      IN /\ IsPage(q)
         /\ q.run.id = e.run
         /\ q.run.hints => page.run.id = e.run /\ page.run.hints
         /\ q.done = page.done /\ q.told = page.told
         /\ q.thread.listed = page.thread.listed
         /\ page.thread.listed => q.thread.job = e.run /\ q.thread.last = "running"
  BY <1>0, StartedPage
<1>5. IsPage(page)'
  BY <1>3, <1>4 DEF IsPage
<1>6. /\ page'.run.id = e.run
      /\ page'.run.hints => page.run.id = e.run /\ page.run.hints
      /\ page'.done = page.done
      /\ page'.thread.listed = page.thread.listed
      /\ page.thread.listed => page'.thread.job = e.run /\ page'.thread.last = "running"
  BY <1>3, <1>4
<1>7. Hinted'
  BY <1>2, <1>3, <1>6 DEF Hinted
<1>8. PageInv'
  <2> SUFFICES ASSUME settled', page'.thread.listed PROVE Follows' /\ DoneRuns'
    BY DEF PageInv
  <2>1. ~EndHeard(e.run)'
    <3>1. e.type \notin EndTypes
      BY DEF EndTypes
    <3> QED
      BY <3>1, <1>2 DEF EndHeard
  <2>2. Follows'
    BY <2>1, <1>2, <1>6 DEF Follows
  <2>3. DoneRuns
    BY <1>3, <1>6 DEF PageInv
  <2>4. DoneRuns'
    BY <2>3, <1>2, <1>3, <1>6 DEF DoneRuns
  <2> QED
    BY <2>2, <2>4
<1> QED
  BY <1>5, <1>7, <1>8

(* An event within a run.                                                  *)
LEMMA MiddleHeard ==
  ASSUME ServerInv, StreamInv, Hinted, PageInv, Runs \subseteq Nat \ {0},
         NEW e, NEW surface, NEW active, Heard(e, surface, active),
         e.type # "run.started", e.type \notin EndTypes,
         page'.run.id = e.run,
         page'.run.hints => (page.run.id = e.run /\ page.run.hints) \/ ~runs[e.run].ok,
         page'.done = page.done, page'.thread.listed = page.thread.listed,
         page'.thread.job = page.thread.job, page'.thread.last = page.thread.last
  PROVE  Hinted' /\ PageInv'
<1>1. Runs \subseteq Nat
  OBVIOUS
<1>2. /\ e.run \in Runs /\ cursor' > 0 /\ log'[cursor'].run = e.run
      /\ ~NextStarts /\ cursor > 0 /\ log[cursor].run = e.run
      /\ \A r : EndHeard(r)' <=> EndHeard(r) \/ (r = e.run /\ e.type \in EndTypes)
      /\ \A k \in 1..cursor : k \in 1..cursor'
  BY <1>1, HeardFacts
<1>3. log' = log /\ runs' = runs /\ settled' = settled
  BY DEF Heard
<1>4. Hinted'
  BY <1>2, <1>3 DEF Hinted
<1>5. PageInv'
  <2> SUFFICES ASSUME settled', page'.thread.listed PROVE Follows' /\ DoneRuns'
    BY DEF PageInv
  <2>1. Follows /\ DoneRuns
    BY <1>3 DEF PageInv
  <2>2. \A r : EndHeard(r)' <=> EndHeard(r)
    BY <1>2
  <2>3. Follows'
    BY <2>1, <2>2, <1>2, <1>3 DEF Follows, Outcome
  <2>4. DoneRuns'
    BY <2>1, <2>2, <1>2, <1>3 DEF DoneRuns
  <2> QED
    BY <2>3, <2>4
<1> QED
  BY <1>4, <1>5

(* The end of a run.                                                       *)
LEMMA EndingHeard ==
  ASSUME ServerInv, StreamInv, Shaped, PageInv, Runs \subseteq Nat \ {0}, MaxDone \in Nat,
         NEW e, NEW surface, NEW active, Heard(e, surface, active), e.type \in EndTypes,
         NEW status, status \in {Outcome(e.run), runs[e.run].state},
         ~page'.run.hints,
         page'.done = Marked(page.done, e.run),
         page'.thread.listed = page.thread.listed,
         page.thread.listed => page'.thread.job = 0 /\ page'.thread.last = status
  PROVE  Hinted' /\ PageInv'
<1>1. Runs \subseteq Nat
  OBVIOUS
<1>2. /\ e.run \in Runs /\ cursor' > 0 /\ log'[cursor'].run = e.run
      /\ \A r : EndHeard(r)' <=> EndHeard(r) \/ (r = e.run /\ e.type \in EndTypes)
      /\ \A k \in 1..cursor : k \in 1..cursor'
      /\ \E k \in 1..cursor' : log'[k].run = e.run
      /\ cursor + 1 \in 1..Len(log)
  BY <1>1, HeardFacts
<1>3. log' = log /\ runs' = runs /\ settled' = settled /\ e = log[cursor + 1]
  BY DEF Heard
<1>4. runs[e.run].state \in Ended
  BY <1>2, <1>3 DEF ServerInv, LoggedRuns, StateOf, Ended
<1>5. Hinted'
  BY DEF Hinted
<1>6. PageInv'
  <2> SUFFICES ASSUME settled', page'.thread.listed PROVE Follows' /\ DoneRuns'
    BY DEF PageInv
  <2>1. DoneRuns
    BY <1>3 DEF PageInv
  <2>2. page'.thread.job = 0 /\ page'.thread.last = status
    OBVIOUS
  <2>3. Follows'
    BY <2>2, <1>2, <1>3, <1>4 DEF Follows, Outcome
  <2>4. DoneRuns'
    <3> SUFFICES ASSUME NEW r \in Runs, Contains(page'.done, r)
                 PROVE  /\ \E k \in 1..cursor' : log'[k].run = r
                        /\ runs'[r].state \in Ended
                        /\ EndHeard(r)' \/ runs'[r].kind = "job"
                        /\ page'.thread.job # r
      BY DEF DoneRuns
    <3>1. page.done \in Seq(Runs)
      BY DEF Shaped, IsPage
    <3>2. r = e.run \/ Contains(page.done, r)
      <4>1. Contains(Marked(page.done, e.run), r)
        BY Zenon
      <4>2. \A x : Contains(Marked(page.done, e.run), x) => x = e.run \/ Contains(page.done, x)
        BY <3>1, <1>2, MarkedIs
      <4> QED
        BY <4>1, <4>2
    <3>3. CASE r = e.run
      BY <3>3, <2>2, <1>2, <1>3, <1>4
    <3>4. CASE Contains(page.done, r)
      BY <3>4, <2>1, <2>2, <1>2, <1>3 DEF DoneRuns
    <3> QED
      BY <3>2, <3>3, <3>4
  <2> QED
    BY <2>3, <2>4
<1> QED
  BY <1>5, <1>6

LEMMA EventHeard ==
  ASSUME ServerInv, StreamInv, Shaped, Hinted, PageInv, Runs \subseteq Nat \ {0}, MaxDone \in Nat,
         NEW e, NEW surface, NEW active, Heard(e, surface, active)
  PROVE  IsPage(page)' /\ Hinted' /\ PageInv'
<1>0. IsPage(page)
  BY DEF Shaped
<1>1. Runs \subseteq Nat
  OBVIOUS
<1>2. /\ e.run \in Runs /\ e.type \in EventTypes
      /\ cursor + 1 \in 1..Len(log)
      /\ e.type # "run.started" =>
           /\ ~NextStarts /\ cursor > 0 /\ log[cursor].run = e.run
  BY <1>1, HeardFacts
<1>3. page' = HandleSessionEvent(page, e, surface, active) /\ e = log[cursor + 1]
  BY DEF Heard
<1>4. CASE e.type = "run.started"
  BY <1>4, StartHeard
<1>5. CASE e.type \in {"assistant.delta", "assistant.completed"}
  <2>1. page' = AssistantDelta(page, e) \/ page' = AssistantCompleted(page, e)
    BY <1>3, <1>5 DEF HandleSessionEvent
  <2>2. Reads(page, AssistantDelta(page, e), e.run) /\ Reads(page, AssistantCompleted(page, e), e.run)
    BY <1>0, DeltaPage, CompletedReplyPage
  <2>3. /\ IsPage(page)'
        /\ page'.run.id = e.run
        /\ page'.run.hints => page.run.id = e.run /\ page.run.hints
        /\ page'.done = page.done
        /\ page'.thread.listed = page.thread.listed
        /\ page'.thread.job = page.thread.job /\ page'.thread.last = page.thread.last
    BY <2>1, <2>2 DEF Reads, IsPage
  <2>4. e.type # "run.started" /\ e.type \notin EndTypes
    BY <1>5 DEF EndTypes
  <2> QED
    BY <2>3, <2>4, MiddleHeard
<1>6. CASE e.type = "target.done"
  <2>1. page' = TargetDone(page, e)
    BY <1>3, <1>6 DEF HandleSessionEvent
  <2>2. LET q == TargetDone(page, e)
        IN /\ IsPage(q)
           /\ q.run.id = e.run
           /\ q.run.hints => (page.run.id = e.run /\ page.run.hints) \/ ~e.ok
           /\ q.done = page.done /\ q.told = page.told
           /\ q.thread.listed = page.thread.listed
           /\ q.thread.job = page.thread.job /\ q.thread.last = page.thread.last
    BY <1>0, TargetDonePage
  <2>3. ~e.ok => ~runs[e.run].ok
    BY <1>2, <1>3, <1>6 DEF ServerInv, LoggedRuns
  <2>4. IsPage(page)'
    BY <2>1, <2>2 DEF IsPage
  <2>5. /\ page'.run.id = e.run
        /\ page'.run.hints => (page.run.id = e.run /\ page.run.hints) \/ ~runs[e.run].ok
        /\ page'.done = page.done
        /\ page'.thread.listed = page.thread.listed
        /\ page'.thread.job = page.thread.job /\ page'.thread.last = page.thread.last
    BY <2>1, <2>2, <2>3
  <2>6. e.type # "run.started" /\ e.type \notin EndTypes
    BY <1>6 DEF EndTypes
  <2> QED
    BY <2>4, <2>5, <2>6, MiddleHeard
<1>7. CASE e.type \in {"run.failed", "run.canceled"}
  <2>1. PICK status \in {"failed", "canceled"} :
          status = StateOf(e.type) /\ page' = RunBroken(page, e, status, surface, active)
    BY <1>3, <1>7 DEF HandleSessionEvent, StateOf
  <2>2. Over(page, RunBroken(page, e, status, surface, active), e.run, status)
    BY <1>0, <1>2, BrokenPage
  <2>3. IsPage(page)'
    BY <2>1, <2>2 DEF Over, IsPage
  <2>4. /\ ~page'.run.hints
        /\ page'.done = Marked(page.done, e.run)
        /\ page'.thread.listed = page.thread.listed
        /\ page.thread.listed => page'.thread.job = 0 /\ page'.thread.last = status
    BY <2>1, <2>2 DEF Over, NoRun
  <2>5. e.type \in EndTypes
    BY <1>7 DEF EndTypes
  <2>6. runs[e.run].state = status
    BY <1>2, <1>3, <2>1, <2>5 DEF ServerInv, LoggedRuns
  <2> QED
    BY <2>3, <2>4, <2>5, <2>6, EndingHeard
<1>8. CASE e.type = "run.completed"
  <2>1. page' = RunCompleted(page, e, surface, active)
    BY <1>3, <1>8 DEF HandleSessionEvent
  <2>2. LET q == RunCompleted(page, e, surface, active)
        IN IF Contains(page.done, e.run) THEN q = page
           ELSE Over(page, q, e.run, IF page.run.hints THEN "failed" ELSE "succeeded")
    BY <1>0, <1>2, CompletedPage
  <2>3. e.type \in EndTypes /\ e.type # "run.started"
    BY <1>8 DEF EndTypes
  <2>4. runs[e.run].state = "succeeded"
    BY <1>2, <1>3, <1>8, <2>3 DEF ServerInv, LoggedRuns, StateOf
  <2>5. CASE Contains(page.done, e.run)
    <3>1. page' = page
      BY <2>1, <2>2, <2>5
    <3>2. IsPage(page)'
      BY <1>0, <3>1 DEF IsPage
    <3>3. log' = log /\ runs' = runs /\ settled' = settled
      BY DEF Heard
    <3>4. /\ cursor' > 0 /\ log'[cursor'].run = e.run
          /\ \A r : EndHeard(r) => EndHeard(r)'
          /\ \A k \in 1..cursor : k \in 1..cursor'
      BY <1>1, HeardFacts
    <3>5. Hinted'
      BY <1>2, <2>3, <3>1, <3>3, <3>4 DEF Hinted
    <3>6. PageInv'
      <4> SUFFICES ASSUME settled', page'.thread.listed PROVE Follows' /\ DoneRuns'
        BY DEF PageInv
      <4>1. Follows /\ DoneRuns
        BY <3>1, <3>3 DEF PageInv
      <4>2. page.thread.job # e.run
        BY <1>2, <2>5, <4>1 DEF DoneRuns
      <4>3. /\ page.thread.job = 0 /\ runs[e.run].state \in Ended
            /\ page.thread.last \in {Outcome(e.run), runs[e.run].state}
        BY <1>2, <2>3, <4>1, <4>2 DEF Follows
      <4>4. Follows'
        BY <4>3, <3>1, <3>3, <3>4 DEF Follows, Outcome
      <4>5. DoneRuns'
        BY <4>1, <3>1, <3>3, <3>4 DEF DoneRuns
      <4> QED
        BY <4>4, <4>5
    <3> QED
      BY <3>2, <3>5, <3>6
  <2>6. CASE ~Contains(page.done, e.run)
    <3>1. PICK status \in {"failed", "succeeded"} :
            /\ status = IF page.run.hints THEN "failed" ELSE "succeeded"
            /\ Over(page, RunCompleted(page, e, surface, active), e.run, status)
      BY <2>2, <2>6
    <3>2. IsPage(page)'
      BY <2>1, <3>1 DEF Over, IsPage
    <3>3. /\ ~page'.run.hints
          /\ page'.done = Marked(page.done, e.run)
          /\ page'.thread.listed = page.thread.listed
          /\ page.thread.listed => page'.thread.job = 0 /\ page'.thread.last = status
      BY <2>1, <3>1 DEF Over, NoRun
    <3>4. page.run.hints => ~runs[e.run].ok
      BY <1>2, <2>3 DEF Hinted
    <3>5. status \in {Outcome(e.run), runs[e.run].state}
      BY <2>4, <3>1, <3>4 DEF Outcome
    <3> QED
      BY <2>3, <3>2, <3>3, <3>5, EndingHeard
  <2> QED
    BY <2>5, <2>6
<1> QED
  BY <1>2, <1>4, <1>5, <1>6, <1>7, <1>8 DEF EventTypes, EndTypes

-----------------------------------------------------------------------------
(* The steps.                                                              *)

LEMMA NothingServed ==
  ASSUME ServerInv, UNCHANGED <<log, runs>>
  PROVE  ServerInv' /\ Grows
<1>1. Len(log) \in Nat /\ Len(log) <= Len(log')
  BY DEF ServerInv, ServerTyped
<1>2. Grows
  BY <1>1 DEF Grows
<1>3. ServerTyped' /\ Ordered' /\ LoggedRuns' /\ OneAtATime'
  BY DEF ServerInv, ServerTyped, Ordered, LoggedRuns, OneAtATime
<1>4. RunsLogged'
  BY DEF ServerInv, RunsLogged
<1> QED
  BY <1>2, <1>3, <1>4 DEF ServerInv

LEMMA StreamSame ==
  ASSUME ServerInv, ServerInv', Grows, StreamInv, UNCHANGED <<cursor, stream>>
  PROVE  StreamInv'
BY DEF StreamInv, Grows, ServerInv, ServerTyped

LEMMA ShapeSame ==
  ASSUME Shaped, UNCHANGED <<page, seen, settled>>
  PROVE  Shaped'
BY DEF Shaped, IsPage

(* The server goes on.                                                     *)
LEMMA ServedStep ==
  ASSUME RunsInv, ServerInv', Grows, Runs \subseteq Nat,
         UNCHANGED <<page, seen, cursor, stream, submit, polls, known, settled>>
  PROVE  RunsInv'
<1>1. ServerInv /\ StreamInv /\ Shaped /\ Hinted /\ PageInv /\ SubmitInv /\ PollsInv
  BY DEF RunsInv
<1>2. RunsLogged
  BY <1>1 DEF ServerInv
<1>3. StreamInv'
  BY <1>1, StreamSame
<1>4. Shaped'
  BY <1>1, ShapeSame
<1>5. Hinted' /\ PageInv'
  BY <1>1, PageGrows
<1>6. SubmitInv' /\ PollsInv'
  BY <1>1, <1>2, SubmitGrows, PollsGrow
<1> QED
  BY <1>3, <1>4, <1>5, <1>6 DEF RunsInv

LEMMA ServerSteps ==
  ASSUME RunsInv, Runs \subseteq Nat \ {0}, ServerNext
  PROVE  RunsInv'
<1>0. ServerInv /\ Runs \subseteq Nat
  BY DEF RunsInv
<1>1. PICK r \in Runs :
        \/ Start(r)
        \/ Emit(r)
        \/ \E how \in Ended, ok \in BOOLEAN : End(r, how, ok)
        \/ Settle(r)
        \/ Recover(r)
  BY DEF ServerNext
<1>2. UNCHANGED <<page, seen, cursor, stream, submit, polls, known, settled>>
  BY <1>1 DEF Start, Emit, End, Settle, Recover, ghosts
<1>3. ServerInv' /\ Grows
  <2>1. CASE Start(r)
    BY <1>0, <2>1, BeginServer DEF Start
  <2>2. CASE Emit(r)
    BY <1>0, <2>2, EmitServer
  <2>3. CASE \E how \in Ended, ok \in BOOLEAN : End(r, how, ok)
    BY <1>0, <2>3, EndServer
  <2>4. CASE Settle(r)
    BY <1>0, <2>4, SettleServer
  <2>5. CASE Recover(r)
    BY <1>0, <2>5, RecoverServer
  <2> QED
    BY <1>1, <2>1, <2>2, <2>3, <2>4, <2>5
<1> QED
  BY <1>0, <1>2, <1>3, ServedStep

(* A step of the stream that hears nothing new.                            *)
LEMMA StreamOnly ==
  ASSUME RunsInv, Runs \subseteq Nat, StreamInv',
         UNCHANGED <<log, runs, page, seen, cursor, submit, polls, known, settled>>
  PROVE  RunsInv'
<1>1. ServerInv /\ StreamInv /\ Shaped /\ Hinted /\ PageInv /\ SubmitInv /\ PollsInv
  BY DEF RunsInv
<1>2. ServerInv' /\ Grows /\ RunsLogged
  BY <1>1, NothingServed DEF ServerInv
<1>4. Shaped'
  BY <1>1, ShapeSame
<1>5. Hinted' /\ PageInv'
  BY <1>1, <1>2, PageGrows
<1>6. SubmitInv' /\ PollsInv'
  BY <1>1, <1>2, SubmitGrows, PollsGrow
<1> QED
  BY <1>2, <1>4, <1>5, <1>6 DEF RunsInv

LEMMA DeliverStep ==
  ASSUME RunsInv, Runs \subseteq Nat \ {0}, MaxDone \in Nat, Deliver
  PROVE  RunsInv'
<1> DEFINE k == stream.sent + 1
           surface == (stream.ready \/ ~stream.suppress) /\ AfterCutoff(k)
<1>0. Runs \subseteq Nat
  OBVIOUS
<1>1. ServerInv /\ StreamInv /\ Shaped /\ Hinted /\ PageInv /\ SubmitInv /\ PollsInv
  BY DEF RunsInv
<1>2. ServerInv' /\ Grows /\ RunsLogged
  BY <1>1, NothingServed DEF ServerInv, Deliver, server
<1>3. UNCHANGED <<log, runs, seen, submit, polls, known, settled>>
  BY DEF Deliver, server, ghosts
<1>4. /\ stream.phase = "open" /\ stream.sent \in Nat /\ stream.from \in Nat
      /\ stream.from <= stream.sent /\ stream.sent <= cursor
      /\ cursor \in Nat /\ stream.sent < Len(log) /\ Len(log) \in Nat
      /\ stream' = [stream EXCEPT !.sent = k]
      /\ DOMAIN stream = {"phase", "via", "from", "ready", "suppress", "sent"}
  BY <1>1 DEF StreamInv, Deliver, ServerInv, ServerTyped
<1>5. /\ stream'.from = stream.from /\ stream'.sent = k
      /\ DOMAIN stream' = {"phase", "via", "from", "ready", "suppress", "sent"}
  BY <1>4
<1>6. CASE k <= cursor
  <2>1. page' = page /\ cursor' = cursor
    BY <1>6 DEF Deliver, Replayed
  <2>2. StreamInv'
    BY <1>1, <1>3, <1>4, <1>5, <1>6, <2>1 DEF StreamInv
  <2> QED
    BY <1>0, <1>3, <2>1, <2>2, StreamOnly
<1>7. CASE ~(k <= cursor)
  <2>1. k = cursor + 1
    BY <1>4, <1>7
  <2>2. cursor' = k /\ page' = HandleSessionEvent(page, log[k], surface, Active)
    BY <1>7 DEF Deliver, Replayed
  <2>3. Heard(log[k], surface, Active)
    BY <1>3, <1>4, <2>1, <2>2 DEF Heard
  <2>4. IsPage(page)' /\ Hinted' /\ PageInv'
    <3> HIDE DEF surface, k
    <3> QED
      BY <1>1, <2>3, EventHeard
  <2>5. StreamInv'
    BY <1>3, <1>4, <1>5, <2>1, <2>2 DEF StreamInv
  <2>6. Shaped'
    BY <1>1, <1>3, <2>4 DEF Shaped
  <2>7. SubmitInv' /\ PollsInv'
    BY <1>1, <1>2, <1>3, SubmitGrows, PollsGrow
  <2> QED
    BY <1>2, <2>4, <2>5, <2>6, <2>7 DEF RunsInv
<1> QED
  BY <1>6, <1>7

LEMMA StreamSteps ==
  ASSUME RunsInv, Runs \subseteq Nat \ {0}, MaxDone \in Nat, StreamNext
  PROVE  RunsInv'
<1>0. Runs \subseteq Nat
  OBVIOUS
<1>1. /\ cursor \in Nat /\ cursor <= Len(log) /\ Len(log) \in Nat
      /\ DOMAIN stream = {"phase", "via", "from", "ready", "suppress", "sent"}
      /\ stream.phase = "open" =>
           /\ stream.from \in Nat /\ stream.sent \in Nat
           /\ stream.from <= stream.sent /\ stream.sent <= cursor
  BY DEF RunsInv, StreamInv, ServerInv, ServerTyped
<1>2. ASSUME UNCHANGED <<server, page, seen, submit, polls, place, auth, cutoff, known, ghosts>>,
             cursor' = cursor,
             DOMAIN stream' = {"phase", "via", "from", "ready", "suppress", "sent"},
             stream'.phase = "open" =>
               \/ stream'.from = cursor /\ stream'.sent = cursor
               \/ /\ stream.phase = "open" /\ stream'.from = stream.from
                  /\ stream'.sent \in {stream.from, stream.sent}
      PROVE  RunsInv'
  <2>1. StreamInv'
    BY <1>1, <1>2 DEF StreamInv, server
  <2> QED
    BY <1>0, <1>2, <2>1, StreamOnly DEF server, ghosts
<1>3. ASSUME NEW via, Connect(via) PROVE RunsInv'
  BY <1>1, <1>2, <1>3 DEF Connect
<1>4. CASE OpenSocket \/ OpenEvents
  BY <1>3, <1>4 DEF OpenSocket, OpenEvents
<1>5. CASE FallBack
  BY <1>1, <1>2, <1>5 DEF FallBack
<1>6. CASE Deliver
  BY <1>6, DeliverStep
<1>7. ASSUME stream.phase = "open" PROVE Max2(cursor, stream.sent) = cursor
  BY <1>1, <1>7 DEF Max2
<1>8. CASE Ready
  BY <1>1, <1>2, <1>7, <1>8 DEF Ready
<1>9. /\ DOMAIN Waiting = {"phase", "via", "from", "ready", "suppress", "sent"}
      /\ Waiting.phase # "open"
  BY <1>1 DEF Waiting
<1>10. CASE \E broken \in BOOLEAN : Close(broken)
  BY <1>2, <1>9, <1>10 DEF Close
<1>11. CASE Reset
  BY <1>2, <1>7, <1>9, <1>11 DEF Reset
<1>12. CASE Idle
  BY <1>1, <1>2, <1>12 DEF Idle
<1>13. CASE Reconnect
  BY <1>2, <1>13 DEF Reconnect, NewStream, NoStream
<1> QED
  BY <1>4, <1>5, <1>6, <1>8, <1>10, <1>11, <1>12, <1>13 DEF StreamNext

(* A step of the user that changes what the page shows, and no run of it.  *)
LEMMA PageStep ==
  ASSUME RunsInv, UNCHANGED <<log, runs, cursor>>, StreamInv', SubmitInv', PollsInv',
         IsPage(page)', DOMAIN seen' = {"listed", "timeline", "job", "last", "unread"},
         settled' = settled,
         page'.run.hints => page.run.hints /\ page'.run.id = page.run.id,
         page'.thread.listed => /\ page.thread.listed
                                /\ page'.done = page.done
                                /\ page'.thread.job = page.thread.job
                                /\ page'.thread.last = page.thread.last
  PROVE  RunsInv'
<1>1. ServerInv /\ Hinted /\ PageInv /\ Shaped
  BY DEF RunsInv
<1>2. ServerInv'
  BY <1>1, NothingServed
<1>3. Hinted' /\ PageInv'
  BY <1>1, PageKeeps
<1>4. Shaped'
  BY <1>1 DEF Shaped
<1> QED
  BY <1>2, <1>3, <1>4 DEF RunsInv

(* The rest of the state is as it was.                                     *)
LEMMA RestKept ==
  ASSUME RunsInv, UNCHANGED <<log, runs>>
  PROVE  /\ UNCHANGED <<cursor, stream>> => StreamInv'
         /\ UNCHANGED submit => SubmitInv'
         /\ UNCHANGED <<polls, known>> => PollsInv'
         /\ polls' = {} /\ UNCHANGED known => PollsInv'
         /\ polls' = {} /\ known' = Listable => PollsInv'
         /\ UNCHANGED polls /\ known' = Listable => PollsInv'
         /\ submit' = NoSubmit => SubmitInv'
         /\ (\E shown \in BOOLEAN : submit' = [submit EXCEPT !.shown = shown]) => SubmitInv'
<1>1. ServerInv /\ StreamInv /\ SubmitInv /\ PollsInv /\ RunsLogged
  BY DEF RunsInv, ServerInv
<1>2. ServerInv' /\ Grows
  BY <1>1, NothingServed
<1>3. /\ UNCHANGED <<cursor, stream>> => StreamInv'
      /\ UNCHANGED submit => SubmitInv'
      /\ UNCHANGED <<polls, known>> => PollsInv'
  BY <1>1, <1>2, StreamSame, SubmitGrows, PollsGrow
<1>4. polls' = {} /\ UNCHANGED known => PollsInv'
  BY <1>1, <1>2 DEF PollsInv, Grows
<1>5. \A r \in Listable : r \in Runs /\ runs'[r].kind = "job" /\ runs'[r].state # "none"
  BY DEF Listable
<1>6. polls' = {} /\ known' = Listable => PollsInv'
  BY <1>5 DEF PollsInv
<1>7. \A q \in polls : IsPoll(q)'
  BY <1>1 DEF PollsInv, IsPoll
<1>8. UNCHANGED polls /\ known' = Listable => PollsInv'
  BY <1>5, <1>7 DEF PollsInv
<1>9. submit' = NoSubmit => SubmitInv'
  BY DEF NoSubmit, SubmitInv
<1>10. (\E shown \in BOOLEAN : submit' = [submit EXCEPT !.shown = shown]) => SubmitInv'
  <2> SUFFICES ASSUME NEW shown \in BOOLEAN, submit' = [submit EXCEPT !.shown = shown]
               PROVE  SubmitInv'
    OBVIOUS
  <2>1. submit'.phase = submit.phase /\ submit'.run = submit.run /\ DOMAIN submit' = DOMAIN submit
    BY <1>1 DEF SubmitInv
  <2> QED
    BY <1>1, <2>1 DEF SubmitInv
<1> QED
  BY <1>3, <1>4, <1>6, <1>8, <1>9, <1>10

LEMMA NoStreamFacts ==
  /\ DOMAIN NoStream = {"phase", "via", "from", "ready", "suppress", "sent"}
  /\ DOMAIN NewStream = {"phase", "via", "from", "ready", "suppress", "sent"}
  /\ NoStream.phase # "open" /\ NewStream.phase # "open"
BY DEF NoStream, NewStream

LEMMA RenderStep ==
  ASSUME RunsInv, Render
  PROVE  RunsInv'
<1>1. UNCHANGED <<log, runs, submit, known, settled>> /\ polls' = {} /\ seen' = page.thread
  BY DEF Render, server, ghosts
<1>2. SubmitInv' /\ PollsInv'
  BY <1>1, RestKept
<1>3. ServerInv /\ StreamInv /\ Hinted /\ PageInv /\ IsPage(page) /\ settled \in BOOLEAN
  BY DEF RunsInv, Shaped
<1>4. /\ IsPage(page)'
      /\ page'.run.hints => page.run.hints /\ page'.run.id = page.run.id
      /\ page'.thread = page.thread /\ page'.done = page.done
  <2>1. page' = page \/ page' = [page EXCEPT !.run = NoRun]
    BY DEF Render, Stopped
  <2>2. PICK p, q : p = page /\ q = page'
    OBVIOUS
  <2>3. CASE q = p
    BY <1>3, <2>2, <2>3
  <2>4. CASE q = [p EXCEPT !.run = NoRun]
    <3>1. q.run = NoRun /\ q.thread = p.thread /\ q.done = p.done /\ IsPage(q)
      BY <1>3, <2>2, <2>4 DEF IsPage, NoRun
    <3>2. ~q.run.hints
      BY <3>1 DEF NoRun
    <3> QED
      BY <2>2, <3>1, <3>2
  <2> QED
    BY <2>1, <2>2, <2>3, <2>4
<1>5. DOMAIN seen' = {"listed", "timeline", "job", "last", "unread"}
  BY <1>1, <1>3 DEF IsPage
<1>6. stream' \in {NewStream, NoStream} \/ (stream' = stream /\ page.thread.listed)
  BY DEF Render
<1>7. cursor' = IF page.thread.listed THEN cursor ELSE 0
  BY DEF Render
<1>8. StreamInv'
  BY <1>1, <1>3, <1>6, <1>7, NoStreamFacts DEF StreamInv, ServerInv, ServerTyped
<1>9. CASE page.thread.listed
  BY <1>1, <1>2, <1>4, <1>5, <1>7, <1>8, <1>9, PageStep
<1>10. CASE ~page.thread.listed
  <2>1. cursor' = 0
    BY <1>7, <1>10
  <2>2. Hinted' /\ PageInv'
    BY <1>1, <1>3, <1>4, <1>10, <2>1 DEF Hinted, PageInv
  <2>3. ServerInv'
    BY <1>1, <1>3, NothingServed
  <2>4. Shaped'
    BY <1>1, <1>3, <1>4, <1>5 DEF Shaped
  <2> QED
    BY <1>2, <1>8, <2>2, <2>3, <2>4 DEF RunsInv
<1> QED
  BY <1>9, <1>10

-----------------------------------------------------------------------------
(* What the server says of the session.                                    *)

Corrects(p, q) ==
  /\ IsPage(q)
  /\ q.run = p.run /\ q.done = p.done /\ q.told = p.told
  /\ q.thread.listed = p.thread.listed
  /\ p.thread.listed => /\ q.thread.job = (IF Status = "running" THEN Latest ELSE 0)
                        /\ q.thread.last = Status

LEMMA StatusIs ==
  ASSUME ServerInv, Runs \subseteq Nat
  PROVE  /\ Begun = {} => Status = "idle"
         /\ Begun # {} => Status = runs[Latest].state /\ Latest \in Runs
                          /\ Status \in {"running"} \cup Ended
         /\ Status # ""
<1>1. CASE Begun = {}
  BY <1>1 DEF Status
<1>2. CASE Begun # {}
  <2>1. Latest \in Runs /\ runs[Latest].state # "none"
    BY <1>2, LatestLogged DEF Begun
  <2>2. runs[Latest] \in RunRecords
    BY <2>1 DEF ServerInv, ServerTyped
  <2>3. runs[Latest].state \in {"running"} \cup Ended
    BY <2>1, <2>2 DEF RunRecords, RunStates
  <2> QED
    BY <1>2, <2>1, <2>3 DEF Status, Ended
<1> QED
  BY <1>1, <1>2

LEMMA CorrectedPage ==
  ASSUME NEW p, IsPage(p), ServerInv, Runs \subseteq Nat
  PROVE  Corrects(p, Corrected(p))
<1> DEFINE job == IF Status = "running" THEN Latest ELSE 0
<1>1. Corrected(p) = IF p.thread.job = job /\ p.thread.last = Status THEN p
                     ELSE SetJob(p, job, Status)
  BY DEF Corrected
<1>2. Status # ""
  BY StatusIs
<1> DEFINE st == Status
<1>3. JobSet(p, SetJob(p, job, st), job, st)
  <2> HIDE DEF job, st
  <2>1. st # ""
    BY <1>2 DEF st
  <2> QED
    BY <2>1, SetJobSets
<1>4. CASE p.thread.job = job /\ p.thread.last = Status
  BY <1>1, <1>4 DEF Corrects
<1>5. CASE ~(p.thread.job = job /\ p.thread.last = Status)
  <2>1. Corrected(p) = SetJob(p, job, st)
    BY <1>1, <1>5
  <2> HIDE DEF job, st
  <2>2. JobSet(p, Corrected(p), job, st)
    BY <1>3, <2>1
  <2> QED
    BY <2>2 DEF JobSet, Corrects, job, st
<1> QED
  BY <1>4, <1>5

(* The page has what the server has: it heard all, or it starts anew.      *)
LEMMA CorrectedFollows ==
  ASSUME ServerInv, StreamInv, Runs \subseteq Nat, UNCHANGED <<log, runs, cursor>>,
         cursor = Len(log) \/ cursor = 0,
         page'.thread.job = (IF Status = "running" THEN Latest ELSE 0),
         page'.thread.last = Status
  PROVE  Follows'
<1>1. cursor \in Nat /\ log \in Seq(Events) /\ Len(log) \in Nat
  BY DEF StreamInv, ServerInv, ServerTyped
<1>2. CASE NextStarts
  BY <1>2 DEF Follows, NextStarts
<1>3. CASE ~NextStarts /\ cursor = 0
  <2>1. log = <<>>
    BY <1>3, Unheard
  <2>2. Begun = {}
    <3>1. Len(log) = 0
      BY <2>1
    <3>2. ASSUME NEW r \in Runs PROVE runs[r].state = "none"
      <4>1. ~\E k \in 1..Len(log) : log[k].run = r /\ log[k].type = "run.started"
        BY <3>1
      <4> QED
        BY <4>1 DEF ServerInv, RunsLogged
    <3> QED
      BY <3>2 DEF Begun
  <2>3. page'.thread.job = 0
    BY <2>2, StatusIs
  <2> QED
    BY <1>3, <2>1, <2>3 DEF Follows
<1>4. CASE ~NextStarts /\ cursor > 0
  <2>1. cursor = Len(log) /\ cursor \in 1..Len(log)
    BY <1>1, <1>4
  <2>2. Begun # {}
    BY <2>1, LoggedRun DEF ServerInv, LoggedRuns, Begun
  <2>3. Latest = log[cursor].run /\ Latest \in Runs /\ Status = runs[Latest].state
        /\ Status \in {"running"} \cup Ended
    BY <2>1, <2>2, LatestLogged, StatusIs
  <2>4. Status = "running" => ~EndHeard(log[cursor].run)
    <3> SUFFICES ASSUME Status = "running", NEW k \in 1..cursor, log[k].run = log[cursor].run,
                        log[k].type \in EndTypes
                 PROVE  FALSE
      BY DEF EndHeard
    <3>1. runs[Latest].state = StateOf(log[k].type)
      BY <2>1, <2>3 DEF ServerInv, LoggedRuns
    <3> QED
      BY <2>3, <3>1 DEF StateOf
  <2>5. EndHeard(log[cursor].run)' <=> EndHeard(log[cursor].run)
    BY DEF EndHeard
  <2> QED
    BY <1>4, <2>3, <2>4, <2>5 DEF Follows, Outcome, Ended
<1> QED
  BY <1>1, <1>2, <1>3, <1>4

LEMMA RefreshStep ==
  ASSUME RunsInv, Runs \subseteq Nat \ {0}, Refresh
  PROVE  RunsInv'
<1>0. Runs \subseteq Nat
  OBVIOUS
<1>1. /\ UNCHANGED <<log, runs, seen, cursor, stream, submit, polls>>
      /\ known' = Listable
      /\ page' = Corrected(page)
      /\ settled' = (settled /\ cursor = Len(log))
  BY DEF Refresh, server
<1>2. ServerInv /\ StreamInv /\ Hinted /\ PageInv /\ IsPage(page) /\ settled \in BOOLEAN
      /\ DOMAIN seen = {"listed", "timeline", "job", "last", "unread"}
  BY DEF RunsInv, Shaped
<1>3. StreamInv' /\ SubmitInv' /\ PollsInv'
  BY <1>1, RestKept
<1>4. Corrects(page, Corrected(page))
  BY <1>0, <1>2, CorrectedPage
<1>5. IsPage(page)'
  BY <1>1, <1>4 DEF Corrects, IsPage
<1>6. /\ page'.run = page.run /\ page'.done = page.done
      /\ page'.thread.listed = page.thread.listed
      /\ page.thread.listed =>
           /\ page'.thread.job = (IF Status = "running" THEN Latest ELSE 0)
           /\ page'.thread.last = Status
  BY <1>1, <1>4 DEF Corrects
<1>7. Shaped'
  BY <1>1, <1>2, <1>5 DEF Shaped
<1>8. Hinted'
  BY <1>1, <1>2, <1>6 DEF Hinted, NextStarts
<1>9. PageInv'
  <2> SUFFICES ASSUME settled', page'.thread.listed PROVE Follows' /\ DoneRuns'
    BY DEF PageInv
  <2>1. DoneRuns /\ cursor = Len(log)
    BY <1>1, <1>2, <1>6 DEF PageInv
  <2>2. Follows'
    BY <1>0, <1>1, <1>2, <1>6, <2>1, CorrectedFollows
  <2>3. ASSUME NEW r \in Runs, runs[r].state \in Ended
        PROVE  page'.thread.job # r
    <3>1. CASE Begun = {}
      BY <1>0, <1>2, <1>6, <3>1, StatusIs
    <3>2. CASE Begun # {}
      BY <1>0, <1>2, <1>6, <2>3, <3>2, StatusIs DEF Ended
    <3> QED
      BY <3>1, <3>2
  <2>4. DoneRuns'
    BY <2>1, <2>3, <1>1, <1>6 DEF DoneRuns, EndHeard
  <2> QED
    BY <2>2, <2>4
<1>10. ServerInv'
  BY <1>1, <1>2, NothingServed
<1> QED
  BY <1>3, <1>7, <1>8, <1>9, <1>10 DEF RunsInv

LEMMA ReloadStep ==
  ASSUME RunsInv, Runs \subseteq Nat \ {0}, Reload
  PROVE  RunsInv'
<1> DEFINE p == [NewPage EXCEPT !.thread = seen, !.done = page.done, !.told = page.told]
<1>0. Runs \subseteq Nat
  OBVIOUS
<1>1. /\ UNCHANGED <<log, runs, cursor>>
      /\ known' = Listable /\ polls' = {} /\ submit' = NoSubmit
      /\ page' = Corrected(p) /\ seen' = page'.thread
      /\ stream' \in {NewStream, NoStream}
      /\ settled' = (settled /\ seen = page.thread /\ cursor = Len(log))
  BY DEF Reload, server
<1>2. ServerInv /\ StreamInv /\ Hinted /\ PageInv /\ IsPage(page) /\ settled \in BOOLEAN
      /\ DOMAIN seen = {"listed", "timeline", "job", "last", "unread"}
  BY DEF RunsInv, Shaped
<1>3. SubmitInv' /\ PollsInv'
  BY <1>1, RestKept
<1>4. IsPage(p) /\ p.run = NoRun /\ p.done = page.done /\ p.thread = seen
  BY <1>2 DEF IsPage, NewPage, NoRun
<1> HIDE DEF p
<1>5. Corrects(p, Corrected(p))
  BY <1>0, <1>2, <1>4, CorrectedPage
<1>6. IsPage(page)'
  BY <1>1, <1>5 DEF Corrects, IsPage
<1>7. /\ page'.run = NoRun /\ page'.done = page.done
      /\ page'.thread.listed = seen.listed
      /\ seen.listed =>
           /\ page'.thread.job = (IF Status = "running" THEN Latest ELSE 0)
           /\ page'.thread.last = Status
  BY <1>1, <1>4, <1>5 DEF Corrects
<1>8. DOMAIN seen' = {"listed", "timeline", "job", "last", "unread"}
  BY <1>1, <1>6 DEF IsPage
<1>9. Shaped'
  BY <1>1, <1>2, <1>6, <1>8 DEF Shaped
<1>10. Hinted'
  BY <1>7 DEF Hinted, NoRun
<1>11. StreamInv'
  BY <1>1, <1>2, NoStreamFacts DEF StreamInv
<1>12. PageInv'
  <2> SUFFICES ASSUME settled', page'.thread.listed PROVE Follows' /\ DoneRuns'
    BY DEF PageInv
  <2>1. DoneRuns /\ cursor = Len(log) /\ seen.listed
    BY <1>1, <1>2, <1>7 DEF PageInv
  <2>2. Follows'
    BY <1>0, <1>1, <1>2, <1>7, <2>1, CorrectedFollows
  <2>3. ASSUME NEW r \in Runs, runs[r].state \in Ended
        PROVE  page'.thread.job # r
    <3>1. CASE Begun = {}
      BY <1>0, <1>2, <1>7, <2>1, <3>1, StatusIs
    <3>2. CASE Begun # {}
      BY <1>0, <1>2, <1>7, <2>1, <2>3, <3>2, StatusIs DEF Ended
    <3> QED
      BY <3>1, <3>2
  <2>4. DoneRuns'
    BY <2>1, <2>3, <1>1, <1>7 DEF DoneRuns, EndHeard
  <2> QED
    BY <2>2, <2>4
<1>13. ServerInv'
  BY <1>1, <1>2, NothingServed
<1> QED
  BY <1>3, <1>9, <1>10, <1>11, <1>12, <1>13 DEF RunsInv

LEMMA LoginStep ==
  ASSUME RunsInv, Runs \subseteq Nat \ {0}, Login
  PROVE  RunsInv'
<1> DEFINE p == [Stopped(page) EXCEPT !.thread = [Unlisted EXCEPT !.listed = TRUE],
                                      !.told = NewPage.told]
<1>0. Runs \subseteq Nat
  OBVIOUS
<1>1. /\ UNCHANGED <<log, runs, cursor, submit, polls>>
      /\ known' = Listable
      /\ page' = Corrected(p) /\ seen' = page'.thread
      /\ stream' = NewStream
      /\ settled' = (settled /\ cursor = 0 /\ page.done = <<>>)
  BY DEF Login, server
<1>2. ServerInv /\ StreamInv /\ Hinted /\ PageInv /\ IsPage(page) /\ settled \in BOOLEAN
  BY DEF RunsInv, Shaped
<1>3. SubmitInv' /\ PollsInv'
  BY <1>1, RestKept
<1>4. IsPage(p) /\ p.run = NoRun /\ p.done = page.done /\ p.thread.listed = TRUE
  BY <1>2 DEF IsPage, NewPage, NoRun, Unlisted, Stopped
<1> HIDE DEF p
<1>5. Corrects(p, Corrected(p))
  BY <1>0, <1>2, <1>4, CorrectedPage
<1>6. IsPage(page)'
  BY <1>1, <1>5 DEF Corrects, IsPage
<1>7. /\ page'.run = NoRun /\ page'.done = page.done
      /\ page'.thread.job = (IF Status = "running" THEN Latest ELSE 0)
      /\ page'.thread.last = Status
  BY <1>1, <1>4, <1>5 DEF Corrects
<1>8. DOMAIN seen' = {"listed", "timeline", "job", "last", "unread"}
  BY <1>1, <1>6 DEF IsPage
<1>9. Shaped'
  BY <1>1, <1>2, <1>6, <1>8 DEF Shaped
<1>10. Hinted'
  BY <1>7 DEF Hinted, NoRun
<1>11. StreamInv'
  BY <1>1, <1>2, NoStreamFacts DEF StreamInv
<1>12. PageInv'
  <2> SUFFICES ASSUME settled' PROVE Follows' /\ DoneRuns'
    BY DEF PageInv
  <2>1. cursor = 0 /\ page'.done = <<>>
    BY <1>1, <1>7
  <2>2. Follows'
    BY <1>0, <1>1, <1>2, <1>7, <2>1, CorrectedFollows
  <2>3. \A r : ~Contains(page'.done, r)
    BY <2>1 DEF Contains
  <2> QED
    BY <2>2, <2>3 DEF DoneRuns
<1>13. ServerInv'
  BY <1>1, <1>2, NothingServed
<1> QED
  BY <1>3, <1>9, <1>10, <1>11, <1>12, <1>13 DEF RunsInv

LEMMA LogoutStep ==
  ASSUME RunsInv, Logout
  PROVE  RunsInv'
<1>1. /\ UNCHANGED <<log, runs, known, seen, settled>> /\ polls' = {}
      /\ \E shown \in BOOLEAN : submit' = [submit EXCEPT !.shown = shown]
      /\ page' = NewPage /\ cursor' = 0 /\ stream' = NoStream
  BY DEF Logout, server, ghosts
<1>2. ServerInv /\ StreamInv /\ settled \in BOOLEAN
      /\ DOMAIN seen = {"listed", "timeline", "job", "last", "unread"}
  BY DEF RunsInv, Shaped
<1>3. SubmitInv' /\ PollsInv'
  BY <1>1, RestKept
<1>4. IsPage(page)' /\ ~page'.run.hints /\ ~page'.thread.listed
  BY <1>1 DEF IsPage, NewPage, NoRun, Unlisted
<1>5. Shaped' /\ Hinted' /\ PageInv'
  BY <1>1, <1>2, <1>4 DEF Shaped, Hinted, PageInv
<1>6. StreamInv'
  BY <1>1, <1>2, NoStreamFacts DEF StreamInv, ServerInv, ServerTyped
<1>7. ServerInv'
  BY <1>1, <1>2, NothingServed
<1> QED
  BY <1>3, <1>5, <1>6, <1>7 DEF RunsInv

LEMMA RelistStep ==
  ASSUME RunsInv, Runs \subseteq Nat \ {0}, Relist
  PROVE  RunsInv'
<1>0. Runs \subseteq Nat
  OBVIOUS
<1>1. /\ UNCHANGED <<log, runs, seen, cursor, stream, submit, polls, known>>
      /\ page' = [page EXCEPT !.thread = [Unlisted EXCEPT !.listed = TRUE]]
      /\ settled' = (settled /\ page.done = <<>> /\ ~seen.listed /\ cursor = 0)
  BY DEF Relist, server
<1>2. ServerInv /\ StreamInv /\ Hinted /\ IsPage(page) /\ settled \in BOOLEAN
      /\ DOMAIN seen = {"listed", "timeline", "job", "last", "unread"}
  BY DEF RunsInv, Shaped
<1>3. StreamInv' /\ SubmitInv' /\ PollsInv'
  BY <1>1, RestKept
<1>4. /\ IsPage(page)' /\ page'.run = page.run /\ page'.done = page.done
      /\ page'.thread.job = 0
  BY <1>1, <1>2 DEF IsPage, Unlisted
<1>5. Shaped'
  BY <1>1, <1>2, <1>4 DEF Shaped
<1>6. Hinted'
  BY <1>1, <1>2, <1>4 DEF Hinted, NextStarts
<1>7. PageInv'
  <2> SUFFICES ASSUME settled' PROVE Follows' /\ DoneRuns'
    BY DEF PageInv
  <2>1. cursor = 0 /\ page'.done = <<>>
    BY <1>1, <1>4
  <2>2. log = <<>> \/ NextStarts
    BY <1>0, <1>2, <2>1, Unheard
  <2>3. Follows'
    BY <1>1, <1>4, <2>1, <2>2 DEF Follows, NextStarts
  <2>4. \A r : ~Contains(page'.done, r)
    BY <2>1 DEF Contains
  <2> QED
    BY <2>3, <2>4 DEF DoneRuns
<1>8. ServerInv'
  BY <1>1, <1>2, NothingServed
<1> QED
  BY <1>3, <1>5, <1>6, <1>7, <1>8 DEF RunsInv

(* The other steps of the user touch no run.                               *)
LEMMA OtherUserStep ==
  ASSUME RunsInv, UNCHANGED <<log, runs, seen, cursor, stream, submit, polls, known, settled>>,
         SameRuns(page, page')
  PROVE  RunsInv'
<1>1. StreamInv' /\ SubmitInv' /\ PollsInv'
  BY RestKept
<1>2. IsPage(page)'
  BY DEF SameRuns, IsPage
<1>3. /\ page'.run = page.run /\ page'.done = page.done
      /\ page'.thread.listed = page.thread.listed
      /\ page'.thread.job = page.thread.job /\ page'.thread.last = page.thread.last
  BY DEF SameRuns
<1>4. DOMAIN seen' = {"listed", "timeline", "job", "last", "unread"}
  BY DEF RunsInv, Shaped
<1> QED
  BY <1>1, <1>2, <1>3, <1>4, PageStep

LEMMA UserSteps ==
  ASSUME RunsInv, Runs \subseteq Nat \ {0}, UserNext
  PROVE  RunsInv'
<1>0. IsPage(page)
  BY DEF RunsInv, Shaped
<1>1. CASE Leave
  <2>1. /\ UNCHANGED <<log, runs, seen, cursor, stream, submit, polls, known, settled>>
        /\ page' = [page EXCEPT !.thread = Unlisted]
    BY <1>1 DEF Leave, server, ghosts
  <2>2. StreamInv' /\ SubmitInv' /\ PollsInv'
    BY <2>1, RestKept
  <2>3. IsPage(page)' /\ page'.run = page.run /\ ~page'.thread.listed
    BY <1>0, <2>1 DEF IsPage, Unlisted
  <2>4. DOMAIN seen' = {"listed", "timeline", "job", "last", "unread"}
    BY <2>1 DEF RunsInv, Shaped
  <2> QED
    BY <2>1, <2>2, <2>3, <2>4, PageStep
<1>2. CASE \E where \in {"open", "ops", "other"} : Look(where)
  <2>1. PICK where \in {"open", "ops", "other"} : Look(where)
    BY <1>2
  <2>2. UNCHANGED <<log, runs, seen, cursor, stream, submit, polls, known, settled>>
    BY <2>1 DEF Look, server, ghosts
  <2>3. SameRuns(page, page')
    BY <1>0, <2>1 DEF Look, WithThread, SameRuns, IsPage
  <2> QED
    BY <2>2, <2>3, OtherUserStep
<1>3. CASE ClearAlerts
  <2>1. UNCHANGED <<log, runs, seen, cursor, stream, submit, polls, known, settled>>
    BY <1>3 DEF ClearAlerts, server, ghosts
  <2>2. SameRuns(page, page')
    BY <1>0, <1>3 DEF ClearAlerts, SameRuns, IsPage
  <2> QED
    BY <2>1, <2>2, OtherUserStep
<1>4. CASE Stop
  <2>1. UNCHANGED <<log, runs, seen, cursor, stream, submit, polls, known, settled>>
        /\ page' = AddEntry(page, "notice", NoBody)
    BY <1>4 DEF Stop, server, ghosts
  <2>2. SameRuns(page, AddEntry(page, "notice", NoBody))
    BY <1>0, AddEntrySame
  <2>3. SameRuns(page, page')
    BY <2>1, <2>2 DEF SameRuns, IsPage
  <2> QED
    BY <2>1, <2>3, OtherUserStep
<1> QED
  BY <1>1, <1>2, <1>3, <1>4, RelistStep, RefreshStep, ReloadStep, LogoutStep, LoginStep DEF UserNext

-----------------------------------------------------------------------------

(* A prompt or a review is sent, or the user is told why it is not.        *)
LEMMA SubmittedStep ==
  ASSUME RunsInv, SendPrompt \/ Regenerate \/ (\E empty \in BOOLEAN : EditAndResend(empty))
                  \/ (\E scoped \in BOOLEAN : StartReview(scoped))
  PROVE  RunsInv'
<1>0. IsPage(page)
  BY DEF RunsInv, Shaped
<1>1. \/ Tried(AddEntry(page, "notice", NoBody), submit)
      \/ Tried(AddEntry(page, "user", NoBody), Sent(FALSE))
      \/ Tried(page, Sent(TRUE))
  BY DEF SendPrompt, Regenerate, EditAndResend, StartReview, Submit, Notice
<1>2. /\ UNCHANGED <<log, runs, seen, cursor, stream, polls, known, settled>>
      /\ page' \in {page, AddEntry(page, "notice", NoBody), AddEntry(page, "user", NoBody)}
      /\ submit' \in {submit, Sent(FALSE), Sent(TRUE)}
  BY <1>1 DEF Tried, server, ghosts
<1>3. SameRuns(page, page) /\ SameRuns(page, AddEntry(page, "notice", NoBody))
      /\ SameRuns(page, AddEntry(page, "user", NoBody))
  BY <1>0, AddEntrySame DEF SameRuns
<1>4. /\ IsPage(page)'
      /\ page'.run = page.run /\ page'.done = page.done
      /\ page'.thread.listed = page.thread.listed
      /\ page'.thread.job = page.thread.job /\ page'.thread.last = page.thread.last
  BY <1>2, <1>3 DEF SameRuns, IsPage
<1>5. StreamInv' /\ PollsInv'
  BY <1>2, RestKept
<1>6. SubmitInv'
  <2>1. submit' = submit => SubmitInv'
    BY <1>2, RestKept
  <2>2. submit' \in {Sent(FALSE), Sent(TRUE)} => SubmitInv'
    BY DEF Sent, SubmitInv
  <2> QED
    BY <1>2, <2>1, <2>2
<1>7. DOMAIN seen' = {"listed", "timeline", "job", "last", "unread"}
  BY <1>2 DEF RunsInv, Shaped
<1> QED
  BY <1>2, <1>4, <1>5, <1>6, <1>7, PageStep

LEMMA AcceptStep ==
  ASSUME RunsInv, Runs \subseteq Nat \ {0}, Accept
  PROVE  RunsInv'
<1>0. Runs \subseteq Nat
  OBVIOUS
<1>1. PICK r \in Runs :
        /\ runs[r].kind = "turn"
        /\ Begin(r)
        /\ submit' = [submit EXCEPT !.phase = "answered", !.run = r]
  BY DEF Accept
<1>2. UNCHANGED <<page, seen, cursor, stream, polls, known, settled>>
  BY DEF Accept, ghosts
<1>3. ServerInv /\ StreamInv /\ Shaped /\ Hinted /\ PageInv /\ SubmitInv /\ PollsInv /\ RunsLogged
  BY DEF RunsInv, ServerInv
<1>4. ServerInv' /\ Grows
  BY <1>0, <1>1, <1>3, BeginServer
<1>5. StreamInv' /\ Shaped' /\ Hinted' /\ PageInv' /\ PollsInv'
  BY <1>0, <1>2, <1>3, <1>4, StreamSame, ShapeSame, PageGrows, PollsGrow
<1>6. runs'[r].kind = "turn" /\ runs'[r].state # "none"
  <2>1. runs'[r].kind = "turn"
    BY <1>1, <1>4 DEF Grows
  <2>2. runs'[r].state = "running"
    BY <1>1, <1>3 DEF Begin, ServerInv, ServerTyped, RunRecords
  <2> QED
    BY <2>1, <2>2
<1>7. SubmitInv'
  BY <1>1, <1>3, <1>6 DEF SubmitInv
<1> QED
  BY <1>4, <1>5, <1>7 DEF RunsInv

LEMMA RunningStep ==
  ASSUME RunsInv, Runs \subseteq Nat \ {0}, NEW r, r = submit.run, Running(r)
  PROVE  RunsInv'
<1>0. Runs \subseteq Nat
  OBVIOUS
<1>1. ServerInv /\ StreamInv /\ Hinted /\ PageInv /\ SubmitInv /\ IsPage(page)
      /\ settled \in BOOLEAN
      /\ DOMAIN seen = {"listed", "timeline", "job", "last", "unread"}
  BY DEF RunsInv, Shaped
<1>2. /\ UNCHANGED <<log, runs, seen, cursor, polls, known>>
      /\ page' = SetJob(EnsureRun(page, r), r, "running")
      /\ stream' \in {stream, NewStream}
      /\ submit' = NoSubmit
      /\ settled' = (settled /\ Timely(r) /\ auth = "ready")
  BY DEF Running, server
<1>3. r \in Runs /\ runs[r].state # "none" /\ runs[r].kind = "turn"
  BY <1>1 DEF Running, SubmitInv
<1>4. SubmitInv' /\ PollsInv'
  BY <1>2, RestKept
<1>5. StreamInv'
  BY <1>1, <1>2, NoStreamFacts DEF StreamInv
<1> DEFINE q == EnsureRun(page, r)
<1>6. Reads(page, q, r)
  BY <1>1, RunEnsured
<1>7. JobSet(q, page', r, "running")
  <2> HIDE DEF q
  <2>1. IsPage(q)
    BY <1>6 DEF Reads
  <2>2. JobSet(q, SetJob(q, r, "running"), r, "running")
    BY <2>1, SetJobSets
  <2>3. page' = SetJob(q, r, "running")
    BY <1>2 DEF q
  <2> QED
    BY <2>2, <2>3 DEF JobSet, IsPage
<1> HIDE DEF q
<1>8. IsPage(page)'
  BY <1>7 DEF JobSet, IsPage
<1>9. /\ page'.run.hints => page.run.id = r /\ page.run.hints
      /\ page'.run.id = r
      /\ page'.done = page.done
      /\ page'.thread.listed = page.thread.listed
      /\ page.thread.listed => page'.thread.job = r /\ page'.thread.last = "running"
  BY <1>6, <1>7 DEF Reads, JobSet
<1>10. Shaped'
  BY <1>1, <1>2, <1>8 DEF Shaped
<1>11. Hinted'
  BY <1>1, <1>2, <1>9 DEF Hinted, NextStarts
<1>12. PageInv'
  <2> SUFFICES ASSUME settled', page'.thread.listed PROVE Follows' /\ DoneRuns'
    BY DEF PageInv
  <2>1. DoneRuns /\ Timely(r)
    BY <1>1, <1>2, <1>9 DEF PageInv
  <2>2. ~EndHeard(r)
    BY <2>1 DEF Timely, EndHeard
  <2>3. \A k \in 1..cursor : log[k].run <= r
    BY <2>1 DEF Timely
  <2>4. \A k \in 1..Len(log) : log[k].run < r => k <= cursor
    <3>1. DOMAIN log = 1..Len(log)
      BY <1>1 DEF ServerInv, ServerTyped
    <3> QED
      BY <2>1, <3>1 DEF Timely
  <2>5. PICK j \in 1..Len(log) : log[j].run = r /\ log[j].type = "run.started"
    BY <1>1, <1>3 DEF ServerInv, RunsLogged
  <2>6. cursor \in Nat /\ cursor <= Len(log) /\ Len(log) \in Nat
    BY <1>1 DEF StreamInv, ServerInv, ServerTyped
  <2>7. ASSUME j > cursor PROVE Follows'
    <3>1. ASSUME cursor + 1 < j PROVE FALSE
      <4>1. cursor + 1 \in 1..Len(log) /\ cursor + 1 < j
        BY <2>6, <3>1
      <4>2. log[cursor + 1].run < r
        BY <1>1, <2>5, <4>1 DEF ServerInv, Ordered
      <4>3. cursor + 1 <= cursor
        BY <2>4, <4>1, <4>2
      <4> QED
        BY <2>6, <4>3
    <3>2. j = cursor + 1 /\ cursor < Len(log)
      BY <2>6, <2>7, <3>1
    <3> QED
      BY <1>2, <2>5, <3>2 DEF Follows, NextStarts
  <2>8. ASSUME j <= cursor PROVE Follows'
    <3>1. cursor \in 1..Len(log) /\ cursor > 0
      BY <2>6, <2>8
    <3>2. r <= log[cursor].run /\ log[cursor].run \in Nat
      <4>1. log[cursor].run \in Nat
        BY <1>1, <3>1, LoggedRun
      <4>2. CASE j = cursor
        BY <2>5, <4>1, <4>2
      <4>3. CASE j < cursor
        BY <1>1, <2>5, <3>1, <4>1, <4>3 DEF ServerInv, Ordered
      <4> QED
        BY <2>6, <2>8, <4>1, <4>2, <4>3
    <3>3. log[cursor].run = r
      <4>1. log[cursor].run <= r /\ r \in Nat
        <5>1. cursor \in 1..cursor
          BY <2>6, <3>1
        <5> QED
          BY <1>3, <2>3, <5>1
      <4> QED
        BY <3>2, <4>1
    <3>4. ~EndHeard(log[cursor].run)'
      BY <1>2, <2>2, <3>3 DEF EndHeard
    <3> QED
      BY <1>2, <1>9, <3>1, <3>3, <3>4 DEF Follows
  <2>9. DoneRuns'
    <3>1. ASSUME NEW x \in Runs, Contains(page.done, x) PROVE x # r
      BY <1>3, <2>1, <2>2, <3>1 DEF DoneRuns
    <3> QED
      BY <1>2, <1>9, <2>1, <3>1 DEF DoneRuns, EndHeard
  <2> QED
    BY <2>6, <2>7, <2>8, <2>9
<1>13. ServerInv'
  BY <1>1, <1>2, NothingServed
<1> QED
  BY <1>4, <1>5, <1>10, <1>11, <1>12, <1>13 DEF RunsInv

LEMMA RefusedStep ==
  ASSUME RunsInv, TurnRefused \/ ReviewRefused
  PROVE  RunsInv'
<1>1. ServerInv /\ StreamInv /\ Hinted /\ IsPage(page)
      /\ DOMAIN seen = {"listed", "timeline", "job", "last", "unread"}
  BY DEF RunsInv, Shaped
<1>2. PICK p \in {page, EndReply(page, "error", NoBody)} : NotRunning(p)
  BY DEF TurnRefused, ReviewRefused
<1>3. SameRuns(page, page) /\ SameRuns(page, EndReply(page, "error", NoBody))
  BY <1>1, EndReplySame DEF SameRuns
<1>4. SameRuns(page, p)
  BY <1>2, <1>3
<1> DEFINE a == AddEntry(p, "failed", NoBody)
<1>5. SameRuns(p, a)
  BY <1>4, AddEntrySame DEF SameRuns
<1> HIDE DEF a
<1>6. JobSet(a, SetJob(a, 0, "failed"), 0, "failed")
  BY <1>5, SetJobSets DEF SameRuns
<1>7. /\ UNCHANGED <<log, runs, seen, cursor, stream, polls, known>>
      /\ page' = SetJob(a, 0, "failed")
      /\ submit' = NoSubmit /\ settled' = FALSE
  BY <1>2 DEF NotRunning, server, a
<1>8. IsPage(page)' /\ page'.run = page.run
  BY <1>4, <1>5, <1>6, <1>7 DEF JobSet, SameRuns, IsPage
<1>9. StreamInv' /\ SubmitInv' /\ PollsInv'
  BY <1>7, RestKept
<1>10. Shaped' /\ PageInv' /\ Hinted'
  BY <1>1, <1>7, <1>8 DEF Shaped, PageInv, Hinted, NextStarts
<1>11. ServerInv'
  BY <1>1, <1>7, NothingServed
<1> QED
  BY <1>9, <1>10, <1>11 DEF RunsInv

LEMMA SubmitSteps ==
  ASSUME RunsInv, Runs \subseteq Nat \ {0}, SubmitNext
  PROVE  RunsInv'
BY SubmittedStep, AcceptStep, RunningStep, RefusedStep DEF SubmitNext, TurnAccepted, ReviewAccepted

-----------------------------------------------------------------------------

LEMMA PollStep ==
  ASSUME RunsInv, Poll
  PROVE  RunsInv'
<1>0. PICK q : q = NewPoll(Cardinality(polls), seen.job)
  OBVIOUS
<1>1. /\ UNCHANGED <<log, runs, page, seen, cursor, stream, submit, known, settled>>
      /\ seen.job \in known /\ polls' = polls \cup {q}
  BY <1>0 DEF Poll, server, ghosts
<1>2. ServerInv /\ PollsInv /\ IsPage(page)
      /\ DOMAIN seen = {"listed", "timeline", "job", "last", "unread"}
  BY DEF RunsInv, Shaped
<1>3. /\ DOMAIN q = {"n", "run", "after", "shown", "active", "phase", "ans"}
      /\ q.run = seen.job /\ q.phase = "sent"
  BY <1>0 DEF NewPoll
<1>4. \A x \in polls : IsPoll(x)'
  BY <1>1, <1>2 DEF PollsInv, IsPoll
<1>5. IsPoll(q)'
  BY <1>1, <1>2, <1>3 DEF PollsInv, IsPoll
<1>6. PollsInv'
  BY <1>1, <1>2, <1>4, <1>5 DEF PollsInv
<1>7. StreamInv' /\ SubmitInv'
  BY <1>1, RestKept
<1>8. IsPage(page)' /\ DOMAIN seen' = {"listed", "timeline", "job", "last", "unread"}
  BY <1>1, <1>2 DEF IsPage
<1> QED
  BY <1>1, <1>6, <1>7, <1>8, PageStep

LEMMA PollAnsweredStep ==
  ASSUME RunsInv, NEW ok, PollAnswered(ok)
  PROVE  RunsInv'
<1>1. PICK q \in polls :
        polls' = (polls \ {q}) \cup {[q EXCEPT !.phase = "answered", !.ans = AnswerOf(q, ok)]}
  BY DEF PollAnswered
<1>2. UNCHANGED <<log, runs, page, seen, cursor, stream, submit, known, settled>>
  BY DEF PollAnswered, server, ghosts
<1>3. ServerInv /\ PollsInv /\ IsPage(page) /\ IsPoll(q)
      /\ DOMAIN seen = {"listed", "timeline", "job", "last", "unread"}
  BY DEF RunsInv, Shaped, PollsInv
<1>a. PICK ans : ans = AnswerOf(q, ok)
  OBVIOUS
<1>b. PICK p : p = [q EXCEPT !.phase = "answered", !.ans = ans]
  OBVIOUS
<1>4. /\ ans.status = IF runs[q.run].final THEN runs[q.run].state ELSE "running"
      /\ ans.failed = (runs[q.run].final /\ ~runs[q.run].ok)
  BY <1>a DEF AnswerOf
<1>5. /\ DOMAIN p = DOMAIN q /\ p.run = q.run /\ p.phase = "answered" /\ p.ans = ans
  BY <1>3, <1>b DEF IsPoll
<1>6. ans.status # "running" => runs[q.run].final /\ ans.status = runs[q.run].state
                                /\ ans.failed = ~runs[q.run].ok
  BY <1>4
<1>7. IsPoll(p)'
  BY <1>2, <1>3, <1>5, <1>6 DEF IsPoll
<1>8. \A x \in polls : IsPoll(x)'
  BY <1>2, <1>3 DEF PollsInv, IsPoll
<1>c. polls' = (polls \ {q}) \cup {p}
  BY <1>1, <1>a, <1>b
<1>9. PollsInv'
  BY <1>2, <1>3, <1>7, <1>8, <1>c DEF PollsInv
<1>10. StreamInv' /\ SubmitInv'
  BY <1>2, RestKept
<1>11. IsPage(page)' /\ DOMAIN seen' = {"listed", "timeline", "job", "last", "unread"}
  BY <1>2, <1>3 DEF IsPage
<1> QED
  BY <1>2, <1>9, <1>10, <1>11, PageStep

(* The answer of a poll: what it says is what the server says.             *)
LEMMA PollLanded ==
  ASSUME IsPage(page), PollsInv, ServerInv, Runs \subseteq Nat, MaxDone \in Nat, PollLands
  PROVE  \E r \in Runs : \E ans : PolledTo(page, page', r, ans)
<1>1. PICK q \in polls :
        /\ q.phase = "answered"
        /\ page' = Polled(page, q.run, q.ans, q.run \notin cutoff.jobs, q.shown, q.active)
  BY DEF PollLands
<1>2. PICK r, ans, surface, shown, active, p :
        /\ r = q.run /\ ans = q.ans /\ surface = (q.run \notin cutoff.jobs)
        /\ shown = q.shown /\ active = q.active /\ p = page
  OBVIOUS
<1>3. IsPoll(q) /\ r \in Runs
  BY <1>2 DEF PollsInv, IsPoll
<1>4. Decided(ans)
  <2>1. ans.status # "running" => runs[r].final /\ ans.status = runs[r].state
    BY <1>1, <1>2, <1>3 DEF IsPoll
  <2>2. runs[r].final => runs[r].state \in Ended
    BY <1>3 DEF ServerInv, RunsLogged
  <2> QED
    BY <2>1, <2>2 DEF Decided, TerminalStatus, Ended
<1>5. PICK n : n = Polled(p, r, ans, surface, shown, active)
  OBVIOUS
<1>6. page' = n /\ IsPage(p)
  BY <1>1, <1>2, <1>5
<1>7. PolledTo(p, n, r, ans)
  BY <1>3, <1>4, <1>5, <1>6, PolledPage
<1> QED
  BY <1>2, <1>3, <1>6, <1>7

LEMMA PollLandsStep ==
  ASSUME RunsInv, Runs \subseteq Nat \ {0}, MaxDone \in Nat, PollLands
  PROVE  RunsInv'
<1>0. Runs \subseteq Nat
  OBVIOUS
<1>1. PICK q \in polls :
        /\ q.phase = "answered"
        /\ polls' = polls \ {q}
        /\ page' = Polled(page, q.run, q.ans, q.run \notin cutoff.jobs, q.shown, q.active)
        /\ known' = (IF q.ans.ok THEN Listable ELSE known)
        /\ settled' = (settled /\ q.ans.ok /\ IF page'.thread.job = 0 THEN LastHeard = q.run
                                              ELSE page'.thread.job = page.thread.job)
  BY DEF PollLands
<1>2. UNCHANGED <<log, runs, seen, cursor, stream, submit>>
  BY DEF PollLands, server
<1>3. /\ ServerInv /\ StreamInv /\ PollsInv /\ Hinted /\ PageInv /\ IsPage(page) /\ IsPoll(q)
      /\ settled \in BOOLEAN
      /\ DOMAIN seen = {"listed", "timeline", "job", "last", "unread"}
  BY DEF RunsInv, Shaped, PollsInv
<1>a. PICK r : r = q.run
  OBVIOUS
<1>b. PICK ans : ans = q.ans
  OBVIOUS
<1>c. PICK surface : surface = (q.run \notin cutoff.jobs)
  OBVIOUS
<1>d. PICK status : status = TerminalStatus(ans)
  OBVIOUS
<1>4. r \in Runs /\ r # 0
  BY <1>3, <1>a DEF IsPoll
<1>5. q.ans.status # "running" =>
        /\ runs[r].state \in Ended
        /\ status \in {Outcome(r), runs[r].state}
        /\ status # ""
        /\ runs[r].kind = "job"
  <2> SUFFICES ASSUME q.ans.status # "running"
               PROVE  /\ runs[r].state \in Ended
                      /\ status \in {Outcome(r), runs[r].state}
                      /\ status # ""
                      /\ runs[r].kind = "job"
    OBVIOUS
  <2>1. /\ runs[r].final /\ q.ans.status = runs[r].state /\ q.ans.failed = ~runs[r].ok
        /\ runs[r].kind = "job"
    BY <1>1, <1>3, <1>a DEF IsPoll
  <2>2. runs[r].state \in Ended
    BY <1>3, <1>4, <2>1 DEF ServerInv, RunsLogged
  <2>3. status = IF q.ans.status = "succeeded" /\ q.ans.failed THEN "failed" ELSE q.ans.status
    BY <1>b, <1>d DEF TerminalStatus
  <2>4. Outcome(r) = IF runs[r].state = "succeeded" /\ ~runs[r].ok THEN "failed" ELSE runs[r].state
    BY DEF Outcome
  <2> QED
    BY <2>1, <2>2, <2>3, <2>4 DEF Ended
<1>6. \/ q.ans.status # "running" /\ JobOver(page, page', r, status)
      \/ /\ IsPage(page)'
         /\ page'.run.hints => page'.run.id = page.run.id /\ page.run.hints
         /\ page'.done = page.done /\ page'.told = page.told
         /\ page'.thread.listed = page.thread.listed
         /\ q.ans.ok /\ page.thread.listed => page'.thread.job = r /\ page'.thread.last = "running"
  <2>0. PICK shown : shown = q.shown
    OBVIOUS
  <2>a. PICK active : active = q.active
    OBVIOUS
  <2>b. PICK p : p = page
    OBVIOUS
  <2>1. IsPage(p) /\ Decided(ans)
    BY <1>3, <1>5, <1>b, <1>d, <2>b DEF Decided
  <2>2. PolledTo(p, page', r, ans)
    <3>1. page' = Polled(p, r, ans, surface, shown, active)
      BY <1>1, <1>a, <1>b, <1>c, <2>0, <2>a, <2>b
    <3>2. PICK n : n = Polled(p, r, ans, surface, shown, active)
      OBVIOUS
    <3>3. PolledTo(p, n, r, ans)
      BY <1>4, <2>1, <3>2, PolledPage
    <3> QED
      BY <3>1, <3>2, <3>3
  <2> QED
    BY <2>2, <2>b, <1>b, <1>d DEF PolledTo, JobOver, IsPage
<1>7. /\ IsPage(page)'
      /\ page'.run.hints => page'.run.id = page.run.id /\ page.run.hints
  BY <1>6 DEF JobOver, IsPage
<1>8. Shaped'
  BY <1>1, <1>2, <1>3, <1>7 DEF Shaped
<1>9. Hinted'
  BY <1>2, <1>3, <1>7 DEF Hinted, NextStarts
<1>10. SubmitInv' /\ StreamInv'
  BY <1>2, RestKept
<1>11. \A x \in polls : IsPoll(x)'
  BY <1>2, <1>3 DEF PollsInv, IsPoll
<1>12. PollsInv'
  BY <1>1, <1>2, <1>3, <1>11 DEF PollsInv, Listable
<1>13. PageInv'
  <2> SUFFICES ASSUME settled', page'.thread.listed PROVE Follows' /\ DoneRuns'
    BY DEF PageInv
  <2>1. /\ settled /\ q.ans.ok
        /\ IF page'.thread.job = 0 THEN LastHeard = r ELSE page'.thread.job = page.thread.job
    BY <1>1, <1>3, <1>a
  <2>2. page.thread.listed
    BY <1>6 DEF JobOver
  <2>3. Follows /\ DoneRuns
    BY <1>3, <2>1, <2>2 DEF PageInv
  <2>4. \A x : EndHeard(x)' <=> EndHeard(x)
    BY <1>2 DEF EndHeard
  <2>5. CASE q.ans.status # "running" /\ JobOver(page, page', r, status)
    <3>1. page'.thread.job = 0 /\ page'.thread.last = status /\ page'.done = Marked(page.done, r)
      BY <2>2, <2>5 DEF JobOver
    <3>2. LastHeard = r
      BY <2>1, <3>1
    <3>3. cursor > 0 /\ log[cursor].run = r /\ cursor \in 1..cursor
      BY <1>3, <1>4, <3>2 DEF LastHeard, StreamInv
    <3>4. Follows'
      BY <1>2, <1>5, <2>5, <3>1, <3>3 DEF Follows, Outcome
    <3>5. DoneRuns'
      <4> SUFFICES ASSUME NEW x \in Runs, Contains(page'.done, x)
                   PROVE  /\ \E k \in 1..cursor' : log'[k].run = x
                          /\ runs'[x].state \in Ended
                          /\ EndHeard(x)' \/ runs'[x].kind = "job"
                          /\ page'.thread.job # x
        BY DEF DoneRuns
      <4>1. page.done \in Seq(Runs)
        BY <1>3 DEF IsPage
      <4>2. Contains(Marked(page.done, r), x)
        BY <3>1, Zenon
      <4>3. \A y : Contains(Marked(page.done, r), y) => y = r \/ Contains(page.done, y)
        BY <1>4, <4>1, MarkedIs
      <4>4. x = r \/ Contains(page.done, x)
        BY <4>2, <4>3
      <4>5. CASE x = r
        BY <1>2, <1>5, <2>5, <3>1, <3>3, <4>5
      <4>6. CASE Contains(page.done, x)
        BY <1>2, <2>3, <2>4, <3>1, <4>6 DEF DoneRuns
      <4> QED
        BY <4>4, <4>5, <4>6
    <3> QED
      BY <3>4, <3>5
  <2>6. CASE /\ page'.done = page.done
             /\ page'.thread.job = r /\ page'.thread.last = "running"
    <3>1. page.thread.job = r
      BY <1>4, <2>1, <2>6
    <3>2. Follows'
      BY <1>2, <1>4, <2>3, <2>4, <2>6, <3>1 DEF Follows, NextStarts
    <3>3. DoneRuns'
      BY <1>2, <2>3, <2>4, <2>6, <3>1 DEF DoneRuns
    <3> QED
      BY <3>2, <3>3
  <2> QED
    BY <1>6, <2>1, <2>2, <2>5, <2>6
<1>14. ServerInv'
  BY <1>2, <1>3, NothingServed
<1> QED
  BY <1>8, <1>9, <1>10, <1>12, <1>13, <1>14 DEF RunsInv


LEMMA PollSteps ==
  ASSUME RunsInv, Runs \subseteq Nat \ {0}, MaxDone \in Nat, PollNext
  PROVE  RunsInv'
BY PollStep, PollAnsweredStep, PollLandsStep DEF PollNext

LEMMA RunsInit ==
  ASSUME Init, \A s \in Scenarios : s.kinds \in [Runs -> {"turn", "job", "none"}]
  PROVE  RunsInv
<1>1. PICK s \in Scenarios :
        runs = [r \in Runs |-> [kind |-> s.kinds[r], state |-> "none", pieces |-> 0,
                                ok |-> TRUE, final |-> FALSE]]
  BY DEF Init
<1>2. /\ log = <<>> /\ Len(log) = 0 /\ cursor = 0 /\ polls = {} /\ known = {} /\ settled = TRUE
      /\ stream = NewStream /\ submit = NoSubmit
      /\ page = [NewPage EXCEPT !.thread = [Unlisted EXCEPT !.listed = TRUE]]
      /\ seen = page.thread
  BY DEF Init
<1>3. ServerTyped
  <2>1. runs \in [Runs -> RunRecords]
    BY <1>1 DEF RunRecords, RunStates
  <2> QED
    BY <1>2, <2>1 DEF ServerTyped
<1>4. Ordered /\ LoggedRuns
  BY <1>2 DEF Ordered, LoggedRuns
<1>5. RunsLogged /\ OneAtATime
  BY <1>1 DEF RunsLogged, OneAtATime, Ended
<1>6. StreamInv /\ SubmitInv /\ PollsInv
  BY <1>2 DEF StreamInv, SubmitInv, PollsInv, NewStream, NoStream, NoSubmit
<1>7. /\ IsPage(page) /\ page.done = <<>> /\ page.thread.job = 0 /\ ~page.run.hints
      /\ DOMAIN seen = {"listed", "timeline", "job", "last", "unread"}
  BY <1>2 DEF NewPage, Unlisted, NoRun, IsPage
<1>8. Shaped /\ Hinted
  BY <1>2, <1>7 DEF Shaped, Hinted
<1>9. \A r : ~Contains(page.done, r)
  BY <1>7 DEF Contains
<1>10. PageInv
  BY <1>2, <1>7, <1>9 DEF PageInv, Follows, DoneRuns
<1> QED
  BY <1>3, <1>4, <1>5, <1>6, <1>8, <1>10 DEF RunsInv, ServerInv

LEMMA RunsStep ==
  ASSUME RunsInv, Runs \subseteq Nat \ {0}, MaxDone \in Nat, [Next]_vars
  PROVE  RunsInv'
<1>1. CASE Next
  BY <1>1, ServerSteps, StreamSteps, RenderStep, UserSteps, SubmitSteps, PollSteps DEF Next
<1>2. CASE UNCHANGED vars
  <2>1. ServerInv /\ Runs \subseteq Nat
    BY DEF RunsInv
  <2>2. UNCHANGED <<log, runs, page, seen, cursor, stream, submit, polls, known, settled>>
    BY <1>2 DEF vars
  <2> QED
    BY <2>1, <2>2, NothingServed, ServedStep
<1> QED
  BY <1>1, <1>2

(* A page that has heard every event has the run of the last one, and no   *)
(* run follows.                                                            *)
LEMMA SettledWhenHeard ==
  ASSUME RunsInv, Runs \subseteq Nat \ {0}
  PROVE  StatusSettles
<1> SUFFICES ASSUME CaughtUp, settled, page.thread.listed
             PROVE  /\ page.thread.job = (IF Status = "running" THEN Latest ELSE 0)
                    /\ Begun # {} => page.thread.last \in {Outcome(Latest), Status}
  BY DEF StatusSettles
<1>1. ServerInv /\ StreamInv /\ Follows /\ Runs \subseteq Nat
  BY DEF RunsInv, PageInv
<1>2. cursor = Len(log) /\ cursor \in Nat
  BY <1>1 DEF CaughtUp, StreamInv
<1>3. ~NextStarts
  BY <1>2 DEF NextStarts
<1>4. CASE Begun = {}
  <2>1. log = <<>> /\ cursor = 0 /\ Status = "idle"
    BY <1>1, <1>2, <1>4, LatestLogged, StatusIs
  <2> QED
    BY <1>1, <1>3, <1>4, <2>1 DEF Follows
<1>5. CASE Begun # {}
  <2>1. /\ cursor > 0 /\ Latest = log[cursor].run /\ Latest \in Runs
        /\ runs[Latest].state # "none" /\ Status = runs[Latest].state
        /\ Status \in {"running"} \cup Ended
    BY <1>1, <1>2, <1>5, LatestLogged, StatusIs DEF Begun
  <2>2. CASE page.thread.job = Latest /\ page.thread.last = "running" /\ ~EndHeard(Latest)
    <3>1. runs[Latest].state \notin Ended
      <4>1. runs[Latest].state \in Ended
              => \E k \in 1..Len(log) : log[k].run = Latest /\ log[k].type \in EndTypes
        BY <1>1, <2>1 DEF ServerInv, RunsLogged
      <4> QED
        BY <1>2, <2>2, <4>1 DEF EndHeard
    <3>2. Status = "running"
      BY <2>1, <3>1
    <3> QED
      BY <2>2, <3>2
  <2>3. CASE /\ page.thread.job = 0 /\ runs[Latest].state \in Ended
             /\ page.thread.last \in {Outcome(Latest), runs[Latest].state}
    <3>1. Status # "running"
      BY <2>1, <2>3 DEF Ended
    <3> QED
      BY <2>1, <2>3, <3>1
  <2> QED
    BY <1>1, <1>3, <2>1, <2>2, <2>3 DEF Follows
<1> QED
  BY <1>4, <1>5

(* When the stream has caught up, the session runs what the server runs,   *)
(* and has the status of its last run, for every number of runs, of events *)
(* and of operations of the user: StatusSettles of WebRuns.                *)
THEOREM StatusIsSettled ==
  ASSUME Runs \subseteq Nat \ {0}, MaxDone \in Nat,
         \A s \in Scenarios : s.kinds \in [Runs -> {"turn", "job", "none"}]
  PROVE  Spec => []StatusSettles
<1>1. Init => RunsInv
  BY RunsInit
<1>2. RunsInv /\ [Next]_vars => RunsInv'
  BY RunsStep
<1>3. RunsInv => StatusSettles
  BY SettledWhenHeard
<1> QED
  BY <1>1, <1>2, <1>3, PTL DEF Spec

-----------------------------------------------------------------------------
(* Who was told of what.  The user is told of a run only when it is made   *)
(* done, and a run that is done stays so as long as the page remembers as  *)
(* many runs as there are.                                                 *)

SameDone(p, q) == q.done = p.done /\ q.told = p.told

(* At most one run was made done, and the user was told of no other.       *)
TellsOne(p, q) ==
  \/ SameDone(p, q)
  \/ \E r \in Runs :
       /\ q.done = Marked(p.done, r)
       /\ \/ q.told = p.told
          \/ ~Contains(p.done, r) /\ q.told = [p.told EXCEPT ![r] = @ + 1]

NoTwice(s) == \A i, j \in 1..Len(s) : s[i] = s[j] => i = j

ToldPage(p) ==
  /\ NoTwice(p.done)
  /\ \A r \in Runs : p.told[r] <= 1 /\ (p.told[r] # 0 => Contains(p.done, r))

ToldInv == RunsInv /\ ToldPage(page)

(* A sequence without repetition is no longer than the set has elements.   *)
LEMMA NoLonger ==
  ASSUME NEW S, IsFiniteSet(S), NEW s \in Seq(S), NoTwice(s)
  PROVE  Len(s) <= Cardinality(S)
<1>1. Len(s) \in Nat
  OBVIOUS
<1> DEFINE f == [i \in 1..Len(s) |-> s[i]]
<1>2. f \in Injection(1..Len(s), S)
  BY DEF NoTwice, Injection, IsInjective
<1>3. PICK D : D = 1..Len(s)
  OBVIOUS
<1>4. PICK g : g \in Injection(D, S)
  BY <1>2, <1>3
<1>5. Cardinality(D) <= Cardinality(S)
  BY ONLY <1>4, IsFiniteSet(S), FS_Injection
<1>6. Cardinality(D) = Len(s)
  BY <1>1, <1>3, FS_Interval
<1> QED
  BY <1>5, <1>6

(* Nothing is forgotten when one more run is done.                         *)
LEMMA MarkedAdds ==
  ASSUME NEW s \in Seq(Runs), NoTwice(s), NEW r \in Runs, ~Contains(s, r),
         IsFiniteSet(Runs), Cardinality(Runs) <= MaxDone, MaxDone \in Nat
  PROVE  /\ NoTwice(Marked(s, r))
         /\ \A x : Contains(Marked(s, r), x) <=> x = r \/ Contains(s, x)
<1> DEFINE a == Append(s, r)
<1>1. /\ a \in Seq(Runs) /\ Len(a) = Len(s) + 1 /\ Len(s) \in Nat
      /\ a[Len(s) + 1] = r
      /\ \A k \in 1..Len(s) : a[k] = s[k]
      /\ \A k \in 1..Len(a) : k \in 1..Len(s) \/ k = Len(s) + 1
  OBVIOUS
<1> HIDE DEF a
<1>2. NoTwice(a)
  BY <1>1 DEF NoTwice, Contains
<1>3. Len(a) <= MaxDone
  <2>1. Len(a) <= Cardinality(Runs)
    BY <1>1, <1>2, NoLonger
  <2>2. Cardinality(Runs) \in Nat
    BY FS_CardinalityType
  <2> QED
    BY <1>1, <2>1, <2>2
<1>4. Marked(s, r) = a
  <2>1. Newest(a, MaxDone) = a
    BY <1>1, <1>3, NewestOf
  <2> QED
    BY <2>1 DEF Marked, a
<1>5. \A x : Contains(a, x) <=> x = r \/ Contains(s, x)
  BY <1>1 DEF Contains
<1> QED
  BY <1>2, <1>4, <1>5

LEMMA ToldKept ==
  ASSUME NEW p, NEW q, IsPage(p), ToldPage(p), TellsOne(p, q),
         IsFiniteSet(Runs), Cardinality(Runs) <= MaxDone, MaxDone \in Nat
  PROVE  ToldPage(q)
<1>1. CASE SameDone(p, q)
  BY <1>1 DEF SameDone, ToldPage
<1>2. ASSUME NEW r \in Runs, q.done = Marked(p.done, r),
             \/ q.told = p.told
             \/ ~Contains(p.done, r) /\ q.told = [p.told EXCEPT ![r] = @ + 1]
      PROVE  ToldPage(q)
  <2>1. p.done \in Seq(Runs) /\ p.told \in [Runs -> Nat] /\ NoTwice(p.done)
        /\ \A x \in Runs : p.told[x] <= 1 /\ (p.told[x] # 0 => Contains(p.done, x))
    BY DEF IsPage, ToldPage
  <2>2. CASE Contains(p.done, r)
    <3>1. q.done = p.done /\ q.told = p.told
      BY <1>2, <2>2 DEF Marked
    <3> QED
      BY <2>1, <3>1 DEF ToldPage
  <2>3. CASE ~Contains(p.done, r)
    <3>1. NoTwice(q.done) /\ \A x : Contains(q.done, x) <=> x = r \/ Contains(p.done, x)
      BY <1>2, <2>1, <2>3, MarkedAdds
    <3>2. p.told[r] = 0
      BY <2>1, <2>3
    <3>3. \A x \in Runs : q.told[x] = p.told[x] \/ (x = r /\ q.told[x] = 1)
      BY <1>2, <2>1, <3>2
    <3> QED
      BY <2>1, <3>1, <3>3 DEF ToldPage
  <2> QED
    BY <2>2, <2>3
<1> QED
  BY <1>1, <1>2 DEF TellsOne

LEMMA OverTells ==
  ASSUME NEW p, NEW q, NEW r \in Runs, NEW status, Over(p, q, r, status)
  PROVE  TellsOne(p, q)
BY DEF Over, TellsOne

LEMMA ReadsTells ==
  ASSUME NEW p, NEW q, NEW r, Reads(p, q, r)
  PROVE  TellsOne(p, q)
BY DEF Reads, TellsOne, SameDone

LEMMA EventTells ==
  ASSUME NEW p, IsPage(p), NEW e, e.run \in Runs, e.type \in EventTypes,
         NEW surface, NEW active, MaxDone \in Nat
  PROVE  TellsOne(p, HandleSessionEvent(p, e, surface, active))
<1>1. CASE e.type = "run.started"
  <2>1. SameDone(p, RunStarted(p, e))
    BY StartedPage DEF SameDone
  <2> QED
    BY <1>1, <2>1 DEF HandleSessionEvent, TellsOne
<1>2. CASE e.type = "assistant.delta"
  BY <1>2, DeltaPage, ReadsTells DEF HandleSessionEvent
<1>3. CASE e.type = "assistant.completed"
  BY <1>3, CompletedReplyPage, ReadsTells DEF HandleSessionEvent
<1>4. CASE e.type = "target.done"
  <2>1. SameDone(p, TargetDone(p, e))
    BY TargetDonePage DEF SameDone
  <2> QED
    BY <1>4, <2>1 DEF HandleSessionEvent, TellsOne
<1>5. CASE e.type = "run.failed"
  <2>1. TellsOne(p, RunBroken(p, e, "failed", surface, active))
    BY BrokenPage, OverTells
  <2> QED
    BY <1>5, <2>1 DEF HandleSessionEvent
<1>6. CASE e.type = "run.canceled"
  <2>1. TellsOne(p, RunBroken(p, e, "canceled", surface, active))
    BY BrokenPage, OverTells
  <2> QED
    BY <1>6, <2>1 DEF HandleSessionEvent
<1>7. CASE e.type = "run.completed"
  <2> DEFINE q == RunCompleted(p, e, surface, active)
             status == IF p.run.hints THEN "failed" ELSE "succeeded"
  <2>1. IF Contains(p.done, e.run) THEN q = p ELSE Over(p, q, e.run, status)
    BY CompletedPage
  <2>2. HandleSessionEvent(p, e, surface, active) = q
    BY <1>7 DEF HandleSessionEvent
  <2> HIDE DEF q, status
  <2>3. CASE q = p
    BY <2>2, <2>3 DEF TellsOne, SameDone
  <2>4. CASE Over(p, q, e.run, status)
    BY <2>2, <2>4, OverTells
  <2> QED
    BY <2>1, <2>3, <2>4
<1> QED
  BY <1>1, <1>2, <1>3, <1>4, <1>5, <1>6, <1>7 DEF EventTypes, EndTypes

(* Every step but the end of a login tells of one run at most.             *)
LEMMA StepTells ==
  ASSUME RunsInv, Runs \subseteq Nat \ {0}, MaxDone \in Nat, [Next]_vars,
         NEW p, p = page, NEW q, q = page'
  PROVE  TellsOne(p, q) \/ (q.told = NewPage.told /\ q.done \in {p.done, <<>>})
<1>0. IsPage(page) /\ ServerInv /\ PollsInv /\ Runs \subseteq Nat
  BY DEF RunsInv, Shaped
<1>s. q.done = p.done /\ q.told = p.told => TellsOne(p, q)
  BY DEF TellsOne, SameDone
<1>1. CASE ServerNext
  <2>1. page' = page
    BY <1>1 DEF ServerNext, Start, Emit, End, Settle, Recover
  <2> QED
    BY <2>1, <1>s
<1>2. CASE StreamNext
  <2>1. CASE Deliver
    <3>1. CASE page' = page
      BY <3>1, <1>s
    <3>2. CASE page' # page
      <4>1. PICK k, surface, active :
              /\ k \in 1..Len(log)
              /\ q = HandleSessionEvent(p, log[k], surface, active)
        <5>1. stream.phase = "open" /\ stream.sent < Len(log)
          BY <2>1 DEF Deliver
        <5>2. stream.sent + 1 \in 1..Len(log)
          BY <1>0, <5>1 DEF RunsInv, StreamInv, ServerInv, ServerTyped
        <5>3. page' = HandleSessionEvent(page, log[stream.sent + 1],
                        (stream.ready \/ ~stream.suppress) /\ AfterCutoff(stream.sent + 1), Active)
          BY <2>1, <3>2 DEF Deliver
        <5> QED
          BY <5>2, <5>3
      <4>2. PICK e : e = log[k]
        OBVIOUS
      <4>3. e \in Events
        BY <1>0, <4>1, <4>2 DEF ServerInv, ServerTyped
      <4>4. e.run \in Runs /\ e.type \in EventTypes
        BY <4>3 DEF Events
      <4>6. IsPage(p)
        BY <1>0
      <4>7. TellsOne(p, HandleSessionEvent(p, e, surface, active))
        BY <4>4, <4>6, EventTells
      <4> QED
        BY <4>1, <4>2, <4>7, Zenon
    <3> QED
      BY <3>1, <3>2
  <2>2. CASE page' = page
    BY <2>2, <1>s
  <2> QED
    BY <1>2, <2>1, <2>2 DEF StreamNext, OpenSocket, OpenEvents, Connect, FallBack, Ready, Close, Reset,
                            Idle, Reconnect
<1>3. CASE Render
  <2>1. page' = page \/ page' = [page EXCEPT !.run = NoRun]
    BY <1>3 DEF Render, Stopped
  <2> QED
    BY <1>0, <2>1, <1>s DEF IsPage
<1>4. CASE UserNext
  <2>1. CASE Leave \/ Relist \/ ClearAlerts
    <3>1. page'.done = page.done /\ page'.told = page.told
      BY <1>0, <2>1 DEF Leave, Relist, ClearAlerts, IsPage
    <3> QED
      BY <3>1, <1>s
  <2>2. CASE \E where \in {"open", "ops", "other"} : Look(where)
    <3>1. page'.done = page.done /\ page'.told = page.told
      BY <1>0, <2>2 DEF Look, WithThread, IsPage
    <3> QED
      BY <3>1, <1>s
  <2>3. CASE Refresh
    <3>1. page' = Corrected(page)
      BY <2>3 DEF Refresh
    <3>2. Corrects(page, Corrected(page))
      BY <1>0, CorrectedPage
    <3> QED
      BY <3>1, <3>2, <1>s DEF Corrects
  <2>4. CASE Reload
    <3> DEFINE o == [NewPage EXCEPT !.thread = seen, !.done = page.done, !.told = page.told]
    <3>1. page' = Corrected(o)
      BY <2>4 DEF Reload
    <3>2. IsPage(o) /\ o.done = page.done /\ o.told = page.told
      <4>1. DOMAIN seen = {"listed", "timeline", "job", "last", "unread"}
        BY DEF RunsInv, Shaped
      <4> QED
        BY <1>0, <4>1 DEF IsPage, NewPage, NoRun
    <3> HIDE DEF o
    <3>3. Corrects(o, Corrected(o))
      BY <1>0, <3>2, CorrectedPage
    <3>4. page'.done = page.done /\ page'.told = page.told
      BY <3>1, <3>2, <3>3 DEF Corrects
    <3> QED
      BY <3>4, <1>s
  <2>5. CASE Logout
    BY <2>5 DEF Logout, NewPage
  <2>6. CASE Login
    <3> DEFINE o == [Stopped(page) EXCEPT !.thread = [Unlisted EXCEPT !.listed = TRUE],
                                          !.told = NewPage.told]
    <3>1. page' = Corrected(o)
      BY <2>6 DEF Login
    <3>2. IsPage(o) /\ o.done = page.done /\ o.told = NewPage.told
      BY <1>0 DEF IsPage, NewPage, NoRun, Unlisted, Stopped
    <3> HIDE DEF o
    <3>3. Corrects(o, Corrected(o))
      BY <1>0, <3>2, CorrectedPage
    <3>4. page'.done = page.done /\ page'.told = NewPage.told
      BY <3>1, <3>2, <3>3 DEF Corrects
    <3> QED
      BY <3>4
  <2>7. CASE Stop
    <3>1. page' = AddEntry(page, "notice", NoBody)
      BY <2>7 DEF Stop
    <3>2. SameRuns(page, AddEntry(page, "notice", NoBody))
      BY <1>0, AddEntrySame
    <3> QED
      BY <3>1, <3>2, <1>s DEF SameRuns
  <2> QED
    BY <1>4, <2>1, <2>2, <2>3, <2>4, <2>5, <2>6, <2>7 DEF UserNext
<1>5. CASE SubmitNext
  <2>1. CASE page' = page
    BY <2>1, <1>s
  <2>2. ASSUME NEW kind, q = AddEntry(p, kind, NoBody) PROVE TellsOne(p, q)
    <3>1. SameRuns(p, AddEntry(p, kind, NoBody))
      BY <1>0, AddEntrySame
    <3> QED
      BY <2>2, <3>1, <1>s DEF SameRuns
  <2>3. CASE SendPrompt \/ Regenerate \/ (\E empty \in BOOLEAN : EditAndResend(empty))
             \/ (\E scoped \in BOOLEAN : StartReview(scoped)) \/ Accept
    <3>1. page' = page \/ (\E kind : q = AddEntry(p, kind, NoBody))
      BY <2>3 DEF SendPrompt, Regenerate, EditAndResend, StartReview, Accept, Submit, Notice, Tried
    <3> QED
      BY <2>1, <2>2, <3>1
  <2>4. CASE TurnAccepted \/ ReviewAccepted
    <3>1. PICK r : page' = SetJob(EnsureRun(page, r), r, "running")
      BY <2>4 DEF TurnAccepted, ReviewAccepted, Running
    <3> DEFINE m == EnsureRun(page, r)
    <3>2. Reads(page, m, r)
      BY <1>0, RunEnsured
    <3>3. JobSet(m, SetJob(m, r, "running"), r, "running")
      <4> HIDE DEF m
      <4> QED BY <3>2, SetJobSets DEF Reads
    <3> QED
      BY <3>1, <3>2, <3>3, <1>s DEF Reads, JobSet
  <2>5. CASE TurnRefused \/ ReviewRefused
    <3>1. PICK o \in {page, EndReply(page, "error", NoBody)} :
            page' = SetJob(AddEntry(o, "failed", NoBody), 0, "failed")
      BY <2>5 DEF TurnRefused, ReviewRefused, NotRunning
    <3>2. SameRuns(page, page) /\ SameRuns(page, EndReply(page, "error", NoBody))
      BY <1>0, EndReplySame DEF SameRuns
    <3>3. SameRuns(page, o)
      BY <3>1, <3>2
    <3> DEFINE a == AddEntry(o, "failed", NoBody)
    <3>4. SameRuns(o, a)
      BY <3>3, AddEntrySame DEF SameRuns
    <3> HIDE DEF a
    <3>5. JobSet(a, SetJob(a, 0, "failed"), 0, "failed")
      BY <3>4, SetJobSets DEF SameRuns
    <3> QED
      BY <3>1, <3>3, <3>4, <3>5, <1>s DEF SameRuns, JobSet, a
  <2> QED
    BY <1>5, <2>3, <2>4, <2>5 DEF SubmitNext
<1>6. CASE PollNext
  <2>1. CASE Poll \/ (\E ok \in BOOLEAN : PollAnswered(ok))
    <3>1. page' = page
      BY <2>1 DEF Poll, PollAnswered
    <3> QED
      BY <3>1, <1>s
  <2>2. CASE PollLands
    <3>1. PICK r \in Runs : \E ans : PolledTo(p, q, r, ans)
      BY <1>0, <2>2, PollLanded
    <3>2. (q.done = p.done /\ q.told = p.told) \/ (\E status : JobOver(p, q, r, status))
      BY <3>1 DEF PolledTo
    <3>3. ASSUME NEW status, JobOver(p, q, r, status) PROVE TellsOne(p, q)
      BY <3>3 DEF JobOver, TellsOne
    <3> QED
      BY <3>2, <3>3, <1>s
  <2> QED
    BY <1>6, <2>1, <2>2 DEF PollNext
<1>7. CASE UNCHANGED vars
  <2>1. page' = page
    BY <1>7 DEF vars
  <2> QED
    BY <2>1, <1>s
<1> QED
  BY <1>1, <1>2, <1>3, <1>4, <1>5, <1>6, <1>7 DEF Next

(* As long as the page remembers as many runs as there are, nobody is told *)
(* of the end of a run twice between a login and a logout, for every       *)
(* number of runs, of events, of reloads and of polls: ToldOnce of WebRuns.*)
THEOREM EndsToldOnce ==
  ASSUME Runs \subseteq Nat \ {0}, MaxDone \in Nat,
         IsFiniteSet(Runs), Cardinality(Runs) <= MaxDone,
         \A s \in Scenarios : s.kinds \in [Runs -> {"turn", "job", "none"}]
  PROVE  Spec => []ToldOnce
<1>1. Init => ToldInv
  <2> SUFFICES ASSUME Init PROVE ToldInv
    OBVIOUS
  <2>1. RunsInv
    BY RunsInit
  <2>2. page.done = <<>> /\ page.told = [r \in Runs |-> 0]
    BY DEF Init, NewPage
  <2> QED
    BY <2>1, <2>2 DEF ToldInv, ToldPage, NoTwice
<1>2. ToldInv /\ [Next]_vars => ToldInv'
  <2> SUFFICES ASSUME ToldInv, [Next]_vars PROVE ToldInv'
    OBVIOUS
  <2>1. RunsInv /\ RunsInv' /\ IsPage(page) /\ ToldPage(page)
    BY RunsStep DEF ToldInv, RunsInv, Shaped
  <2>a. PICK p : p = page
    OBVIOUS
  <2>b. PICK q : q = page'
    OBVIOUS
  <2>2. CASE TellsOne(p, q)
    <3>3. IsPage(p) /\ ToldPage(p)
      BY <2>1, <2>a
    <3>4. ToldPage(q)
      BY <2>2, <3>3, ToldKept
    <3>5. ToldPage(page)'
      BY <2>b, <3>4 DEF ToldPage
    <3> QED
      BY <2>1, <3>5 DEF ToldInv
  <2>3. CASE q.told = NewPage.told /\ q.done \in {p.done, <<>>}
    <3>1. NoTwice(page.done) /\ NoTwice(<<>>)
      BY <2>1 DEF ToldPage, NoTwice
    <3>2. \A r \in Runs : NewPage.told[r] = 0
      BY DEF NewPage
    <3>3. ToldPage(page)'
      <4>1. NoTwice(q.done) /\ \A r \in Runs : q.told[r] = 0
        BY <2>a, <2>3, <3>1, <3>2
      <4>2. ToldPage(q)
        BY <4>1 DEF ToldPage
      <4> QED
        BY <2>b, <4>2 DEF ToldPage
    <3> QED
      BY <2>1, <3>3 DEF ToldInv
  <2> QED
    BY <2>1, <2>a, <2>b, <2>2, <2>3, StepTells
<1>3. ToldInv => ToldOnce
  BY DEF ToldInv, ToldPage, ToldOnce
<1> QED
  BY <1>1, <1>2, <1>3, PTL DEF Spec

-----------------------------------------------------------------------------
(* The timeline.  Each reply in it is of a run; now is the run whose reply *)
(* is being written, text what has been heard of each run.                 *)

EntryStates == {"none", "running", "success", "error"}

Entries == [id : Nat, kind : {"user", "assistant", "notice", "failed"}, state : EntryStates,
            body : Seq(Nat \X Nat)]

ShownAs(t, of, text, now) ==
  /\ t \in Seq(Entries)
  /\ of \in [Replies(t) -> Runs]
  /\ \A i, j \in Replies(t) : i < j => of[i] < of[j]
  /\ \A r \in Runs : text[r] # <<>> => \E i \in Replies(t) : of[i] = r
  /\ \A i \in Replies(t) :
       /\ text[of[i]] # <<>> /\ t[i].body = text[of[i]]
       /\ t[i].state = "running" <=> of[i] = now

ShowsText(t, text, now) == \E of : ShownAs(t, of, text, now)

(* The reply that is being written is found, and no other.                 *)
LEMMA RunningFound ==
  ASSUME Runs \subseteq Nat, NEW t, NEW of, NEW text, NEW now, ShownAs(t, of, text, now)
  PROVE  /\ (\A i \in Replies(t) : of[i] # now) => RunningReply(t) = 0
         /\ \A i \in Replies(t) : of[i] = now => RunningReply(t) = i
<1> DEFINE I == {i \in 1..Len(t) : t[i].kind = "assistant" /\ t[i].state = "running"}
<1>1. RunningReply(t) = IF I # {} THEN Max(I) ELSE 0
  BY DEF RunningReply, SelectLastInSeq
<1>2. Replies(t) \subseteq 1..Len(t) /\ Len(t) \in Nat
  BY DEF ShownAs, Replies
<1>3. \A i \in I : i \in Replies(t) /\ of[i] = now
  BY DEF ShownAs, Replies
<1>4. \A i \in Replies(t) : of[i] = now => i \in I
  BY DEF ShownAs, Replies
<1>5. ASSUME NEW i \in Replies(t), of[i] = now PROVE I = {i}
  <2>1. ASSUME NEW j \in I PROVE j = i
    <3>1. j \in Replies(t) /\ of[j] = now
      BY <1>3
    <3>2. ~(i < j) /\ ~(j < i)
      <4>1. of[i] \in Nat
        BY DEF ShownAs
      <4> QED
        BY <1>5, <3>1, <4>1 DEF ShownAs
    <3> QED
      BY <1>2, <3>1, <3>2
  <2> QED
    BY <1>4, <1>5, <2>1
<1>6. ASSUME NEW i \in Nat PROVE Max({i}) = i
  BY DEF Max
<1> HIDE DEF I
<1>7. (\A i \in Replies(t) : of[i] # now) => RunningReply(t) = 0
  BY <1>1, <1>3
<1>8. ASSUME NEW i \in Replies(t), of[i] = now PROVE RunningReply(t) = i
  <2>1. I = {i} /\ i \in Nat
    BY <1>2, <1>5, <1>8
  <2> QED
    BY <2>1, <1>1, <1>6
<1> QED
  BY <1>7, <1>8

(* An entry that is no reply changes nothing.                              *)
LEMMA OtherShown ==
  ASSUME NEW t, NEW of, NEW text, NEW now, ShownAs(t, of, text, now),
         NEW e \in Entries, e.kind # "assistant"
  PROVE  ShownAs(Append(t, e), of, text, now)
<1>1. /\ Append(t, e) \in Seq(Entries) /\ Len(t) \in Nat
      /\ DOMAIN Append(t, e) = 1..(Len(t) + 1) /\ DOMAIN t = 1..Len(t)
      /\ \A i \in 1..Len(t) : Append(t, e)[i] = t[i]
      /\ Append(t, e)[Len(t) + 1] = e
      /\ \A i : i \in 1..(Len(t) + 1) <=> i \in 1..Len(t) \/ i = Len(t) + 1
  BY DEF ShownAs
<1>2. Replies(Append(t, e)) = Replies(t)
  BY <1>1 DEF Replies
<1>3. \A i \in Replies(t) : Append(t, e)[i] = t[i]
  BY <1>1 DEF Replies
<1> QED
  BY <1>1, <1>2, <1>3 DEF ShownAs

(* A first text of a run after those before.                               *)
LEMMA ReplyAppended ==
  ASSUME Runs \subseteq Nat, NEW t, NEW text, NEW now, NEW next, NEW r \in Runs,
         NEW of, ShownAs(t, of, text, now),
         NEW e \in Entries, e.kind = "assistant", e.body # <<>>,
         text \in [Runs -> Seq(Nat \X Nat)], text[r] = <<>>,
         e.state = "running" <=> next = r,
         \A q \in Runs : text[q] # <<>> => q < r /\ (q = now <=> q = next)
  PROVE  ShowsText(Append(t, e), [text EXCEPT ![r] = e.body], next)
<1> DEFINE n == Len(t) + 1
           s == Append(t, e)
           to == [i \in Replies(s) |-> IF i = n THEN r ELSE of[i]]
           more == [text EXCEPT ![r] = e.body]
<1>1. /\ s \in Seq(Entries) /\ Len(t) \in Nat /\ n \in Nat
      /\ DOMAIN s = 1..n /\ DOMAIN t = 1..Len(t)
      /\ \A i \in 1..Len(t) : s[i] = t[i] /\ i < n /\ i \in Nat
      /\ s[n] = e
      /\ \A i : i \in 1..n <=> i \in 1..Len(t) \/ i = n
  BY DEF ShownAs
<1>2. /\ \A i : i \in Replies(s) <=> i \in Replies(t) \/ i = n
      /\ \A i \in Replies(t) : s[i] = t[i] /\ i < n /\ i # n /\ i \in Nat
  BY <1>1 DEF Replies
<1>3. /\ of \in [Replies(t) -> Runs]
      /\ \A i \in Replies(t) : /\ of[i] \in Runs /\ text[of[i]] # <<>> /\ of[i] < r
                               /\ of[i] \in Nat /\ of[i] # r
                               /\ t[i].body = text[of[i]]
                               /\ t[i].state = "running" <=> of[i] = next
  BY DEF ShownAs
<1>4. /\ \A q \in Runs : q # r => more[q] = text[q]
      /\ more[r] = e.body
  OBVIOUS
<1> HIDE DEF s, n, more
<1>5. to \in [Replies(s) -> Runs] /\ to[n] = r /\ \A i \in Replies(t) : to[i] = of[i]
  BY <1>2, <1>3
<1> HIDE DEF to
<1>6. ASSUME NEW i \in Replies(s), NEW j \in Replies(s), i < j PROVE to[i] < to[j]
  <2>1. i \in Replies(t)
    BY <1>2, <1>6, <1>1
  <2>2. CASE j = n
    BY <2>1, <2>2, <1>3, <1>5
  <2>3. CASE j \in Replies(t)
    BY <2>1, <2>3, <1>5, <1>6 DEF ShownAs
  <2> QED
    BY <1>2, <2>2, <2>3
<1>7. ASSUME NEW q \in Runs, more[q] # <<>> PROVE \E i \in Replies(s) : to[i] = q
  <2>1. CASE q = r
    BY <2>1, <1>2, <1>5
  <2>2. CASE q # r
    <3>1. PICK i \in Replies(t) : of[i] = q
      BY <2>2, <1>4, <1>7 DEF ShownAs
    <3> QED
      BY <3>1, <1>2, <1>5
  <2> QED
    BY <2>1, <2>2
<1>8. ASSUME NEW i \in Replies(s)
      PROVE  /\ more[to[i]] # <<>> /\ s[i].body = more[to[i]]
             /\ s[i].state = "running" <=> to[i] = next
  <2>1. CASE i = n
    BY <2>1, <1>1, <1>4, <1>5
  <2>2. CASE i \in Replies(t)
    <3>1. to[i] = of[i] /\ of[i] \in Runs /\ of[i] # r /\ s[i] = t[i]
      BY <2>2, <1>2, <1>3, <1>5
    <3>2. more[of[i]] = text[of[i]]
      BY <3>1, <1>4
    <3>3. text[of[i]] # <<>> /\ t[i].body = text[of[i]]
      BY <2>2, <1>3
    <3>4. t[i].state = "running" <=> of[i] = next
      BY <2>2, <1>3
    <3> QED
      BY <3>1, <3>2, <3>3, <3>4
  <2> QED
    BY <1>2, <2>1, <2>2
<1>9. ShownAs(s, to, more, next)
  BY <1>1, <1>5, <1>6, <1>7, <1>8 DEF ShownAs
<1> QED
  BY <1>9 DEF ShowsText, s, more

(* The reply of the run that is being written gets another text or state.  *)
LEMMA ReplyChanged ==
  ASSUME Runs \subseteq Nat, NEW t, NEW text, NEW now, NEW next, NEW of,
         ShownAs(t, of, text, now), NEW i \in Replies(t), of[i] = now,
         NEW e \in Entries, e.kind = "assistant", e.body # <<>>,
         text \in [Runs -> Seq(Nat \X Nat)], next = now \/ next \notin Runs,
         e.state = "running" <=> next = now,
         NEW s, s \in Seq(Entries), Len(s) = Len(t), s[i] = e,
         \A j \in 1..Len(t) : j # i => s[j] = t[j]
  PROVE  ShowsText(s, [text EXCEPT ![now] = e.body], next)
<1> DEFINE more == [text EXCEPT ![now] = e.body]
<1>1. /\ DOMAIN t = 1..Len(t) /\ DOMAIN s = 1..Len(t) /\ i \in 1..Len(t) /\ Len(t) \in Nat
      /\ of \in [Replies(t) -> Runs] /\ now \in Runs
  BY DEF ShownAs, Replies
<1>2. Replies(s) = Replies(t)
  BY <1>1 DEF Replies
<1>3. more[now] = e.body /\ \A q \in Runs : q # now => more[q] = text[q]
  BY <1>1
<1>4. \A j \in Replies(t) : j # i => s[j] = t[j] /\ of[j] # now
  <2> SUFFICES ASSUME NEW j \in Replies(t), j # i PROVE s[j] = t[j] /\ of[j] # now
    OBVIOUS
  <2>1. j \in 1..Len(t) /\ (i < j \/ j < i)
    BY <1>1 DEF Replies
  <2>2. i < j => of[i] < of[j]
    BY DEF ShownAs
  <2>3. j < i => of[j] < of[i]
    BY DEF ShownAs
  <2>4. of[i] \in Nat /\ of[j] \in Nat
    BY <1>1
  <2> QED
    BY <2>1, <2>2, <2>3, <2>4
<1> HIDE DEF more
<1>5. \A q \in Runs : more[q] # <<>> => \E j \in Replies(t) : of[j] = q
  BY <1>3 DEF ShownAs
<1>6. ASSUME NEW j \in Replies(t)
      PROVE  /\ more[of[j]] # <<>> /\ s[j].body = more[of[j]]
             /\ s[j].state = "running" <=> of[j] = next
  <2>1. CASE j = i
    BY <2>1, <1>3
  <2>2. CASE j # i
    <3>1. s[j] = t[j] /\ of[j] # now /\ of[j] \in Runs
      BY <2>2, <1>1, <1>4
    <3>2. text[of[j]] # <<>> /\ t[j].body = text[of[j]] /\ t[j].state # "running"
      BY <3>1 DEF ShownAs
    <3> QED
      BY <3>1, <3>2, <1>3
  <2> QED
    BY <2>1, <2>2
<1>7. ShownAs(s, of, more, next)
  BY <1>1, <1>2, <1>5, <1>6 DEF ShownAs
<1> QED
  BY <1>7 DEF ShowsText, more
(* Which run is being written says nothing while it has no text.           *)
LEMMA NowShown ==
  ASSUME NEW t, NEW text, NEW now, NEW next, ShowsText(t, text, now),
         \A q \in Runs : text[q] # <<>> => (q = now <=> q = next)
  PROVE  ShowsText(t, text, next)
<1>1. PICK of : ShownAs(t, of, text, now)
  BY DEF ShowsText
<1>2. \A i \in Replies(t) : of[i] \in Runs /\ text[of[i]] # <<>>
  BY <1>1 DEF ShownAs
<1>3. ShownAs(t, of, text, next)
  BY <1>1, <1>2 DEF ShownAs
<1> QED
  BY <1>3 DEF ShowsText

LEMMA UpsertedShown ==
  ASSUME Runs \subseteq Nat \ {0}, NEW t, NEW text, NEW r \in Runs, ShowsText(t, text, r),
         text \in [Runs -> Seq(Nat \X Nat)], NEW b \in Seq(Nat \X Nat), b # <<>>,
         \A q \in Runs : text[q] # <<>> => q <= r
  PROVE  ShowsText(Upserted(t, 0, b), [text EXCEPT ![r] = b], r)
<1>1. PICK of : ShownAs(t, of, text, r)
  BY DEF ShowsText
<1>2. t \in Seq(Entries) /\ Runs \subseteq Nat /\ Replies(t) \subseteq 1..Len(t) /\ Len(t) \in Nat
  BY <1>1 DEF ShownAs, Replies
<1>3. CASE text[r] # <<>>
  <2>1. PICK i \in Replies(t) : of[i] = r
    BY <1>1, <1>3 DEF ShownAs
  <2>2. RunningReply(t) = i
    BY <1>1, <1>2, <2>1, RunningFound
  <2> DEFINE e == [t[i] EXCEPT !.body = b]
             s == [t EXCEPT ![i].body = b]
  <2>3. /\ i \in 1..Len(t) /\ i > 0 /\ t[i] \in Entries
        /\ t[i].kind = "assistant" /\ t[i].state = "running"
    BY <1>1, <1>2, <2>1 DEF ShownAs, Replies
  <2>4. e \in Entries /\ e.kind = "assistant" /\ e.body = b /\ e.state = "running"
    BY <2>3 DEF Entries
  <2>5. /\ s \in Seq(Entries) /\ Len(s) = Len(t) /\ s[i] = e
        /\ \A j \in 1..Len(t) : j # i => s[j] = t[j]
    <3>1. s = [t EXCEPT ![i] = e]
      BY <1>2, <2>3
    <3> HIDE DEF s, e
    <3> QED
      BY <3>1, <1>2, <2>3, <2>4
  <2>6. Upserted(t, 0, b) = s
    BY <2>2, <2>3 DEF Upserted
  <2> HIDE DEF s, e
  <2>7. ShowsText(s, [text EXCEPT ![r] = e.body], r)
    BY <1>1, <1>2, <2>1, <2>4, <2>5, ReplyChanged
  <2> QED
    BY <2>4, <2>6, <2>7
<1>4. CASE text[r] = <<>>
  <2>1. \A i \in Replies(t) : of[i] # r
    BY <1>1, <1>4 DEF ShownAs
  <2>2. RunningReply(t) = 0
    BY <1>1, <1>2, <2>1, RunningFound
  <2> DEFINE e == Entry(0, "assistant", "running", b)
  <2>3. e \in Entries /\ e.kind = "assistant" /\ e.body = b /\ e.state = "running"
    BY DEF Entry, Entries, EntryStates
  <2>4. Upserted(t, 0, b) = Append(t, e)
    BY <2>2 DEF Upserted
  <2> HIDE DEF e
  <2>5. \A q \in Runs : text[q] # <<>> => q < r
    BY <1>4
  <2>6. ShowsText(Append(t, e), [text EXCEPT ![r] = e.body], r)
    BY <1>1, <1>2, <1>4, <2>3, <2>5, ReplyAppended
  <2> QED
    BY <2>3, <2>4, <2>6
<1> QED
  BY <1>3, <1>4

(* The end of the reply that is being written; it keeps its text.          *)
LEMMA FinalizedShown ==
  ASSUME Runs \subseteq Nat \ {0}, NoBody = <<>>, NEW t, NEW text, NEW r \in Runs,
         ShowsText(t, text, r), text \in [Runs -> Seq(Nat \X Nat)], text[r] # <<>>,
         NEW state \in EntryStates, state # "running", NEW body \in {<<>>, text[r]}
  PROVE  ShowsText(Finalized(t, 0, state, body), text, 0)
<1>1. PICK of : ShownAs(t, of, text, r)
  BY DEF ShowsText
<1>2. t \in Seq(Entries) /\ Runs \subseteq Nat /\ Replies(t) \subseteq 1..Len(t) /\ Len(t) \in Nat
  BY <1>1 DEF ShownAs, Replies
<1>3. PICK i \in Replies(t) : of[i] = r
  BY <1>1 DEF ShownAs
<1>4. RunningReply(t) = i
  BY <1>1, <1>2, <1>3, RunningFound
<1> DEFINE e == [t[i] EXCEPT !.state = state]
           s == [t EXCEPT ![i] = e]
<1>5. i \in 1..Len(t) /\ i > 0 /\ t[i] \in Entries /\ t[i].kind = "assistant" /\ t[i].body = text[r]
  BY <1>1, <1>2, <1>3 DEF ShownAs, Replies
<1>6. e \in Entries /\ e.kind = "assistant" /\ e.body = text[r] /\ e.state = state
  BY <1>5 DEF Entries
<1>7. /\ s \in Seq(Entries) /\ Len(s) = Len(t) /\ s[i] = e
      /\ \A j \in 1..Len(t) : j # i => s[j] = t[j]
  BY <1>2, <1>5, <1>6
<1>8. Finalized(t, 0, state, body) = s
  <2>1. Finalized(t, 0, state, body) =
          [t EXCEPT ![i].state = state, ![i].body = IF body = NoBody THEN @ ELSE body]
    BY <1>4, <1>5 DEF Finalized
  <2>2. PICK x : x = (IF body = NoBody THEN t[i].body ELSE body)
    OBVIOUS
  <2>3. x = t[i].body
    BY <1>5, <2>2
  <2>4. [t[i] EXCEPT !.state = state, !.body = x] = e
    BY <1>5, <2>3 DEF Entries
  <2>5. [t EXCEPT ![i].state = state, ![i].body = IF body = NoBody THEN @ ELSE body]
          = [t EXCEPT ![i] = [t[i] EXCEPT !.state = state, !.body = x]]
    BY <1>2, <1>5, <2>2 DEF Entries
  <2> QED
    BY <2>1, <2>4, <2>5
<1> HIDE DEF s, e
<1>9. ShowsText(s, [text EXCEPT ![r] = e.body], 0)
  <2>1. 0 \notin Runs
    OBVIOUS
  <2> QED
    BY <1>1, <1>2, <1>3, <1>6, <1>7, <2>1, ReplyChanged
<1>10. [text EXCEPT ![r] = e.body] = text
  BY <1>6
<1> QED
  BY <1>8, <1>9, <1>10

(* With nothing that is being written there is nothing to end.             *)
LEMMA NothingFinalized ==
  ASSUME Runs \subseteq Nat, NoBody = <<>>, NEW t, NEW text, NEW now, ShowsText(t, text, now),
         now \in Runs => text[now] = <<>>, NEW state
  PROVE  Finalized(t, 0, state, NoBody) = t
<1>1. PICK of : ShownAs(t, of, text, now)
  BY DEF ShowsText
<1>2. \A i \in Replies(t) : of[i] # now
  BY <1>1 DEF ShownAs
<1>3. RunningReply(t) = 0
  BY <1>1, <1>2, RunningFound
<1> QED
  BY <1>3 DEF Finalized

(* A reply is told as a whole.                                             *)
LEMMA WholeShown ==
  ASSUME Runs \subseteq Nat \ {0}, NoBody = <<>>, NEW t, NEW text, NEW r \in Runs,
         ShowsText(t, text, r), text \in [Runs -> Seq(Nat \X Nat)], text[r] = <<>>,
         NEW state \in EntryStates, state # "running", NEW b \in Seq(Nat \X Nat), b # <<>>,
         \A q \in Runs : text[q] # <<>> => q <= r
  PROVE  ShowsText(Finalized(t, 0, state, b), [text EXCEPT ![r] = b], 0)
<1>1. PICK of : ShownAs(t, of, text, r)
  BY DEF ShowsText
<1> DEFINE e == Entry(0, "assistant", state, b)
<1>2. e \in Entries /\ e.kind = "assistant" /\ e.body = b /\ e.state = state
  BY DEF Entry, Entries, EntryStates
<1>3. Runs \subseteq Nat /\ 0 \notin Runs
  OBVIOUS
<1>4. Finalized(t, 0, state, b) = Append(t, e)
  <2>1. \A i \in Replies(t) : of[i] # r
    BY <1>1 DEF ShownAs
  <2>2. RunningReply(t) = 0
    BY <1>1, <1>3, <2>1, RunningFound
  <2> QED
    BY <2>2 DEF Finalized
<1> HIDE DEF e
<1>5. \A q \in Runs : text[q] # <<>> => q < r /\ (q = r <=> q = 0)
  <2> SUFFICES ASSUME NEW q \in Runs, text[q] # <<>> PROVE q < r /\ (q = r <=> q = 0)
    OBVIOUS
  <2>1. q \in Nat /\ r \in Nat /\ q <= r /\ q # 0 /\ q # r
    BY <1>3
  <2> QED
    BY <2>1
<1>6. ShowsText(Append(t, e), [text EXCEPT ![r] = e.body], 0)
  BY <1>1, <1>2, <1>3, <1>5, ReplyAppended
<1> QED
  BY <1>2, <1>4, <1>6
-----------------------------------------------------------------------------
(* What is written of a run: its pieces in their order, each once, before  *)
(* its end, and that a target failed before the end of a run that did not  *)
(* go well.                                                                *)

PieceText(r, n) == IF n = 1 THEN <<>> ELSE << <<r, n>> >>
IsPiece(e, r, n) == e.type = "assistant.delta" /\ e.run = r /\ e.text = PieceText(r, n)
IsEnd(e, r) == e.run = r /\ e.type \in EndTypes
IsFailure(e, r) == e.run = r /\ e.type = "target.done" /\ ~e.ok

PiecesWritten ==
  /\ \A k \in 1..Len(log) : log[k].type = "assistant.delta" =>
       \E n \in 1..runs[log[k].run].pieces : IsPiece(log[k], log[k].run, n)
  /\ \A r \in Runs : \A n \in 1..runs[r].pieces : \E k \in 1..Len(log) : IsPiece(log[k], r, n)

PiecesInOrder ==
  \A j, k \in 1..Len(log) : \A r \in Runs : \A m, n \in Nat \ {0} :
    j < k /\ IsPiece(log[j], r, m) /\ IsPiece(log[k], r, n) => m < n

EndsLast ==
  \A j, k \in 1..Len(log) :
    j < k /\ IsEnd(log[j], log[k].run) => log[k].type \in EndTypes \cup {"assistant.completed"}

EndsTold ==
  \A k \in 1..Len(log) :
    /\ log[k].type = "assistant.completed" => \E j \in 1..(k - 1) : IsEnd(log[j], log[k].run)
    /\ log[k].type \in EndTypes /\ ~runs[log[k].run].ok =>
         \E j \in 1..(k - 1) : IsFailure(log[j], log[k].run)

Outcomes ==
  \A r \in Runs : /\ ~runs[r].ok => runs[r].state = "succeeded"
                  /\ runs[r].state = "none" => runs[r].pieces = 0

LogWritten == PiecesWritten /\ PiecesInOrder /\ EndsLast /\ EndsTold /\ Outcomes

LEMMA PieceNumber ==
  ASSUME NEW e, NEW r, NEW m \in Nat \ {0}, NEW n \in Nat \ {0}, IsPiece(e, r, m), IsPiece(e, r, n)
  PROVE  m = n
<1>1. PieceText(r, m) = PieceText(r, n)
  BY DEF IsPiece
<1>2. ASSUME NEW k \in Nat, k # 1 PROVE PieceText(r, k) # <<>> /\ PieceText(r, k)[1][2] = k
  BY <1>2 DEF PieceText
<1>3. PieceText(r, 1) = <<>>
  BY DEF PieceText
<1> QED
  BY <1>1, <1>2, <1>3

(* More is logged of r, and nothing of the others.                         *)
LEMMA MoreWritten ==
  ASSUME ServerInv, LogWritten, NEW r \in Runs, NEW es \in Seq(Events), log' = log \o es,
         \A k \in 1..Len(es) : es[k].run = r /\ es[k].type # "assistant.delta",
         runs' \in [Runs -> RunRecords], runs'[r].pieces = runs[r].pieces,
         \A q \in Runs : q # r => runs'[q] = runs[q],
         runs'[r].state # "none",
         runs[r].state \in Ended => runs'[r].ok = runs[r].ok,
         runs[r].state \in Ended =>
           \A k \in 1..Len(es) : es[k].type \in EndTypes,
         ~runs'[r].ok => runs'[r].state = "succeeded",
         \A j, k \in 1..Len(es) :
           j < k /\ es[j].type \in EndTypes => es[k].type \in EndTypes \cup {"assistant.completed"},
         \A k \in 1..Len(es) :
           /\ es[k].type = "assistant.completed" => \E j \in 1..(k - 1) : es[j].type \in EndTypes
           /\ es[k].type \in EndTypes /\ ~runs'[r].ok =>
                \/ runs[r].state \in Ended
                \/ \E j \in 1..(k - 1) : IsFailure(es[j], r)
  PROVE  LogWritten'
<1> DEFINE n == Len(log)
<1>1. /\ Len(log') = n + Len(es) /\ n \in Nat /\ Len(es) \in Nat
      /\ \A k \in 1..n : k \in 1..Len(log') /\ log'[k] = log[k]
      /\ \A k \in 1..Len(log') :
           k \in 1..n \/ (k - n \in 1..Len(es) /\ log'[k] = es[k - n])
      /\ \A k \in 1..Len(es) : n + k \in 1..Len(log') /\ log'[n + k] = es[k]
  <2>1. ServerTyped
    BY DEF ServerInv
  <2> QED
    BY <2>1, LogAppended
<1>2. \A k \in 1..n : log[k].run \in Runs /\ (IsEnd(log[k], r) => runs[r].state \in Ended)
  <2> SUFFICES ASSUME NEW k \in 1..n
               PROVE  log[k].run \in Runs /\ (IsEnd(log[k], r) => runs[r].state \in Ended)
    OBVIOUS
  <2>1. log[k].run \in Runs
    BY LoggedRun
  <2>2. IsEnd(log[k], r) => runs[r].state = StateOf(log[k].type)
    BY <2>1 DEF IsEnd, ServerInv, LoggedRuns
  <2>3. \A type : StateOf(type) \in Ended
    BY DEF StateOf, Ended
  <2> QED
    BY <2>1, <2>2, <2>3
<1>3. \A q \in Runs : runs'[q].pieces = runs[q].pieces
  OBVIOUS
<1> HIDE DEF n
<1>4. PiecesWritten'
  <2>1. ASSUME NEW k \in 1..Len(log'), log'[k].type = "assistant.delta"
        PROVE  \E m \in 1..runs'[log'[k].run].pieces : IsPiece(log'[k], log'[k].run, m)
    <3>1. k \in 1..n /\ log'[k] = log[k]
      BY <1>1, <2>1
    <3>2. \E m \in 1..runs[log[k].run].pieces : IsPiece(log[k], log[k].run, m)
      BY <2>1, <3>1 DEF LogWritten, PiecesWritten, n
    <3> QED
      BY <3>1, <3>2, <1>2, <1>3
  <2>2. ASSUME NEW q \in Runs, NEW m \in 1..runs'[q].pieces
        PROVE  \E k \in 1..Len(log') : IsPiece(log'[k], q, m)
    <3>1. PICK k \in 1..n : IsPiece(log[k], q, m)
      BY <1>3 DEF LogWritten, PiecesWritten, n
    <3> QED
      BY <3>1, <1>1
  <2> QED
    BY <2>1, <2>2 DEF PiecesWritten
<1>5. PiecesInOrder'
  <2> SUFFICES ASSUME NEW j \in 1..Len(log'), NEW k \in 1..Len(log'), NEW q \in Runs,
                      NEW m \in Nat \ {0}, NEW l \in Nat \ {0}, j < k,
                      IsPiece(log'[j], q, m), IsPiece(log'[k], q, l)
               PROVE  m < l
    BY DEF PiecesInOrder
  <2>1. k \in 1..n /\ j \in 1..n /\ log'[k] = log[k] /\ log'[j] = log[j]
    BY <1>1 DEF IsPiece
  <2> QED
    BY <2>1 DEF LogWritten, PiecesInOrder, n
<1>6. EndsLast'
  <2> SUFFICES ASSUME NEW j \in 1..Len(log'), NEW k \in 1..Len(log'), j < k,
                      IsEnd(log'[j], log'[k].run)
               PROVE  log'[k].type \in EndTypes \cup {"assistant.completed"}
    BY DEF EndsLast
  <2>1. CASE k \in 1..n
    <3>1. j \in 1..n /\ log'[k] = log[k] /\ log'[j] = log[j]
      BY <1>1, <2>1
    <3> QED
      BY <2>1, <3>1 DEF LogWritten, EndsLast, n
  <2>2. CASE k - n \in 1..Len(es) /\ log'[k] = es[k - n]
    <3>1. CASE j \in 1..n
      <4>1. runs[r].state \in Ended
        BY <2>2, <3>1, <1>1, <1>2
      <4> QED
        BY <2>2, <4>1
    <3>2. CASE j - n \in 1..Len(es) /\ log'[j] = es[j - n]
      <4>1. j - n < k - n
        BY <1>1
      <4> QED
        BY <2>2, <3>2, <4>1 DEF IsEnd
    <3> QED
      BY <1>1, <3>1, <3>2
  <2> QED
    BY <1>1, <2>1, <2>2
<1>7. EndsTold'
  <2> SUFFICES ASSUME NEW k \in 1..Len(log')
               PROVE  /\ log'[k].type = "assistant.completed"
                           => \E j \in 1..(k - 1) : IsEnd(log'[j], log'[k].run)
                      /\ log'[k].type \in EndTypes /\ ~runs'[log'[k].run].ok =>
                           \E j \in 1..(k - 1) : IsFailure(log'[j], log'[k].run)
    BY DEF EndsTold
  <2>1. CASE k \in 1..n
    <3>1. log'[k] = log[k] /\ \A j \in 1..(k - 1) : log'[j] = log[j]
      BY <1>1, <2>1
    <3>2. log[k].type \in EndTypes => runs'[log[k].run].ok = runs[log[k].run].ok
      BY <2>1, <1>2 DEF IsEnd
    <3>3. /\ log[k].type = "assistant.completed" => \E j \in 1..(k - 1) : IsEnd(log[j], log[k].run)
          /\ log[k].type \in EndTypes /\ ~runs[log[k].run].ok =>
               \E j \in 1..(k - 1) : IsFailure(log[j], log[k].run)
      BY <2>1 DEF LogWritten, EndsTold, n
    <3> QED
      BY <3>1, <3>2, <3>3
  <2>2. CASE k - n \in 1..Len(es) /\ log'[k] = es[k - n]
    <3>0. PICK i \in 1..Len(es) : i = k - n /\ log'[k] = es[i]
      BY <2>2
    <3>1. \A j \in 1..(i - 1) : n + j \in 1..(k - 1) /\ j \in 1..Len(es)
      BY <3>0, <1>1
    <3>4. \A j \in 1..(i - 1) : log'[n + j] = es[j] /\ es[j].run = r
      BY <3>1, <1>1
    <3>5. es[i].run = r
      OBVIOUS
    <3>2. es[i].type = "assistant.completed" => \E j \in 1..(k - 1) : IsEnd(log'[j], r)
      <4>1. SUFFICES ASSUME es[i].type = "assistant.completed"
                     PROVE  \E j \in 1..(k - 1) : IsEnd(log'[j], r)
        OBVIOUS
      <4>2. PICK j \in 1..(i - 1) : es[j].type \in EndTypes
        BY <4>1
      <4>3. IsEnd(log'[n + j], r)
        BY <4>2, <3>4 DEF IsEnd
      <4> QED
        BY <4>3, <3>1
    <3>3. ASSUME es[i].type \in EndTypes, ~runs'[r].ok
          PROVE  \E j \in 1..(k - 1) : IsFailure(log'[j], r)
      <4>1. CASE \E j \in 1..(i - 1) : IsFailure(es[j], r)
        <5>1. PICK j \in 1..(i - 1) : IsFailure(es[j], r)
          BY <4>1
        <5>2. IsFailure(log'[n + j], r)
          BY <5>1, <3>4
        <5> QED
          BY <5>2, <3>1
      <4>2. CASE runs[r].state \in Ended
        <5>1. ~runs[r].ok
          BY <3>3, <4>2
        <5>2. PICK l \in 1..n : IsEnd(log[l], r)
          BY <4>2 DEF ServerInv, RunsLogged, IsEnd, n
        <5>3. PICK j \in 1..(l - 1) : IsFailure(log[j], r)
          BY <5>1, <5>2 DEF LogWritten, EndsTold, IsEnd, n
        <5>4. j \in 1..n /\ j \in 1..(k - 1)
          BY <5>2, <5>3, <1>1, <2>2
        <5> QED
          BY <5>3, <5>4, <1>1
      <4> QED
        BY <3>3, <4>1, <4>2
    <3> QED
      BY <3>0, <3>5, <3>2, <3>3
  <2> QED
    BY <1>1, <2>1, <2>2
<1>8. Outcomes'
  <2> SUFFICES ASSUME NEW q \in Runs
               PROVE  /\ ~runs'[q].ok => runs'[q].state = "succeeded"
                      /\ runs'[q].state = "none" => runs'[q].pieces = 0
    BY DEF Outcomes
  <2> QED
    BY DEF LogWritten, Outcomes
<1> QED
  BY <1>4, <1>5, <1>6, <1>7, <1>8 DEF LogWritten
LEMMA NothingWritten ==
  ASSUME LogWritten, log' = log,
         \A r \in Runs : /\ runs'[r].pieces = runs[r].pieces /\ runs'[r].ok = runs[r].ok
                         /\ runs'[r].state = runs[r].state,
         \A k \in 1..Len(log) : log[k].run \in Runs
  PROVE  LogWritten'
<1>1. PiecesWritten'
  BY DEF LogWritten, PiecesWritten
<1>2. PiecesInOrder' /\ EndsLast'
  BY DEF LogWritten, PiecesInOrder, EndsLast
<1>3. EndsTold' /\ Outcomes'
  BY DEF LogWritten, EndsTold, Outcomes
<1> QED
  BY <1>1, <1>2, <1>3 DEF LogWritten

LEMMA BeginWritten ==
  ASSUME ServerInv, LogWritten, NEW r \in Runs, Begin(r)
  PROVE  LogWritten'
<1> DEFINE e == Event("run.started", r, <<>>, TRUE)
<1>1. e \in Events /\ e.run = r /\ e.type = "run.started"
  BY DEF Event, Events, EventTypes
<1>2. log' = Append(log, e)
  BY DEF Begin
<1> HIDE DEF e
<1>3. <<e>> \in Seq(Events) /\ log' = log \o <<e>> /\ Len(<<e>>) = 1 /\ <<e>>[1] = e
  <2>1. ServerTyped
    BY DEF ServerInv
  <2> QED
    BY <2>1, <1>1, <1>2, OneAppended
<1>4. /\ runs[r].state = "none" /\ runs' = [runs EXCEPT ![r].state = "running"]
  BY DEF Begin, NextRun
<1>5. /\ runs' \in [Runs -> RunRecords]
      /\ \A q \in Runs : q # r => runs'[q] = runs[q]
      /\ runs'[r].state = "running" /\ runs'[r].ok = runs[r].ok
      /\ runs'[r].pieces = runs[r].pieces
  BY <1>4 DEF ServerInv, ServerTyped, RunRecords, RunStates
<1>6. runs[r].state \notin Ended
  BY <1>4 DEF Ended
<1>7. runs[r].ok
  BY <1>4 DEF LogWritten, Outcomes
<1>8. \A k \in 1..Len(<<e>>) : k = 1 /\ <<e>>[k].run = r /\ <<e>>[k].type = "run.started"
  BY <1>1, <1>3
<1>9. /\ "run.started" # "assistant.delta" /\ "run.started" # "assistant.completed"
      /\ "run.started" \notin EndTypes
  BY DEF EndTypes
<1> DEFINE es == <<e>>
<1> HIDE DEF es
<1>10. es \in Seq(Events) /\ log' = log \o es
       /\ \A k \in 1..Len(es) : k = 1 /\ es[k].run = r /\ es[k].type = "run.started"
  BY <1>3, <1>8 DEF es
<1> QED
  BY <1>5, <1>6, <1>7, <1>9, <1>10, MoreWritten

LEMMA EmitWritten ==
  ASSUME ServerInv, LogWritten, NEW r \in Runs, Emit(r)
  PROVE  LogWritten'
<1> DEFINE k == runs[r].pieces + 1
           e == Event("assistant.delta", r, IF k = 1 THEN <<>> ELSE << <<r, k>> >>, TRUE)
           n == Len(log)
<1>1. runs[r] \in RunRecords /\ runs[r].state = "running" /\ k \in Nat \ {0}
      /\ runs[r].pieces \in Nat
  BY DEF ServerInv, ServerTyped, Emit, RunRecords
<1>2. IsPiece(e, r, k) /\ e.run = r /\ e.type = "assistant.delta"
  BY DEF Event, IsPiece, PieceText
<1>3. log' = Append(log, e) /\ runs' = [runs EXCEPT ![r].pieces = @ + 1]
  BY DEF Emit
<1>4. log \in Seq(Events) /\ runs \in [Runs -> RunRecords]
  BY DEF ServerInv, ServerTyped
<1>5. /\ runs'[r].pieces = k /\ runs'[r].state = "running" /\ runs'[r].ok = runs[r].ok
      /\ \A q \in Runs : q # r => runs'[q] = runs[q]
  BY <1>1, <1>3, <1>4 DEF RunRecords
<1> HIDE DEF e
<1>6. /\ Len(log') = n + 1 /\ n \in Nat /\ log'[n + 1] = e
      /\ \A i \in 1..n : i \in 1..Len(log') /\ log'[i] = log[i]
      /\ \A i \in 1..Len(log') : i \in 1..n \/ i = n + 1
      /\ n + 1 \in 1..Len(log')
  BY <1>3, <1>4
<1>7. \A i \in 1..n : log[i].run \in Runs /\ ~IsEnd(log[i], r)
  <2> SUFFICES ASSUME NEW i \in 1..n PROVE log[i].run \in Runs /\ ~IsEnd(log[i], r)
    OBVIOUS
  <2>1. log[i].run \in Runs
    BY LoggedRun
  <2>2. IsEnd(log[i], r) => runs[r].state = StateOf(log[i].type)
    BY <2>1 DEF IsEnd, ServerInv, LoggedRuns
  <2>3. \A type : StateOf(type) # "running"
    BY DEF StateOf
  <2> QED
    BY <2>1, <2>2, <2>3, <1>1
<1>8. \A i \in 1..n, m \in Nat \ {0} : IsPiece(log[i], r, m) => m < k
  <2> SUFFICES ASSUME NEW i \in 1..n, NEW m \in Nat \ {0}, IsPiece(log[i], r, m) PROVE m < k
    OBVIOUS
  <2>1. PICK l \in 1..runs[r].pieces : IsPiece(log[i], r, l)
    BY DEF LogWritten, PiecesWritten, IsPiece
  <2>2. l \in Nat \ {0} /\ l < k
    BY <1>1
  <2>3. m = l
    BY <2>1, <2>2, PieceNumber
  <2> QED
    BY <2>2, <2>3
<1> HIDE DEF n, k
<1>9. PiecesWritten'
  <2>1. ASSUME NEW i \in 1..Len(log'), log'[i].type = "assistant.delta"
        PROVE  \E m \in 1..runs'[log'[i].run].pieces : IsPiece(log'[i], log'[i].run, m)
    <3>1. CASE i = n + 1
      <4>1. k \in 1..runs'[r].pieces
        BY <1>1, <1>5
      <4> QED
        BY <3>1, <4>1, <1>2, <1>6
    <3>2. CASE i \in 1..n
      <4>1. log'[i] = log[i] /\ log[i].run \in Runs
        BY <3>2, <1>6, <1>7
      <4>2. PICK m \in 1..runs[log[i].run].pieces : IsPiece(log[i], log[i].run, m)
        BY <2>1, <3>2, <4>1 DEF LogWritten, PiecesWritten, n
      <4>3. m \in 1..runs'[log[i].run].pieces
        BY <4>1, <4>2, <1>1, <1>5 DEF k
      <4> QED
        BY <4>1, <4>2, <4>3
    <3> QED
      BY <1>6, <3>1, <3>2
  <2>2. ASSUME NEW q \in Runs, NEW m \in 1..runs'[q].pieces
        PROVE  \E i \in 1..Len(log') : IsPiece(log'[i], q, m)
    <3>1. CASE q = r /\ m = k
      BY <3>1, <1>2, <1>6
    <3>2. CASE ~(q = r /\ m = k)
      <4>1. m \in 1..runs[q].pieces
        BY <3>2, <1>1, <1>5 DEF k
      <4>2. PICK i \in 1..n : IsPiece(log[i], q, m)
        BY <4>1 DEF LogWritten, PiecesWritten, n
      <4> QED
        BY <4>2, <1>6
    <3> QED
      BY <3>1, <3>2
  <2> QED
    BY <2>1, <2>2 DEF PiecesWritten
<1>10. PiecesInOrder'
  <2> SUFFICES ASSUME NEW i \in 1..Len(log'), NEW j \in 1..Len(log'), NEW q \in Runs,
                      NEW m \in Nat \ {0}, NEW l \in Nat \ {0}, i < j,
                      IsPiece(log'[i], q, m), IsPiece(log'[j], q, l)
               PROVE  m < l
    BY DEF PiecesInOrder
  <2>1. i \in 1..n /\ log'[i] = log[i]
    BY <1>6
  <2>2. CASE j \in 1..n
    <3>1. log'[j] = log[j]
      BY <2>2, <1>6
    <3> QED
      BY <2>1, <2>2, <3>1 DEF LogWritten, PiecesInOrder, n
  <2>3. CASE j = n + 1
    <3>1. IsPiece(e, q, l) /\ q = r
      BY <2>3, <1>2, <1>6 DEF IsPiece
    <3>2. l = k
      BY <3>1, <1>1, <1>2, PieceNumber
    <3> QED
      BY <2>1, <3>1, <3>2, <1>8
  <2> QED
    BY <1>6, <2>2, <2>3
<1>11. EndsLast'
  <2> SUFFICES ASSUME NEW j \in 1..Len(log'), NEW i \in 1..Len(log'), j < i,
                      IsEnd(log'[j], log'[i].run)
               PROVE  log'[i].type \in EndTypes \cup {"assistant.completed"}
    BY DEF EndsLast
  <2>1. j \in 1..n /\ log'[j] = log[j]
    BY <1>6
  <2>2. i # n + 1
    BY <2>1, <1>2, <1>6, <1>7
  <2>3. i \in 1..n /\ log'[i] = log[i]
    BY <2>2, <1>6
  <2> QED
    BY <2>1, <2>3 DEF LogWritten, EndsLast, n
<1>12. EndsTold'
  <2> SUFFICES ASSUME NEW i \in 1..Len(log')
               PROVE  /\ log'[i].type = "assistant.completed"
                           => \E j \in 1..(i - 1) : IsEnd(log'[j], log'[i].run)
                      /\ log'[i].type \in EndTypes /\ ~runs'[log'[i].run].ok =>
                           \E j \in 1..(i - 1) : IsFailure(log'[j], log'[i].run)
    BY DEF EndsTold
  <2>1. CASE i = n + 1
    BY <2>1, <1>2, <1>6 DEF EndTypes
  <2>2. CASE i \in 1..n
    <3>1. log'[i] = log[i] /\ \A j \in 1..(i - 1) : log'[j] = log[j]
      BY <1>6, <2>2
    <3>2. runs'[log[i].run].ok = runs[log[i].run].ok
      BY <2>2, <1>5, <1>7
    <3>3. /\ log[i].type = "assistant.completed" => \E j \in 1..(i - 1) : IsEnd(log[j], log[i].run)
          /\ log[i].type \in EndTypes /\ ~runs[log[i].run].ok =>
               \E j \in 1..(i - 1) : IsFailure(log[j], log[i].run)
      BY <2>2 DEF LogWritten, EndsTold, n
    <3> QED
      BY <3>1, <3>2, <3>3
  <2> QED
    BY <1>6, <2>1, <2>2
<1>13. Outcomes'
  <2> SUFFICES ASSUME NEW q \in Runs
               PROVE  /\ ~runs'[q].ok => runs'[q].state = "succeeded"
                      /\ runs'[q].state = "none" => runs'[q].pieces = 0
    BY DEF Outcomes
  <2> QED
    BY <1>1, <1>5 DEF LogWritten, Outcomes
<1> QED
  BY <1>9, <1>10, <1>11, <1>12, <1>13 DEF LogWritten

(* The events of an end: the target's, the run's and the reply's.          *)
LEMMA EndOrder ==
  ASSUME NEW r \in Runs, NEW how \in Ended, NEW ok \in BOOLEAN,
         NEW es, es = EndEvents(r, how, ok), ok \/ runs[r].kind = "job"
  PROVE  /\ \A k \in 1..Len(es) : es[k].type # "assistant.delta"
         /\ \A j, k \in 1..Len(es) :
              j < k /\ es[j].type \in EndTypes => es[k].type \in EndTypes \cup {"assistant.completed"}
         /\ \A k \in 1..Len(es) :
              /\ es[k].type = "assistant.completed" => \E j \in 1..(k - 1) : es[j].type \in EndTypes
              /\ es[k].type \in EndTypes /\ ~ok => \E j \in 1..(k - 1) : IsFailure(es[j], r)
         /\ runs[r].kind = "turn" => \A k \in 1..Len(es) : es[k].type \in EndTypes
<1> DEFINE end == Event(CASE how = "succeeded" -> "run.completed"
                          [] how = "failed"    -> "run.failed"
                          [] how = "canceled"  -> "run.canceled", r, <<>>, TRUE)
           done == Event("target.done", r, <<>>, ok)
           reply == Event("assistant.completed", r, <<>>, TRUE)
<1>1. end.type \in EndTypes /\ end.type # "assistant.delta" /\ end.type # "assistant.completed"
  BY DEF Event, EndTypes, Ended
<1>2. /\ done.type = "target.done" /\ done.type \notin EndTypes
      /\ done.type # "assistant.delta" /\ done.type # "assistant.completed"
      /\ ~ok => IsFailure(done, r)
  BY DEF Event, EndTypes, IsFailure
<1>3. /\ reply.type = "assistant.completed" /\ reply.type \notin EndTypes
      /\ reply.type # "assistant.delta"
  BY DEF Event, EndTypes
<1>4. es = IF runs[r].kind = "turn" THEN <<end>>
           ELSE <<done, end>> \o (IF how = "succeeded" THEN <<reply>> ELSE <<>>)
  BY DEF EndEvents
<1> HIDE DEF end, done, reply
<1>5. CASE runs[r].kind = "turn"
  <2>1. Len(es) = 1 /\ es[1] = end
    BY <1>4, <1>5
  <2>2. \A k \in 1..Len(es) : k = 1
    BY <2>1
  <2>3. ok
    BY <1>5
  <2> QED
    BY <2>1, <2>2, <2>3, <1>1
<1>6. CASE runs[r].kind # "turn" /\ how = "succeeded"
  <2>1. es = <<done, end>> \o <<reply>>
    BY <1>4, <1>6
  <2>2. /\ Len(es) = 3 /\ es[1] = done /\ es[2] = end /\ es[3] = reply
        /\ \A k \in 1..Len(es) : k = 1 \/ k = 2 \/ k = 3
        /\ 2 \in 1..(3 - 1) /\ 1 \in 1..(2 - 1)
    BY <2>1
  <2> QED
    BY <2>2, <1>1, <1>2, <1>3, <1>6
<1>7. CASE runs[r].kind # "turn" /\ how # "succeeded"
  <2>1. es = <<done, end>> \o <<>>
    BY <1>4, <1>7
  <2>2. /\ Len(es) = 2 /\ es[1] = done /\ es[2] = end
        /\ \A k \in 1..Len(es) : k = 1 \/ k = 2
        /\ 1 \in 1..(2 - 1)
    BY <2>1
  <2> QED
    BY <2>2, <1>1, <1>2, <1>7
<1> QED
  BY <1>5, <1>6, <1>7

LEMMA EndWritten ==
  ASSUME ServerInv, LogWritten, NEW r \in Runs, NEW how \in Ended, NEW ok \in BOOLEAN,
         End(r, how, ok)
  PROVE  LogWritten'
<1> PICK es : es = EndEvents(r, how, ok)
  OBVIOUS
<1>1. es \in Seq(Events) /\ \A k \in 1..Len(es) : es[k].run = r
  BY EndEventsAre DEF ServerInv
<1>2. log' = log \o es /\ runs' = [runs EXCEPT ![r].state = how, ![r].ok = ok]
      /\ runs[r].state = "running" /\ (ok \/ (runs[r].kind = "job" /\ how = "succeeded"))
  BY DEF End
<1>3. /\ runs' \in [Runs -> RunRecords]
      /\ \A q \in Runs : q # r => runs'[q] = runs[q]
      /\ runs'[r].state = how /\ runs'[r].ok = ok /\ runs'[r].pieces = runs[r].pieces
  BY <1>2 DEF ServerInv, ServerTyped, RunRecords, RunStates
<1>4. "running" \notin Ended /\ "none" \notin Ended
  BY DEF Ended
<1>5. /\ \A k \in 1..Len(es) : es[k].type # "assistant.delta"
      /\ \A j, k \in 1..Len(es) :
           j < k /\ es[j].type \in EndTypes => es[k].type \in EndTypes \cup {"assistant.completed"}
      /\ \A k \in 1..Len(es) :
           /\ es[k].type = "assistant.completed" => \E j \in 1..(k - 1) : es[j].type \in EndTypes
           /\ es[k].type \in EndTypes /\ ~ok => \E j \in 1..(k - 1) : IsFailure(es[j], r)
  BY <1>2, EndOrder
<1>6. /\ runs[r].state \notin Ended /\ runs'[r].state # "none"
      /\ ~runs'[r].ok => runs'[r].state = "succeeded"
  <2>1. runs[r].state \notin Ended /\ runs'[r].state # "none"
    BY <1>2, <1>3, <1>4
  <2>2. ~runs'[r].ok => runs'[r].state = "succeeded"
    BY <1>2, <1>3
  <2> QED
    BY <2>1, <2>2
<1>7. \A k \in 1..Len(es) : es[k].type \in EndTypes /\ ~runs'[r].ok =>
        \E j \in 1..(k - 1) : IsFailure(es[j], r)
  BY <1>3, <1>5, Zenon
<1>8. \A k \in 1..Len(es) : es[k].run = r /\ es[k].type # "assistant.delta"
  BY <1>1, <1>5
<1>9. /\ \A j, k \in 1..Len(es) :
           j < k /\ es[j].type \in EndTypes => es[k].type \in EndTypes \cup {"assistant.completed"}
      /\ \A k \in 1..Len(es) :
           es[k].type = "assistant.completed" => \E j \in 1..(k - 1) : es[j].type \in EndTypes
  BY <1>5
<1>10. /\ es \in Seq(Events) /\ log' = log \o es /\ runs' \in [Runs -> RunRecords]
       /\ runs'[r].pieces = runs[r].pieces
       /\ \A q \in Runs : q # r => runs'[q] = runs[q]
  BY <1>1, <1>2, <1>3
<1> QED
  BY <1>6, <1>7, <1>8, <1>9, <1>10, MoreWritten

LEMMA RecoverWritten ==
  ASSUME ServerInv, LogWritten, NEW r \in Runs, Recover(r)
  PROVE  LogWritten'
<1> DEFINE how == runs[r].state
           es == EndEvents(r, how, TRUE)
<1>2. log' = log \o es /\ runs' = runs /\ how \in Ended /\ runs[r].kind = "turn"
  BY DEF Recover
<1> HIDE DEF how
<1>0. PICK ok \in BOOLEAN : ok = TRUE /\ es = EndEvents(r, how, ok) /\ ok
  OBVIOUS
<1> HIDE DEF es
<1>1. es \in Seq(Events) /\ \A k \in 1..Len(es) : es[k].run = r
  <2>1. ServerTyped /\ how \in Ended /\ es = EndEvents(r, how, ok)
    BY <1>0, <1>2 DEF ServerInv
  <2> QED
    BY <2>1, EndEventsAre
<1>3. /\ \A k \in 1..Len(es) : es[k].type # "assistant.delta"
      /\ \A j, k \in 1..Len(es) :
           j < k /\ es[j].type \in EndTypes => es[k].type \in EndTypes \cup {"assistant.completed"}
      /\ \A k \in 1..Len(es) :
           /\ es[k].type = "assistant.completed" => \E j \in 1..(k - 1) : es[j].type \in EndTypes
      /\ \A k \in 1..Len(es) : es[k].type \in EndTypes
  <2>1. how \in Ended /\ es = EndEvents(r, how, ok)
    BY <1>0, <1>2
  <2>2. ok \/ runs[r].kind = "job"
    BY <1>0
  <2>3. runs[r].kind = "turn"
    BY <1>2
  <2>4. PICK x : x = es
    OBVIOUS
  <2>5. x = EndEvents(r, how, ok)
    BY <2>1, <2>4
  <2>6. /\ \A k \in 1..Len(x) : x[k].type # "assistant.delta"
        /\ \A j, k \in 1..Len(x) :
             j < k /\ x[j].type \in EndTypes => x[k].type \in EndTypes \cup {"assistant.completed"}
        /\ \A k \in 1..Len(x) :
             /\ x[k].type = "assistant.completed" => \E j \in 1..(k - 1) : x[j].type \in EndTypes
             /\ x[k].type \in EndTypes /\ ~ok => \E j \in 1..(k - 1) : IsFailure(x[j], r)
        /\ runs[r].kind = "turn" => \A k \in 1..Len(x) : x[k].type \in EndTypes
    BY <2>1, <2>2, <2>5, EndOrder
  <2> QED
    BY <2>3, <2>4, <2>6
<1>4. runs \in [Runs -> RunRecords] /\ (~runs[r].ok => runs[r].state = "succeeded")
  BY DEF ServerInv, ServerTyped, LogWritten, Outcomes
<1>5. runs[r].state # "none" /\ runs[r].state \in Ended
  BY <1>2 DEF Ended, how
<1>6. /\ runs' \in [Runs -> RunRecords] /\ runs'[r].pieces = runs[r].pieces
      /\ \A q \in Runs : q # r => runs'[q] = runs[q]
      /\ runs'[r].state # "none"
      /\ ~runs'[r].ok => runs'[r].state = "succeeded"
      /\ runs'[r].ok = runs[r].ok
  BY <1>2, <1>4, <1>5
<1>7. log' = log \o es
  BY <1>2
<1> QED
  BY <1>1, <1>3, <1>5, <1>6, <1>7, MoreWritten

LEMMA SettleWritten ==
  ASSUME ServerInv, LogWritten, NEW r \in Runs, Settle(r)
  PROVE  LogWritten'
<1>1. log' = log /\ runs' = [runs EXCEPT ![r].final = TRUE]
  BY DEF Settle
<1>2. \A q \in Runs : /\ runs'[q].pieces = runs[q].pieces /\ runs'[q].ok = runs[q].ok
                      /\ runs'[q].state = runs[q].state
  BY <1>1 DEF ServerInv, ServerTyped, RunRecords
<1>3. \A k \in 1..Len(log) : log[k].run \in Runs
  BY LoggedRun
<1> QED
  BY <1>1, <1>2, <1>3, NothingWritten
-----------------------------------------------------------------------------
(* What the updates of a page do to its timeline, and to the run it reads. *)

LEMMA EntryAdded ==
  ASSUME NEW p, IsPage(p), p.thread.listed, NEW kind, kind # "assistant", NEW body
  PROVE  AddEntry(p, kind, body).thread.timeline
           = Append(p.thread.timeline, Entry(0, kind, "none", body))
BY DEF AddEntry, WithThread, IsPage

LEMMA ReplyWritten ==
  ASSUME NEW p, IsPage(p), p.thread.listed, NEW body
  PROVE  WriteReply(p, body).thread.timeline = Upserted(p.thread.timeline, 0, body)
BY DEF WriteReply, WithThread, IsPage

LEMMA ReplyEnded ==
  ASSUME NEW p, IsPage(p), p.thread.listed, NEW state, NEW body
  PROVE  EndReply(p, state, body).thread.timeline = Finalized(p.thread.timeline, 0, state, body)
BY DEF EndReply, WithThread, IsPage

LEMMA JobKeeps ==
  ASSUME NEW p, IsPage(p), NEW r, NEW status
  PROVE  SetJob(p, r, status).thread.timeline = p.thread.timeline
BY DEF SetJob, JobState, WithThread, IsPage

LEMMA DoneKeeps ==
  ASSUME NEW p, IsPage(p), NEW r \in Runs, NEW status, NEW surface, NEW active, MaxDone \in Nat
  PROVE  DeleteRun(MarkSessionDone(p, r, status, surface, active)).thread.timeline
           = p.thread.timeline
<1> DEFINE q == MarkRunCompleted(p, r)
           t == Tell(q, r, status)
           m == MarkSessionDone(p, r, status, surface, active)
<1>1. IsPage(q) /\ q.thread = p.thread
  BY MarkedPage
<1>2. IsPage(t) /\ t.thread = q.thread
  <2> HIDE DEF q, m
  <2>1. Notified(q, t, r)
    BY <1>1, TellPage
  <2> QED
    BY <2>1 DEF Notified
<1>3. m \in {q, t, MarkUnread(t)}
  BY DEF MarkSessionDone
<1> HIDE DEF q, t
<1>4. MarkUnread(t).thread.timeline = t.thread.timeline
  BY <1>2 DEF MarkUnread, WithThread, IsPage
<1>5. m.thread.timeline = p.thread.timeline
  BY <1>1, <1>2, <1>3, <1>4
<1>6. MadeDone(p, m, r)
  BY DonePage
<1> HIDE DEF m
<1>7. DeleteRun(m).thread = m.thread
  BY <1>6 DEF DeleteRun, IsPage, MadeDone
<1> QED
  BY <1>5, <1>7 DEF m

(* An entry says that the run failed, and nothing is written any more.     *)
LEMMA FailureShown ==
  ASSUME Runs \subseteq Nat \ {0}, NoBody = <<>>, NEW p, IsPage(p), p.thread.listed,
         NEW text, text \in [Runs -> Seq(Nat \X Nat)], NEW now, now = 0 \/ now \in Runs,
         ShowsText(p.thread.timeline, text, now),
         p.run.seen \/ now = 0 \/ text[now] = <<>>
  PROVE  ShowsText(AddEntry(IF p.run.seen THEN EndReply(p, "error", NoBody) ELSE p,
                            "failed", NoBody).thread.timeline, text, 0)
<1> DEFINE s == IF p.run.seen THEN EndReply(p, "error", NoBody) ELSE p
<1>0. Runs \subseteq Nat /\ 0 \notin Runs
  OBVIOUS
<1>1. SameRuns(p, s)
  <2>1. SameRuns(p, p)
    BY DEF SameRuns
  <2>2. SameRuns(p, EndReply(p, "error", NoBody))
    BY EndReplySame
  <2> QED
    BY <2>1, <2>2
<1>2. ShowsText(s.thread.timeline, text, 0)
  <2>1. CASE now = 0 \/ text[now] = <<>>
    <3>1. ShowsText(p.thread.timeline, text, 0)
      <4>1. \A q \in Runs : text[q] # <<>> => (q = now <=> q = 0)
        BY <1>0, <2>1
      <4> QED
        BY <4>1, NowShown
    <3>2. s.thread.timeline = p.thread.timeline
      <4>1. Finalized(p.thread.timeline, 0, "error", NoBody) = p.thread.timeline
        BY <1>0, <3>1, NothingFinalized
      <4> QED
        BY <4>1, ReplyEnded
    <3> QED
      BY <3>1, <3>2
  <2>2. CASE now # 0 /\ text[now] # <<>>
    <3>1. now \in Runs /\ p.run.seen
      BY <2>2
    <3>2. ShowsText(Finalized(p.thread.timeline, 0, "error", <<>>), text, 0)
      <4>1. "error" \in EntryStates /\ "error" # "running" /\ <<>> \in {<<>>, text[now]}
        BY DEF EntryStates
      <4> QED
        BY <2>2, <3>1, <4>1, FinalizedShown
    <3> QED
      BY <3>1, <3>2, ReplyEnded
  <2> QED
    BY <2>1, <2>2
<1>3. IsPage(s) /\ s.thread.listed
  BY <1>1 DEF SameRuns
<1> HIDE DEF s
<1>4. AddEntry(s, "failed", NoBody).thread.timeline
        = Append(s.thread.timeline, Entry(0, "failed", "none", NoBody))
  BY <1>3, EntryAdded
<1>5. Entry(0, "failed", "none", NoBody) \in Entries
      /\ Entry(0, "failed", "none", NoBody).kind # "assistant"
  BY DEF Entry, Entries, EntryStates
<1>6. PICK of : ShownAs(s.thread.timeline, of, text, 0)
  BY <1>2 DEF ShowsText
<1>7. ShownAs(Append(s.thread.timeline, Entry(0, "failed", "none", NoBody)), of, text, 0)
  BY <1>5, <1>6, OtherShown
<1> QED
  BY <1>4, <1>7 DEF ShowsText, s

(* run.failed and run.canceled.                                            *)
LEMMA BrokenShown ==
  ASSUME Runs \subseteq Nat \ {0}, NoBody = <<>>, MaxDone \in Nat,
         NEW p, IsPage(p), p.thread.listed, NEW e, e.run \in Runs,
         NEW text, text \in [Runs -> Seq(Nat \X Nat)], NEW now, now = 0 \/ now \in Runs,
         ShowsText(p.thread.timeline, text, now),
         now = 0 \/ (p.run.id = e.run /\ (p.run.seen \/ text[now] = <<>>)),
         NEW status, status # "", NEW surface, NEW active
  PROVE  ShowsText(RunBroken(p, e, status, surface, active).thread.timeline, text, 0)
<1> DEFINE q == EnsureRun(p, e.run)
           ended == IF q.run.seen THEN EndReply(q, "error", NoBody) ELSE q
           a == AddEntry(ended, "failed", NoBody)
           shown == SetJob(a, 0, status)
<1>1. Reads(p, q, e.run)
  BY RunEnsured
<1>2. q.thread = p.thread /\ (p.run.id = e.run => q = p)
  BY DEF EnsureRun, IsPage
<1>3. ShowsText(a.thread.timeline, text, 0)
  <2>1. IsPage(q) /\ q.thread.listed /\ ShowsText(q.thread.timeline, text, now)
        /\ (q.run.seen \/ now = 0 \/ text[now] = <<>>)
    BY <1>1, <1>2 DEF Reads
  <2> HIDE DEF q
  <2> QED
    BY <2>1, FailureShown
<1>4. IsPage(ended)
  <2> HIDE DEF q
  <2> QED BY <1>1, EndReplySame DEF Reads, SameRuns
<1>5. IsPage(a)
  <2> HIDE DEF ended
  <2> QED BY <1>4, AddEntrySame DEF SameRuns
<1>6. shown.thread.timeline = a.thread.timeline /\ IsPage(shown)
  <2> HIDE DEF a
  <2>1. JobSet(a, shown, 0, status)
    BY <1>5, SetJobSets
  <2>2. shown.thread.timeline = a.thread.timeline
    BY <1>5, JobKeeps
  <2> QED
    BY <2>1, <2>2 DEF JobSet
<1>7. RunBroken(p, e, status, surface, active)
        = DeleteRun(MarkSessionDone(shown, e.run, status, surface, active))
  BY DEF RunBroken
<1> HIDE DEF a, shown
<1>8. DeleteRun(MarkSessionDone(shown, e.run, status, surface, active)).thread.timeline
        = shown.thread.timeline
  BY <1>6, DoneKeeps
<1> QED
  BY <1>3, <1>6, <1>7, <1>8

(* finalizeStreamCompleted.                                                *)
LEMMA SuccessShown ==
  ASSUME Runs \subseteq Nat \ {0}, NoBody = <<>>, NEW p, IsPage(p), p.thread.listed,
         NEW text, text \in [Runs -> Seq(Nat \X Nat)], NEW r \in Runs,
         ShowsText(p.thread.timeline, text, r),
         ~p.run.final, p.run.out = text[r], p.run.out # <<>> => p.run.seen,
         \A q \in Runs : text[q] # <<>> => q <= r
  PROVE  ShowsText(ReplyCompleted(p).thread.timeline,
                   [text EXCEPT ![r] = IF p.run.out = <<>> /\ p.run.seen THEN Fallback ELSE @], 0)
<1> DEFINE more == [text EXCEPT ![r] = IF p.run.out = <<>> /\ p.run.seen THEN Fallback ELSE @]
<1>0. Runs \subseteq Nat /\ 0 \notin Runs /\ "success" \in EntryStates /\ "success" # "running"
  BY DEF EntryStates
<1>1. CASE p.run.out # <<>>
  <2>1. ReplyCompleted(p) = EndReply(p, "success", p.run.out)
    BY <1>1 DEF ReplyCompleted
  <2>2. more = text
    BY <1>1
  <2>3. ShowsText(Finalized(p.thread.timeline, 0, "success", p.run.out), text, 0)
    BY <1>0, <1>1, FinalizedShown
  <2>4. EndReply(p, "success", p.run.out).thread.timeline
          = Finalized(p.thread.timeline, 0, "success", p.run.out)
    BY ReplyEnded
  <2> QED
    BY <2>1, <2>2, <2>3, <2>4
<1>2. CASE p.run.out = <<>> /\ p.run.seen
  <2>1. ReplyCompleted(p) = EndReply(p, "success", Fallback)
    BY <1>2 DEF ReplyCompleted
  <2>2. Fallback \in Seq(Nat \X Nat) /\ Fallback # <<>>
    BY DEF Fallback
  <2>3. ShowsText(Finalized(p.thread.timeline, 0, "success", Fallback),
                  [text EXCEPT ![r] = Fallback], 0)
    BY <1>0, <1>2, <2>2, WholeShown
  <2>4. more = [text EXCEPT ![r] = Fallback]
    BY <1>2
  <2> QED
    BY <2>1, <2>3, <2>4, ReplyEnded
<1>3. CASE p.run.out = <<>> /\ ~p.run.seen
  <2>1. ReplyCompleted(p) = p
    BY <1>3 DEF ReplyCompleted
  <2>2. more = text
    BY <1>3
  <2>3. \A q \in Runs : text[q] # <<>> => (q = r <=> q = 0)
    BY <1>0, <1>3
  <2>4. ShowsText(p.thread.timeline, text, 0)
    BY <2>3, NowShown
  <2> QED
    BY <2>1, <2>2, <2>4
<1> QED
  BY <1>1, <1>2, <1>3
-----------------------------------------------------------------------------
(* What the browser has heard of each run, and what it shows of it.        *)

TextUpTo(r, n) == [k \in 1..(n - 1) |-> <<r, k + 1>>]

Spoken(r, n) == \E k \in 1..cursor : IsPiece(log[k], r, n)
Spoke(h) == \A r \in Runs : \A n \in Nat \ {0} : Spoken(r, n) <=> n <= h[r]

FailureHeard(r) == \E k \in 1..cursor : IsFailure(log[k], r)

(* The run that goes on, as far as the browser has heard.                  *)
Now == IF cursor > 0 /\ ~EndHeard(log[cursor].run) THEN log[cursor].run ELSE 0

Blank(run) == run.out = <<>> /\ ~run.seen /\ ~run.final /\ ~run.hints

RunRead(run, h, now) ==
  IF now = 0 THEN Blank(run)
  ELSE /\ run.id = now /\ run.out = TextUpTo(now, h[now])
       /\ run.seen <=> h[now] > 0
       /\ run.hints <=> FailureHeard(now)
       /\ ~run.final

WellEnded(r) == EndHeard(r) /\ runs[r].state = "succeeded" /\ runs[r].ok

TextHeard(h) ==
  [r \in Runs |-> IF h[r] > 1 THEN TextUpTo(r, h[r])
                  ELSE IF h[r] = 1 /\ WellEnded(r) THEN Fallback ELSE <<>>]

DoneHeard == \A r \in Runs : Contains(page.done, r) => EndHeard(r)

ShownWith(h) ==
  Spoke(h) /\ RunRead(page.run, h, Now) /\ ShowsText(page.thread.timeline, TextHeard(h), Now)

ShowsHeard == \E h \in [Runs -> Nat] : ShownWith(h)

(* After a logout the session is not listed until the next login.          *)
ShownInv ==
  /\ exact /\ page.thread.listed => DoneHeard /\ ShowsHeard
  /\ exact /\ cursor = 0 => Blank(page.run)
  /\ auth = "ready" \/ (auth = "locked" /\ ~page.thread.listed)

LEMMA OneMore ==
  ASSUME NEW S, NEW a \in Seq(S), NEW e \in S
  PROVE  /\ a \o <<e>> \in Seq(S) /\ Len(a \o <<e>>) = Len(a) + 1
         /\ \A k \in 1..Len(a) : (a \o <<e>>)[k] = a[k]
         /\ (a \o <<e>>)[Len(a) + 1] = e
OBVIOUS

LEMMA TextFacts ==
  ASSUME Runs \subseteq Nat \ {0}, NEW r \in Runs, NEW n \in Nat
  PROVE  /\ TextUpTo(r, n) \in Seq(Nat \X Nat)
         /\ TextUpTo(r, n) = <<>> <=> n <= 1
         /\ TextUpTo(r, n) \o PieceText(r, n + 1) = TextUpTo(r, n + 1)
<1>1. ASSUME NEW m \in Nat, m <= 1 PROVE TextUpTo(r, m) = <<>>
  <2>1. 1..(m - 1) = {}
    BY <1>1
  <2> QED
    BY <2>1 DEF TextUpTo
<1>2. ASSUME NEW m \in Nat, m > 1
      PROVE  /\ TextUpTo(r, m) \in Seq(Nat \X Nat) /\ Len(TextUpTo(r, m)) = m - 1
             /\ \A k \in 1..(m - 1) : TextUpTo(r, m)[k] = <<r, k + 1>>
  <2>1. m - 1 \in Nat /\ r \in Nat
    BY <1>2
  <2>2. \A k \in 1..(m - 1) : <<r, k + 1>> \in Nat \X Nat
    BY <2>1
  <2> QED
    BY <2>1, <2>2 DEF TextUpTo
<1>3. TextUpTo(r, n) \in Seq(Nat \X Nat)
  <2>1. CASE n <= 1
    <3>1. TextUpTo(r, n) = <<>>
      BY <2>1, <1>1
    <3>2. <<>> \in Seq(Nat \X Nat)
      OBVIOUS
    <3> QED
      BY <3>1, <3>2
  <2>2. CASE n > 1
    BY <2>2, <1>2
  <2> QED
    BY <2>1, <2>2
<1>4. TextUpTo(r, n) = <<>> <=> n <= 1
  <2>1. CASE n <= 1
    BY <2>1, <1>1
  <2>2. CASE n > 1
    <3>1. Len(TextUpTo(r, n)) = n - 1 /\ n - 1 # 0
      BY <2>2, <1>2
    <3> QED
      BY <2>2, <3>1
  <2> QED
    BY <2>1, <2>2
<1>5. TextUpTo(r, n) \o PieceText(r, n + 1) = TextUpTo(r, n + 1)
  <2>1. CASE n = 0
    <3>1. TextUpTo(r, n) = <<>> /\ TextUpTo(r, n + 1) = <<>> /\ PieceText(r, n + 1) = <<>>
      BY <2>1, <1>1 DEF PieceText
    <3> QED
      BY <3>1
  <2>2. CASE n > 0
    <3> DEFINE a == TextUpTo(r, n)
               b == TextUpTo(r, n + 1)
               e == <<r, n + 1>>
    <3>1. a \in Seq(Nat \X Nat) /\ Len(a) = n - 1 /\ \A k \in 1..(n - 1) : a[k] = <<r, k + 1>>
      <4>1. CASE n = 1
        <5>1. a = <<>>
          BY <4>1, <1>1
        <5> HIDE DEF a
        <5>2. <<>> \in Seq(Nat \X Nat) /\ Len(<<>>) = 0 /\ n - 1 = 0 /\ 1..(n - 1) = {}
          BY <4>1
        <5> QED
          BY <5>1, <5>2
      <4>2. CASE n > 1
        BY <4>2, <1>2
      <4> QED
        BY <2>2, <4>1, <4>2
    <3>2. b \in Seq(Nat \X Nat) /\ Len(b) = n /\ \A k \in 1..n : b[k] = <<r, k + 1>>
      <4>1. n + 1 \in Nat /\ n + 1 > 1 /\ (n + 1) - 1 = n
        BY <2>2
      <4> QED
        BY <4>1, <1>2
    <3>3. PieceText(r, n + 1) = <<e>> /\ e \in Nat \X Nat
      BY <2>2 DEF PieceText
    <3> HIDE DEF a, b, e
    <3>4. a \o <<e>> \in Seq(Nat \X Nat) /\ Len(a \o <<e>>) = n
          /\ (\A k \in 1..(n - 1) : (a \o <<e>>)[k] = a[k]) /\ (a \o <<e>>)[n] = e
      <4>1. Len(a) = n - 1 /\ Len(a) + 1 = n
        BY <2>2, <3>1
      <4>2. /\ a \o <<e>> \in Seq(Nat \X Nat) /\ Len(a \o <<e>>) = Len(a) + 1
            /\ (a \o <<e>>)[Len(a) + 1] = e
        <5>1. PICK S : S = Nat \X Nat
          OBVIOUS
        <5>2. a \in Seq(S) /\ e \in S
          BY <5>1, <3>1, <3>3
        <5>3. /\ a \o <<e>> \in Seq(S) /\ Len(a \o <<e>>) = Len(a) + 1
              /\ (a \o <<e>>)[Len(a) + 1] = e
          BY <5>2, OneMore
        <5> QED
          BY <5>1, <5>3
      <4>3. \A k \in 1..Len(a) : (a \o <<e>>)[k] = a[k]
        BY <3>1, <3>3, OneMore
      <4> QED
        BY <4>1, <4>2, <4>3
    <3>5. \A k \in 1..n : (a \o <<e>>)[k] = b[k]
      <4> SUFFICES ASSUME NEW k \in 1..n PROVE (a \o <<e>>)[k] = b[k]
        OBVIOUS
      <4>1. CASE k = n
        BY <2>2, <4>1, <3>2, <3>4 DEF e
      <4>2. CASE k # n
        <5>1. k \in 1..(n - 1)
          BY <4>2
        <5> QED
          BY <5>1, <3>1, <3>2, <3>4
      <4> QED
        BY <4>1, <4>2
    <3>6. a \o <<e>> = b
      BY <3>2, <3>4, <3>5, SeqEqual
    <3> QED
      BY <3>3, <3>6 DEF a, b
  <2> QED
    BY <2>1, <2>2
<1> QED
  BY <1>3, <1>4, <1>5

(* A run that was heard of is not after the last one that was.             *)
LEMMA HeardBefore ==
  ASSUME ServerInv, StreamInv, Runs \subseteq Nat, NEW k \in 1..cursor
  PROVE  cursor > 0 /\ log[k].run \in Runs /\ log[cursor].run \in Runs
         /\ log[k].run <= log[cursor].run
<1>1. cursor \in Nat /\ Len(log) \in Nat /\ cursor <= Len(log) /\ cursor > 0
  BY DEF StreamInv, ServerInv, ServerTyped
<1>2. k \in 1..Len(log) /\ cursor \in 1..Len(log)
  BY <1>1
<1>3. log[k].run \in Runs /\ log[cursor].run \in Runs
  BY <1>2, LoggedRun
<1>4. CASE k = cursor
  <2>1. log[k].run \in Nat
    BY <1>3
  <2> QED
    BY <1>1, <1>3, <1>4, <2>1
<1>5. CASE k < cursor
  BY <1>1, <1>2, <1>3, <1>5 DEF ServerInv, Ordered
<1> QED
  BY <1>1, <1>3, <1>4, <1>5

LEMMA SpokenBefore ==
  ASSUME ServerInv, StreamInv, Runs \subseteq Nat, NEW h \in [Runs -> Nat], Spoke(h),
         NEW r \in Runs, h[r] > 0
  PROVE  cursor > 0 /\ r <= log[cursor].run /\ log[cursor].run \in Runs
<1>1. Spoken(r, 1)
  BY DEF Spoke
<1>2. PICK k \in 1..cursor : log[k].run = r
  BY <1>1 DEF Spoken, IsPiece
<1> QED
  BY <1>2, HeardBefore

(* No piece is heard, and what is heard stays.                             *)
LEMMA SpokeSame ==
  ASSUME NEW h, Spoke(h), \A k \in 1..cursor' : k \in 1..cursor \/ log'[k].type # "assistant.delta",
         \A k \in 1..cursor : k \in 1..cursor' /\ log'[k] = log[k]
  PROVE  Spoke(h)'
<1>1. \A r, n : Spoken(r, n)' <=> Spoken(r, n)
  BY DEF Spoken, IsPiece
<1> QED
  BY <1>1 DEF Spoke

(* The next piece is the one after those that were heard.                  *)
LEMMA NextPiece ==
  ASSUME ServerInv, StreamInv, LogWritten, Runs \subseteq Nat, NEW h \in [Runs -> Nat], Spoke(h),
         cursor < Len(log), cursor' = cursor + 1, log' = log,
         NEW e, e = log[cursor + 1], e.type = "assistant.delta"
  PROVE  /\ e.run \in Runs /\ IsPiece(e, e.run, h[e.run] + 1)
         /\ Spoke([h EXCEPT ![e.run] = @ + 1])'
<1> DEFINE r == e.run
           c == cursor + 1
<1>1. /\ cursor \in Nat /\ Len(log) \in Nat /\ c \in 1..Len(log) /\ e = log[c] /\ c \in Nat
      /\ \A k \in 1..cursor : k \in 1..Len(log) /\ k < c
      /\ \A k \in 1..cursor' : k \in 1..cursor \/ k = c
      /\ \A k \in 1..cursor : k \in 1..cursor'
      /\ c \in 1..cursor'
  BY DEF StreamInv, ServerInv, ServerTyped
<1>2. r \in Runs
  BY <1>1, LoggedRun
<1> HIDE DEF r, c
<1>3. runs[r].pieces \in Nat
  BY <1>2 DEF ServerInv, ServerTyped, RunRecords
<1>4. PICK m \in 1..runs[r].pieces : IsPiece(e, r, m)
  BY <1>1 DEF LogWritten, PiecesWritten, r
<1>5. m \in Nat \ {0} /\ h[r] \in Nat
  BY <1>2, <1>3, <1>4
<1>6. ASSUME NEW n \in Nat \ {0}, Spoken(r, n) PROVE n < m
  <2>1. PICK k \in 1..cursor : IsPiece(log[k], r, n)
    BY <1>6 DEF Spoken
  <2> QED
    BY <2>1, <1>1, <1>2, <1>4, <1>5 DEF LogWritten, PiecesInOrder
<1>7. ASSUME NEW n \in Nat \ {0}, n < m PROVE Spoken(r, n)
  <2>1. n \in 1..runs[r].pieces
    BY <1>3, <1>4, <1>7
  <2>2. PICK k \in 1..Len(log) : IsPiece(log[k], r, n)
    BY <1>2, <2>1 DEF LogWritten, PiecesWritten
  <2>3. ~(c < k)
    <3>1. c < k => m < n
      BY <1>1, <1>2, <1>4, <1>5, <2>2 DEF LogWritten, PiecesInOrder
    <3> QED
      BY <3>1, <1>5, <1>7
  <2>4. k # c
    <3>1. SUFFICES ASSUME k = c PROVE FALSE
      OBVIOUS
    <3>2. IsPiece(e, r, n)
      BY <1>1, <2>2, <3>1
    <3>3. n = m
      BY <1>4, <1>5, <3>2, PieceNumber
    <3> QED
      BY <3>3, <1>5, <1>7
  <2>5. k \in 1..cursor
    BY <1>1, <2>3, <2>4 DEF c
  <2> QED
    BY <2>2, <2>5 DEF Spoken
<1>8. m = h[r] + 1
  <2>1. \A n \in Nat \ {0} : n < m <=> n <= h[r]
    BY <1>2, <1>6, <1>7 DEF Spoke
  <2>2. h[r] + 1 \in Nat \ {0} /\ ~(h[r] + 1 <= h[r])
    BY <1>5
  <2>3. ~(h[r] + 1 < m)
    BY <2>1, <2>2
  <2>4. h[r] < m
    BY <2>1, <1>5
  <2> QED
    BY <2>3, <2>4, <1>5
<1> DEFINE g == [h EXCEPT ![r] = @ + 1]
<1>9. Spoke(g)'
  <2>1. g[r] = m /\ \A q \in Runs : q # r => g[q] = h[q]
    BY <1>2, <1>8
  <2> HIDE DEF g
  <2> SUFFICES ASSUME NEW q \in Runs, NEW n \in Nat \ {0}
               PROVE  Spoken(q, n)' <=> n <= g[q]
    BY DEF Spoke
  <2>2. Spoken(q, n)' <=> Spoken(q, n) \/ IsPiece(e, q, n)
    BY <1>1 DEF Spoken
  <2>3. CASE q = r
    <3>1. IsPiece(e, r, n) <=> n = m
      BY <1>4, <1>5, PieceNumber
    <3>2. Spoken(r, n) <=> n < m
      BY <1>6, <1>7
    <3> QED
      BY <2>1, <2>2, <2>3, <3>1, <3>2, <1>5
  <2>4. CASE q # r
    <3>1. ~IsPiece(e, q, n)
      BY <2>4 DEF IsPiece, r
    <3>2. Spoken(q, n) <=> n <= h[q]
      BY DEF Spoke
    <3> QED
      BY <2>1, <2>2, <2>4, <3>1, <3>2
  <2> QED
    BY <2>3, <2>4
<1> QED
  BY <1>2, <1>4, <1>8, <1>9 DEF r
(* What is heard with an event.                                            *)
LEMMA NowFacts ==
  ASSUME ServerInv, StreamInv, LogWritten, Runs \subseteq Nat \ {0},
         NEW e, NEW surface, NEW active, Heard(e, surface, active)
  PROVE  /\ e.type = "run.started" =>
              Now = 0 /\ Now' = e.run /\ \A k \in 1..cursor : log[k].run # e.run
         /\ e.type \in {"assistant.delta", "target.done"} => Now = e.run /\ Now' = e.run
         /\ e.type = "assistant.completed" => Now = 0 /\ Now' = 0
         /\ e.type \in EndTypes =>
              Now' = 0 /\ (EndHeard(e.run) => Now = 0) /\ (~EndHeard(e.run) => Now = e.run)
<1>0. Runs \subseteq Nat
  OBVIOUS
<1>1. /\ cursor + 1 \in 1..Len(log) /\ cursor \in Nat
      /\ e.run \in Runs
      /\ cursor' > 0 /\ log'[cursor'].run = e.run
      /\ e.type # "run.started" => cursor > 0 /\ log[cursor].run = e.run
      /\ e.type = "run.started" => \A k \in 1..cursor : log[k].run # e.run
      /\ \A r : EndHeard(r)' <=> EndHeard(r) \/ (r = e.run /\ e.type \in EndTypes)
  BY <1>0, HeardFacts
<1>2. e = log[cursor + 1] /\ log' = log
  BY DEF Heard
<1>3. Now' = IF EndHeard(e.run)' THEN 0 ELSE e.run
  BY <1>1 DEF Now, EndHeard
<1>4. ASSUME e.type = "run.started" PROVE Now = 0 /\ Now' = e.run
  <2>1. ~EndHeard(e.run)'
    <3>1. e.type \notin EndTypes
      BY <1>4 DEF EndTypes
    <3> QED
      BY <3>1, <1>1, <1>4 DEF EndHeard
  <2>2. CASE cursor = 0
    BY <2>1, <2>2, <1>3 DEF Now
  <2>3. CASE cursor > 0
    <3> DEFINE l == log[cursor].run
    <3>1. cursor \in 1..cursor /\ cursor \in 1..Len(log) /\ cursor < cursor + 1
      BY <1>1, <2>3
    <3>2. l \in Runs
      BY <3>1, LoggedRun
    <3>3. l < e.run
      BY <1>1, <1>2, <1>4, <3>1 DEF ServerInv, Ordered
    <3>4. runs[e.run].state # "none"
      BY <1>1, <1>2 DEF ServerInv, LoggedRuns
    <3>5. runs[l].state \in Ended
      BY <1>1, <3>2, <3>3, <3>4 DEF ServerInv, OneAtATime
    <3> HIDE DEF l
    <3>6. PICK k \in 1..Len(log) : log[k].run = l /\ log[k].type \in EndTypes
      BY <3>2, <3>5 DEF ServerInv, RunsLogged
    <3>7. k \in 1..cursor
      <4>1. ~(cursor + 1 < k)
        <5>1. cursor + 1 < k => e.run <= l
          BY <1>1, <1>2, <3>6 DEF ServerInv, Ordered
        <5>2. e.run \in Nat /\ l \in Nat
          BY <1>1, <3>2
        <5> QED
          BY <5>1, <5>2, <3>3
      <4>2. k # cursor + 1
        <5>1. e.run \in Nat /\ l \in Nat
          BY <1>1, <3>2
        <5> QED
          BY <5>1, <1>2, <3>3, <3>6
      <4> QED
        BY <4>1, <4>2, <1>1
    <3>8. EndHeard(l)
      BY <3>6, <3>7 DEF EndHeard
    <3> QED
      BY <2>1, <3>8, <1>3 DEF Now, l
  <2> QED
    BY <1>1, <2>2, <2>3
<1>5. e.type # "run.started" => Now = IF EndHeard(e.run) THEN 0 ELSE e.run
  BY <1>1 DEF Now
<1>6. ASSUME e.type \in {"assistant.delta", "target.done"} PROVE Now = e.run /\ Now' = e.run
  <2>1. e.type \notin EndTypes /\ e.type # "assistant.completed" /\ e.type # "run.started"
    BY <1>6 DEF EndTypes
  <2>2. ~EndHeard(e.run)
    <3>1. SUFFICES ASSUME NEW k \in 1..cursor, log[k].run = e.run, log[k].type \in EndTypes
                   PROVE FALSE
      BY DEF EndHeard
    <3>2. k \in 1..Len(log) /\ k < cursor + 1
      BY <1>1
    <3>3. IsEnd(log[k], log[cursor + 1].run)
      BY <1>2, <3>1 DEF IsEnd
    <3>4. e.type \in EndTypes \cup {"assistant.completed"}
      BY <1>1, <1>2, <3>2, <3>3 DEF LogWritten, EndsLast
    <3> QED
      BY <2>1, <3>4
  <2>3. ~EndHeard(e.run)'
    BY <1>1, <2>1, <2>2
  <2> QED
    BY <1>3, <1>5, <2>1, <2>2, <2>3
<1>7. ASSUME e.type = "assistant.completed" PROVE Now = 0 /\ Now' = 0
  <2>1. PICK k \in 1..((cursor + 1) - 1) : IsEnd(log[k], e.run)
    BY <1>1, <1>2, <1>7 DEF LogWritten, EndsTold
  <2>2. k \in 1..cursor
    BY <1>1
  <2>3. EndHeard(e.run)
    BY <2>1, <2>2 DEF EndHeard, IsEnd
  <2>4. EndHeard(e.run)'
    BY <1>1, <2>3
  <2>5. e.type # "run.started"
    BY <1>7
  <2> QED
    BY <1>3, <1>5, <2>3, <2>4, <2>5
<1>8. ASSUME e.type \in EndTypes
      PROVE  Now' = 0 /\ (EndHeard(e.run) => Now = 0) /\ (~EndHeard(e.run) => Now = e.run)
  <2>1. e.type # "run.started"
    BY <1>8 DEF EndTypes
  <2>2. EndHeard(e.run)'
    BY <1>1, <1>8
  <2> QED
    BY <1>3, <1>5, <2>1, <2>2
<1> QED
  BY <1>1, <1>4, <1>6, <1>7, <1>8

LEMMA FailureNext ==
  ASSUME ServerInv, StreamInv, Runs \subseteq Nat,
         NEW e, NEW surface, NEW active, Heard(e, surface, active), NEW r
  PROVE  FailureHeard(r)' <=> FailureHeard(r) \/ IsFailure(e, r)
<1>1. cursor \in Nat /\ cursor' = cursor + 1 /\ log' = log /\ e = log[cursor + 1]
  BY DEF Heard, StreamInv
<1>2. \A k : k \in 1..cursor' <=> k \in 1..cursor \/ k = cursor + 1
  BY <1>1
<1> QED
  BY <1>1, <1>2 DEF FailureHeard

(* An event that is no piece is none.                                      *)
LEMMA SpokeOn ==
  ASSUME ServerInv, StreamInv, Runs \subseteq Nat,
         NEW e, NEW surface, NEW active, Heard(e, surface, active), e.type # "assistant.delta",
         NEW h, Spoke(h)
  PROVE  Spoke(h)'
<1>1. cursor \in Nat /\ cursor' = cursor + 1 /\ log' = log /\ e = log[cursor + 1]
  BY DEF Heard, StreamInv
<1>2. \A k : k \in 1..cursor' <=> k \in 1..cursor \/ k = cursor + 1
  BY <1>1
<1>3. \A k \in 1..cursor' : k \in 1..cursor \/ log'[k].type # "assistant.delta"
  BY <1>1, <1>2
<1>4. \A k \in 1..cursor : k \in 1..cursor' /\ log'[k] = log[k]
  BY <1>1, <1>2
<1> QED
  BY <1>3, <1>4, SpokeSame

LEMMA TextTyped ==
  ASSUME Runs \subseteq Nat \ {0}, NEW h \in [Runs -> Nat]
  PROVE  /\ TextHeard(h) \in [Runs -> Seq(Nat \X Nat)]
         /\ \A r \in Runs : TextHeard(h)[r] # <<>> => h[r] > 0
<1>1. \A r \in Runs : TextUpTo(r, h[r]) \in Seq(Nat \X Nat)
  BY TextFacts
<1>2. Fallback \in Seq(Nat \X Nat) /\ <<>> \in Seq(Nat \X Nat)
  BY DEF Fallback
<1>3. \A r \in Runs : h[r] > 1 => h[r] > 0
  OBVIOUS
<1> QED
  BY <1>1, <1>2, <1>3 DEF TextHeard

LEMMA TextSame ==
  ASSUME NEW h, \A r \in Runs : h[r] = 1 => (WellEnded(r)' <=> WellEnded(r))
  PROVE  TextHeard(h)' = TextHeard(h)
BY DEF TextHeard

(* Only runs up to the last that was heard of have a text.                 *)
LEMMA TextBefore ==
  ASSUME ServerInv, StreamInv, Runs \subseteq Nat \ {0}, NEW h \in [Runs -> Nat], Spoke(h),
         NEW r \in Runs, TextHeard(h)[r] # <<>>
  PROVE  cursor > 0 /\ r <= log[cursor].run /\ log[cursor].run \in Runs
<1>1. h[r] > 0 /\ Runs \subseteq Nat
  BY TextTyped
<1> QED
  BY <1>1, SpokenBefore
(* An event that is heard while the page shows what was heard before.      *)
Hears(e, surface, active, h) ==
  /\ Heard(e, surface, active)
  /\ IsPage(page) /\ page.thread.listed
  /\ DoneHeard /\ h \in [Runs -> Nat] /\ ShownWith(h)

LEMMA DoneOn ==
  ASSUME ServerInv, StreamInv, Runs \subseteq Nat, DoneHeard,
         NEW e, NEW surface, NEW active, Heard(e, surface, active),
         \A r \in Runs : Contains(page'.done, r) =>
           Contains(page.done, r) \/ (r = e.run /\ e.type \in EndTypes)
  PROVE  DoneHeard'
<1>1. \A r : EndHeard(r)' <=> EndHeard(r) \/ (r = e.run /\ e.type \in EndTypes)
  BY HeardFacts
<1> QED
  BY <1>1 DEF DoneHeard

LEMMA StartShown ==
  ASSUME ServerInv, StreamInv, LogWritten, Runs \subseteq Nat \ {0},
         NEW e, NEW surface, NEW active, NEW h, Hears(e, surface, active, h),
         e.type = "run.started"
  PROVE  DoneHeard' /\ ShowsHeard'
<1> DEFINE r == e.run
           q == EnsureRun(page, r)
           s == SetJob(q, r, "running")
<1>0. Runs \subseteq Nat /\ Heard(e, surface, active) /\ IsPage(page) /\ page.thread.listed
      /\ DoneHeard /\ h \in [Runs -> Nat] /\ ShownWith(h)
  BY DEF Hears
<1>1. page' = s /\ runs' = runs
  BY <1>0 DEF Heard, HandleSessionEvent, RunStarted
<1>2. r \in Runs /\ e.type # "assistant.delta" /\ e.type \notin EndTypes /\ r # 0
  BY <1>0, HeardFacts DEF EndTypes
<1>3. Now = 0 /\ Now' = r /\ \A k \in 1..cursor : log[k].run # r
  BY <1>0, NowFacts
<1>4. Blank(page.run) /\ ShowsText(page.thread.timeline, TextHeard(h), 0) /\ Spoke(h)
  BY <1>0, <1>3 DEF ShownWith, RunRead
<1>5. h[r] = 0
  <2>1. ~Spoken(r, 1)
    BY <1>3 DEF Spoken, IsPiece
  <2>2. \A n \in Nat \ {0} : Spoken(r, n) <=> n <= h[r]
    BY <1>2, <1>4 DEF Spoke
  <2>3. h[r] \in Nat /\ 1 \in Nat \ {0}
    <3>1. h \in [Runs -> Nat] /\ r \in Runs
      BY <1>0, <1>2
    <3> HIDE DEF r
    <3> QED
      BY <3>1
  <2>4. ~(1 <= h[r])
    BY <2>1, <2>2, <2>3
  <2> QED
    BY <2>3, <2>4
<1>6. ~FailureHeard(r)' /\ Spoke(h)'
  <2>1. ~FailureHeard(r)
    BY <1>3 DEF FailureHeard, IsFailure
  <2>2. ~IsFailure(e, r)
    BY DEF IsFailure
  <2> QED
    BY <1>0, <1>2, <1>4, <2>1, <2>2, FailureNext, SpokeOn
<1>7. TextHeard(h)' = TextHeard(h)
  <2>1. \A x : EndHeard(x)' <=> EndHeard(x)
    BY <1>0, <1>2, HeardFacts
  <2> QED
    BY <1>1, <2>1, TextSame DEF WellEnded
<1>8. Reads(page, q, r) /\ q.thread = page.thread /\ q.run.id = r /\ Blank(q.run)
  <2>1. Reads(page, q, r)
    BY <1>0, RunEnsured
  <2>2. q.thread = page.thread /\ Blank(q.run)
    BY <1>0, <1>4 DEF EnsureRun, IsPage, Blank, NoRun
  <2> QED
    BY <2>1, <2>2 DEF Reads
<1> HIDE DEF q
<1>9. s.thread.timeline = page.thread.timeline /\ s.run = q.run /\ s.done = page.done
  <2>1. JobSet(q, s, r, "running") /\ s.thread.timeline = q.thread.timeline
    BY <1>8, SetJobSets, JobKeeps DEF Reads
  <2> QED
    BY <1>8, <2>1 DEF JobSet, Reads
<1> HIDE DEF s, r
<1>10. RunRead(page.run, h, Now)'
  <2>1. TextUpTo(r, h[r]) = <<>>
    <3>1. 0 \in Nat /\ 0 <= 1
      OBVIOUS
    <3>2. TextUpTo(r, 0) = <<>>
      BY <1>2, <3>1, TextFacts
    <3> QED
      BY <1>5, <3>2
  <2>2. page'.run = q.run /\ q.run.out = <<>> /\ ~q.run.seen /\ ~q.run.final /\ ~q.run.hints
    BY <1>1, <1>8, <1>9 DEF Blank
  <2>3. ~(h[r] > 0)
    BY <1>5
  <2> QED
    BY <1>2, <1>3, <1>6, <1>8, <2>1, <2>2, <2>3 DEF RunRead
<1>11. ShowsText(page.thread.timeline, TextHeard(h), Now)'
  <2>1. \A x \in Runs : TextHeard(h)[x] # <<>> => (x = 0 <=> x = r)
    <3>1. \A x \in Runs : TextHeard(h)[x] # <<>> => h[x] > 0
      BY <1>0, TextTyped
    <3> QED
      BY <3>1, <1>5
  <2>2. ShowsText(page.thread.timeline, TextHeard(h), r)
    BY <1>4, <2>1, NowShown
  <2> QED
    BY <1>1, <1>3, <1>7, <1>9, <2>2
<1>12. DoneHeard'
  BY <1>0, <1>1, <1>9, DoneOn
<1> QED
  BY <1>0, <1>6, <1>10, <1>11, <1>12 DEF ShowsHeard, ShownWith

Pieced(p, text) == [p EXCEPT !.run.out = @ \o text, !.run.seen = TRUE]

LEMMA PieceRead ==
  ASSUME NEW p, IsPage(p), NEW text
  PROVE  LET q == Pieced(p, text)
         IN /\ IsPage(q) /\ q.thread = p.thread /\ q.done = p.done
            /\ q.run.id = p.run.id /\ q.run.out = p.run.out \o text /\ q.run.seen = TRUE
            /\ q.run.final = p.run.final /\ q.run.hints = p.run.hints
BY DEF IsPage, Pieced

LEMMA DeltaShown ==
  ASSUME ServerInv, StreamInv, LogWritten, Runs \subseteq Nat \ {0},
         NEW e, NEW surface, NEW active, NEW h, Hears(e, surface, active, h),
         e.type = "assistant.delta"
  PROVE  DoneHeard' /\ ShowsHeard'
<1> DEFINE r == e.run
           text == TextHeard(h)
           g == [h EXCEPT ![r] = @ + 1]
           out == TextUpTo(r, h[r] + 1)
           q == Pieced(EnsureRun(page, r), e.text)
<1>0. Runs \subseteq Nat /\ Heard(e, surface, active) /\ IsPage(page) /\ page.thread.listed
      /\ DoneHeard /\ h \in [Runs -> Nat] /\ ShownWith(h)
  BY DEF Hears
<1>1. /\ page' = IF q.run.out = <<>> THEN q ELSE WriteReply(q, q.run.out)
      /\ runs' = runs /\ log' = log /\ cursor' = cursor + 1 /\ cursor < Len(log)
      /\ e = log[cursor + 1]
  BY <1>0 DEF Heard, HandleSessionEvent, AssistantDelta, Pieced
<1>2. /\ r \in Runs /\ cursor > 0 /\ log[cursor].run = r
      /\ \A x : EndHeard(x)' <=> EndHeard(x)
  BY <1>0, HeardFacts DEF EndTypes
<1>3. Now = r /\ Now' = r
  BY <1>0, NowFacts
<1>4. IsPiece(e, r, h[r] + 1) /\ Spoke(g)'
  BY <1>0, <1>1, NextPiece DEF ShownWith
<1> HIDE DEF r
<1>5. h[r] \in Nat /\ h[r] + 1 \in Nat /\ r # 0 /\ g \in [Runs -> Nat] /\ g[r] = h[r] + 1
      /\ \A x \in Runs : x # r => g[x] = h[x]
  <2>1. h \in [Runs -> Nat] /\ r \in Runs /\ Runs \subseteq Nat \ {0}
    BY <1>0, <1>2
  <2>2. g[r] = h[r] + 1 /\ \A x \in Runs : x # r => g[x] = h[x]
    BY <2>1
  <2>3. h[r] \in Nat /\ h[r] + 1 \in Nat /\ r # 0
    BY <2>1
  <2>4. g \in [Runs -> Nat]
    BY <2>1, <2>3
  <2> QED
    BY <2>2, <2>3, <2>4
<1> HIDE DEF g
<1>6. /\ page.run.id = r /\ page.run.out = TextUpTo(r, h[r]) /\ ~page.run.final
      /\ page.run.hints <=> FailureHeard(r)
      /\ ShowsText(page.thread.timeline, text, r) /\ Spoke(h)
  BY <1>0, <1>3, <1>5 DEF ShownWith, RunRead
<1>7. out = TextUpTo(r, h[r]) \o PieceText(r, h[r] + 1) /\ out \in Seq(Nat \X Nat)
      /\ (out = <<>> <=> h[r] = 0)
  <2>1. TextUpTo(r, h[r]) \o PieceText(r, h[r] + 1) = out
    BY <1>2, <1>5, TextFacts
  <2>2. out \in Seq(Nat \X Nat) /\ (out = <<>> <=> h[r] + 1 <= 1)
    BY <1>2, <1>5, TextFacts
  <2> HIDE DEF out
  <2> QED
    BY <1>5, <2>1, <2>2
<1>8. /\ IsPage(q) /\ q.thread = page.thread /\ q.done = page.done
      /\ q.run.id = r /\ q.run.out = out /\ q.run.seen /\ ~q.run.final
      /\ q.run.hints <=> FailureHeard(r)
  <2>1. q = Pieced(page, e.text)
    BY <1>6 DEF EnsureRun
  <2>2. page.run.out \o e.text = out
    BY <1>4, <1>6, <1>7 DEF IsPiece
  <2> HIDE DEF out
  <2> HIDE DEF q
  <2>3. /\ IsPage(q) /\ q.thread = page.thread /\ q.done = page.done
        /\ q.run.id = page.run.id /\ q.run.out = page.run.out \o e.text /\ q.run.seen = TRUE
        /\ q.run.final = page.run.final /\ q.run.hints = page.run.hints
    <3>1. IsPage(page)
      BY <1>0
    <3>2. PICK x : x = e.text
      OBVIOUS
    <3>3. q = Pieced(page, x) /\ IsPage(Pieced(page, x))
      BY <2>1, <3>1, <3>2, PieceRead
    <3>4. q.thread = page.thread /\ q.done = page.done
      BY <3>1, <3>3, PieceRead
    <3>5. q.run.id = page.run.id /\ q.run.out = page.run.out \o x /\ q.run.seen = TRUE
      BY <3>1, <3>3, PieceRead
    <3>6. q.run.final = page.run.final /\ q.run.hints = page.run.hints
      BY <3>1, <3>3, PieceRead
    <3> QED
      BY <3>2, <3>3, <3>4, <3>5, <3>6
  <2> QED
    BY <1>6, <2>2, <2>3
<1> HIDE DEF q, out
<1>9. page'.run = q.run /\ page'.done = page.done
  <2>1. SameRuns(q, WriteReply(q, q.run.out))
    BY <1>8, WriteReplySame
  <2> QED
    BY <1>1, <1>8, <2>1 DEF SameRuns
<1>10. RunRead(page.run, g, Now)'
  <2>1. FailureHeard(r)' <=> FailureHeard(r)
    <3>1. ~IsFailure(e, r)
      BY DEF IsFailure
    <3> QED
      BY <1>0, <3>1, FailureNext
  <2>2. g[r] > 0 /\ out = TextUpTo(r, g[r])
    BY <1>5 DEF out
  <2> QED
    BY <1>3, <1>5, <1>8, <1>9, <2>1, <2>2 DEF RunRead
<1>11. TextHeard(g)' = [text EXCEPT ![r] = out]
  <2>1. ~EndHeard(r)
    BY <1>2, <1>3, <1>5 DEF Now
  <2>2. \A x : WellEnded(x)' <=> WellEnded(x)
    BY <1>1, <1>2 DEF WellEnded
  <2>3. ~WellEnded(r)
    BY <2>1 DEF WellEnded
  <2>4. [text EXCEPT ![r] = out] = [x \in Runs |-> IF x = r THEN out ELSE text[x]]
    BY DEF text, TextHeard
  <2>5. ASSUME NEW x \in Runs
        PROVE  (IF g[x] > 1 THEN TextUpTo(x, g[x])
                ELSE IF g[x] = 1 /\ WellEnded(x)' THEN Fallback ELSE <<>>)
                 = IF x = r THEN out ELSE text[x]
    <3>1. CASE x # r
      BY <1>5, <2>2, <3>1 DEF TextHeard
    <3>2. CASE x = r /\ h[r] = 0
      BY <1>5, <1>7, <2>2, <2>3, <3>2
    <3>3. CASE x = r /\ h[r] # 0
      <4>1. g[x] > 1 /\ TextUpTo(x, g[x]) = out
        BY <1>5, <3>3 DEF out
      <4> QED
        BY <3>3, <4>1
    <3> QED
      BY <3>1, <3>2, <3>3
  <2>6. TextHeard(g)' = [x \in Runs |-> IF g[x] > 1 THEN TextUpTo(x, g[x])
                          ELSE IF g[x] = 1 /\ WellEnded(x)' THEN Fallback ELSE <<>>]
    BY DEF TextHeard
  <2> HIDE DEF text
  <2> QED
    BY <2>4, <2>5, <2>6
<1>12. text \in [Runs -> Seq(Nat \X Nat)] /\ \A x \in Runs : text[x] # <<>> => x <= r /\ h[x] > 0
  <2>1. text \in [Runs -> Seq(Nat \X Nat)] /\ \A x \in Runs : text[x] # <<>> => h[x] > 0
    BY <1>0, TextTyped
  <2>2. \A x \in Runs : text[x] # <<>> => x <= r
    BY <1>0, <1>2, <1>6, TextBefore
  <2> QED
    BY <2>1, <2>2
<1> HIDE DEF text
<1>13. ShowsText(page.thread.timeline, TextHeard(g), Now)'
  <2>1. CASE h[r] = 0
    <3>1. out = <<>> /\ text[r] = <<>>
      <4>1. ~(h[r] > 0)
        BY <2>1
      <4> QED
        BY <1>2, <1>7, <1>12, <2>1, <4>1
    <3>2. [text EXCEPT ![r] = out] = text
      BY <1>12, <3>1
    <3>3. page'.thread.timeline = page.thread.timeline
      BY <1>1, <1>8, <3>1
    <3> QED
      BY <1>3, <1>6, <1>11, <3>2, <3>3
  <2>2. CASE h[r] # 0
    <3>1. out # <<>> /\ out \in Seq(Nat \X Nat)
      BY <1>7, <2>2
    <3>2. page'.thread.timeline = Upserted(page.thread.timeline, 0, out)
      <4>1. page' = WriteReply(q, out)
        BY <1>1, <1>8, <3>1
      <4>2. WriteReply(q, out).thread.timeline = Upserted(q.thread.timeline, 0, out)
        BY <1>0, <1>8, ReplyWritten
      <4> QED
        BY <1>8, <4>1, <4>2
    <3>3. ShowsText(Upserted(page.thread.timeline, 0, out), [text EXCEPT ![r] = out], r)
      BY <1>2, <1>6, <1>12, <3>1, UpsertedShown
    <3> QED
      BY <1>3, <1>11, <3>2, <3>3
  <2> QED
    BY <2>1, <2>2
<1>14. DoneHeard'
  BY <1>0, <1>9, DoneOn
<1> QED
  BY <1>4, <1>5, <1>10, <1>13, <1>14 DEF ShowsHeard, ShownWith

(* An event that ends no run changes nothing of what the others came to.   *)
LEMMA MiddleSame ==
  ASSUME ServerInv, StreamInv, Runs \subseteq Nat,
         NEW e, NEW surface, NEW active, Heard(e, surface, active), e.type \notin EndTypes, NEW h
  PROVE  TextHeard(h)' = TextHeard(h)
<1>1. \A x : EndHeard(x)' <=> EndHeard(x)
  BY HeardFacts
<1>2. runs' = runs
  BY DEF Heard
<1> QED
  BY <1>1, <1>2, TextSame DEF WellEnded

LEMMA Targeted ==
  ASSUME NEW p, IsPage(p), NEW e, p.run.id = e.run
  PROVE  LET q == TargetDone(p, e)
         IN /\ IsPage(q) /\ q.thread = p.thread /\ q.done = p.done
            /\ q.run.id = p.run.id /\ q.run.out = p.run.out /\ q.run.seen = p.run.seen
            /\ q.run.final = p.run.final /\ (q.run.hints <=> p.run.hints \/ ~e.ok)
<1>1. EnsureRun(p, e.run) = p
  BY DEF EnsureRun
<1> QED
  BY <1>1 DEF TargetDone, IsPage

LEMMA TargetShown ==
  ASSUME ServerInv, StreamInv, LogWritten, Runs \subseteq Nat \ {0},
         NEW e, NEW surface, NEW active, NEW h, Hears(e, surface, active, h),
         e.type = "target.done"
  PROVE  DoneHeard' /\ ShowsHeard'
<1> DEFINE r == e.run
<1>0. Runs \subseteq Nat /\ Heard(e, surface, active) /\ IsPage(page) /\ page.thread.listed
      /\ DoneHeard /\ h \in [Runs -> Nat] /\ ShownWith(h)
  BY DEF Hears
<1>1. page' = TargetDone(page, e)
  BY <1>0 DEF Heard, HandleSessionEvent
<1>2. r \in Runs /\ e.type # "assistant.delta" /\ e.type \notin EndTypes /\ r # 0
  BY <1>0, HeardFacts DEF EndTypes
<1>3. Now = r /\ Now' = r
  BY <1>0, NowFacts
<1>4. /\ RunRead(page.run, h, r) /\ Spoke(h)
      /\ ShowsText(page.thread.timeline, TextHeard(h), r)
  BY <1>0, <1>3 DEF ShownWith
<1>5. /\ page.run.id = r /\ page.run.out = TextUpTo(r, h[r]) /\ ~page.run.final
      /\ page.run.seen <=> h[r] > 0
      /\ page.run.hints <=> FailureHeard(r)
  BY <1>2, <1>4 DEF RunRead
<1>6. /\ IsPage(page') /\ page'.thread = page.thread /\ page'.done = page.done
      /\ page'.run.id = r /\ page'.run.out = page.run.out /\ page'.run.seen = page.run.seen
      /\ page'.run.final = page.run.final /\ (page'.run.hints <=> page.run.hints \/ ~e.ok)
  BY <1>0, <1>1, <1>5, Targeted
<1>7. FailureHeard(r)' <=> FailureHeard(r) \/ ~e.ok
  <2>1. FailureHeard(r)' <=> FailureHeard(r) \/ IsFailure(e, r)
    BY <1>0, FailureNext
  <2>2. IsFailure(e, r) <=> ~e.ok
    BY DEF IsFailure
  <2> QED
    BY <2>1, <2>2
<1> HIDE DEF r
<1>8. RunRead(page.run, h, Now)'
  <2>1. /\ page'.run.id = r /\ page'.run.out = TextUpTo(r, h[r]) /\ ~page'.run.final
        /\ page'.run.seen <=> h[r] > 0
    BY <1>5, <1>6
  <2>2. page'.run.hints <=> FailureHeard(r)'
    BY <1>5, <1>6, <1>7
  <2> QED
    BY <1>2, <1>3, <2>1, <2>2 DEF RunRead
<1>9. Spoke(h)' /\ TextHeard(h)' = TextHeard(h)
  BY <1>0, <1>2, <1>4, SpokeOn, MiddleSame
<1>10. ShowsText(page.thread.timeline, TextHeard(h), Now)'
  BY <1>3, <1>4, <1>6, <1>9
<1>11. DoneHeard'
  BY <1>0, <1>6, DoneOn
<1> QED
  BY <1>0, <1>8, <1>9, <1>10, <1>11 DEF ShowsHeard, ShownWith

(* The reply of a job is completed after its end, and nothing is read.     *)
LEMMA ReplyShown ==
  ASSUME ServerInv, StreamInv, LogWritten, Runs \subseteq Nat \ {0},
         NEW e, NEW surface, NEW active, NEW h, Hears(e, surface, active, h),
         e.type = "assistant.completed"
  PROVE  DoneHeard' /\ ShowsHeard'
<1> DEFINE q == EnsureRun(page, e.run)
<1>0. Runs \subseteq Nat /\ Heard(e, surface, active) /\ IsPage(page) /\ page.thread.listed
      /\ DoneHeard /\ h \in [Runs -> Nat] /\ ShownWith(h)
  BY DEF Hears
<1>1. page' = AssistantCompleted(page, e)
  BY <1>0 DEF Heard, HandleSessionEvent
<1>2. e.type # "assistant.delta" /\ e.type \notin EndTypes
  BY DEF EndTypes
<1>3. Now = 0 /\ Now' = 0
  BY <1>0, NowFacts
<1>4. Blank(page.run) /\ Spoke(h) /\ ShowsText(page.thread.timeline, TextHeard(h), 0)
  BY <1>0, <1>3 DEF ShownWith, RunRead
<1>5. Reads(page, q, e.run) /\ q.thread = page.thread /\ q.done = page.done /\ Blank(q.run)
  <2>1. Reads(page, q, e.run)
    BY <1>0, RunEnsured
  <2>2. q.thread = page.thread /\ Blank(q.run)
    BY <1>0, <1>4 DEF EnsureRun, IsPage, Blank, NoRun
  <2> QED
    BY <2>1, <2>2 DEF Reads
<1>6. page' = [q EXCEPT !.run.final = FALSE]
  BY <1>1, <1>5 DEF AssistantCompleted, Blank
<1> HIDE DEF q
<1>7. page'.thread = page.thread /\ page'.done = page.done /\ Blank(page'.run)
  BY <1>5, <1>6 DEF Reads, IsPage, Blank
<1>8. Spoke(h)' /\ TextHeard(h)' = TextHeard(h)
  BY <1>0, <1>2, <1>4, SpokeOn, MiddleSame
<1>9. RunRead(page.run, h, Now)'
  BY <1>3, <1>7 DEF RunRead, Blank
<1>10. ShowsText(page.thread.timeline, TextHeard(h), Now)'
  BY <1>3, <1>4, <1>7, <1>8
<1>11. DoneHeard'
  BY <1>0, <1>7, DoneOn
<1> QED
  BY <1>0, <1>8, <1>9, <1>10, <1>11 DEF ShowsHeard, ShownWith

(* The end of a run that leaves the page with the replies that were heard. *)
LEMMA OverShown ==
  ASSUME ServerInv, StreamInv, LogWritten, Runs \subseteq Nat \ {0}, MaxDone \in Nat,
         NEW e, NEW surface, NEW active, NEW h, Hears(e, surface, active, h),
         e.type \in EndTypes, NEW status, Over(page, page', e.run, status),
         ShowsText(page'.thread.timeline, TextHeard(h)', 0)
  PROVE  DoneHeard' /\ ShowsHeard'
<1>0. Runs \subseteq Nat /\ Heard(e, surface, active) /\ IsPage(page)
      /\ DoneHeard /\ h \in [Runs -> Nat] /\ Spoke(h)
  BY DEF Hears, ShownWith
<1>1. e.run \in Runs /\ e.type # "assistant.delta"
  BY <1>0, HeardFacts DEF EndTypes
<1>2. Now' = 0
  BY <1>0, NowFacts
<1>3. page'.run = NoRun /\ page'.done = Marked(page.done, e.run) /\ page.done \in Seq(Runs)
  BY <1>0 DEF Over, IsPage
<1>4. DoneHeard'
  <2>1. \A x : Contains(page'.done, x) => x = e.run \/ Contains(page.done, x)
    BY <1>1, <1>3, MarkedIs
  <2> QED
    BY <1>0, <2>1, DoneOn
<1>5. RunRead(page.run, h, Now)'
  BY <1>2, <1>3 DEF RunRead, Blank, NoRun
<1>6. Spoke(h)'
  BY <1>0, <1>1, SpokeOn
<1>7. ShowsText(page.thread.timeline, TextHeard(h), Now)'
  BY <1>2
<1> QED
  BY <1>0, <1>4, <1>5, <1>6, <1>7 DEF ShowsHeard, ShownWith

(* What the page has when it hears of the end of r.                        *)
LEMMA BeforeEnd ==
  ASSUME ServerInv, StreamInv, LogWritten, Runs \subseteq Nat \ {0},
         NEW e, NEW surface, NEW active, NEW h, Hears(e, surface, active, h),
         e.type \in EndTypes
  PROVE  /\ e.run \in Runs /\ e.run # 0
         /\ runs' = runs /\ runs[e.run].state = StateOf(e.type)
         /\ TextHeard(h) \in [Runs -> Seq(Nat \X Nat)]
         /\ ShowsText(page.thread.timeline, TextHeard(h), Now)
         /\ EndHeard(e.run) => Now = 0
         /\ ~EndHeard(e.run) => Now = e.run
         /\ Now = 0 => Blank(page.run)
         /\ Now # 0 => /\ page.run.id = e.run /\ ~page.run.final
                       /\ page.run.out = TextUpTo(e.run, h[e.run])
                       /\ page.run.seen <=> h[e.run] > 0
                       /\ page.run.hints <=> FailureHeard(e.run)
         /\ page.run.seen \/ Now = 0 \/ TextHeard(h)[Now] = <<>>
         /\ \A x : EndHeard(x)' <=> EndHeard(x) \/ x = e.run
<1> DEFINE r == e.run
<1>0. Runs \subseteq Nat /\ Heard(e, surface, active)
      /\ h \in [Runs -> Nat] /\ ShownWith(h)
  BY DEF Hears
<1>1. /\ cursor + 1 \in 1..Len(log) /\ r \in Runs /\ r # 0
      /\ \A x : EndHeard(x)' <=> EndHeard(x) \/ x = e.run
  BY <1>0, HeardFacts
<1>2. runs' = runs /\ e = log[cursor + 1]
  BY <1>0 DEF Heard
<1>3. runs[r].state = StateOf(e.type)
  BY <1>1, <1>2 DEF ServerInv, LoggedRuns
<1>4. (EndHeard(r) => Now = 0) /\ (~EndHeard(r) => Now = r)
  BY <1>0, NowFacts
<1>5. RunRead(page.run, h, Now) /\ ShowsText(page.thread.timeline, TextHeard(h), Now)
  BY <1>0 DEF ShownWith
<1>6. /\ TextHeard(h) \in [Runs -> Seq(Nat \X Nat)]
      /\ \A x \in Runs : TextHeard(h)[x] # <<>> => h[x] > 0
  BY <1>0, TextTyped
<1> HIDE DEF r
<1>7. Now = 0 => Blank(page.run)
  BY <1>5 DEF RunRead
<1>8. Now # 0 => /\ Now = r /\ page.run.id = r /\ ~page.run.final
                 /\ page.run.out = TextUpTo(r, h[r])
                 /\ page.run.seen <=> h[r] > 0
                 /\ page.run.hints <=> FailureHeard(r)
  BY <1>4, <1>5 DEF RunRead
<1>9. page.run.seen \/ Now = 0 \/ TextHeard(h)[Now] = <<>>
  BY <1>1, <1>6, <1>8
<1> QED
  BY <1>1, <1>2, <1>3, <1>4, <1>5, <1>6, <1>7, <1>8, <1>9 DEF r

LEMMA BrokenHeard ==
  ASSUME ServerInv, StreamInv, LogWritten, Runs \subseteq Nat \ {0}, MaxDone \in Nat,
         NoBody = <<>>,
         NEW e, NEW surface, NEW active, NEW h, Hears(e, surface, active, h),
         e.type \in {"run.failed", "run.canceled"}
  PROVE  DoneHeard' /\ ShowsHeard'
<1> DEFINE r == e.run
           text == TextHeard(h)
<1>0. Heard(e, surface, active) /\ IsPage(page) /\ page.thread.listed
  BY DEF Hears
<1>1. PICK status \in {"failed", "canceled"} :
        page' = RunBroken(page, e, status, surface, active)
  BY <1>0 DEF Heard, HandleSessionEvent
<1>2. e.type \in EndTypes /\ status # "" /\ StateOf(e.type) # "succeeded"
  BY DEF EndTypes, StateOf
<1>3. /\ r \in Runs /\ r # 0
      /\ runs' = runs /\ runs[r].state = StateOf(e.type)
      /\ text \in [Runs -> Seq(Nat \X Nat)]
      /\ ShowsText(page.thread.timeline, text, Now)
      /\ EndHeard(r) => Now = 0
      /\ ~EndHeard(r) => Now = r
      /\ Now # 0 => page.run.id = r
      /\ page.run.seen \/ Now = 0 \/ text[Now] = <<>>
      /\ \A x : EndHeard(x)' <=> EndHeard(x) \/ x = r
  BY <1>2, BeforeEnd
<1>4. TextHeard(h)' = text
  <2>1. \A x : WellEnded(x)' <=> WellEnded(x)
    BY <1>2, <1>3 DEF WellEnded
  <2> QED
    BY <2>1, TextSame
<1>5. Now = 0 \/ Now \in Runs
  BY <1>3
<1>6. Now = 0 \/ (page.run.id = e.run /\ (page.run.seen \/ text[Now] = <<>>))
  BY <1>3
<1> HIDE DEF text
<1>7. PICK now : now = Now
  OBVIOUS
<1>8. ShowsText(page'.thread.timeline, text, 0)
  BY <1>0, <1>1, <1>2, <1>3, <1>5, <1>6, <1>7, BrokenShown
<1>9. Over(page, page', e.run, status)
  BY <1>0, <1>1, <1>2, <1>3, BrokenPage
<1> QED
  BY <1>2, <1>4, <1>8, <1>9, OverShown

(* The hints of a failure are of a run that did not go well.               *)
LEMMA FailureTold ==
  ASSUME ServerInv, StreamInv, LogWritten, Runs \subseteq Nat \ {0},
         NEW e, NEW surface, NEW active, Heard(e, surface, active), e.type \in EndTypes
  PROVE  FailureHeard(e.run) <=> ~runs[e.run].ok
<1>0. cursor + 1 \in 1..Len(log) /\ cursor \in Nat /\ e = log[cursor + 1] /\ Len(log) \in Nat
  BY HeardFacts DEF Heard, ServerInv, ServerTyped
<1>1. ASSUME FailureHeard(e.run) PROVE ~runs[e.run].ok
  <2>1. PICK k \in 1..cursor : IsFailure(log[k], e.run)
    BY <1>1 DEF FailureHeard
  <2>2. k \in 1..Len(log)
    BY <1>0
  <2> QED
    BY <2>1, <2>2 DEF IsFailure, ServerInv, LoggedRuns
<1>2. ASSUME ~runs[e.run].ok PROVE FailureHeard(e.run)
  <2>1. PICK j \in 1..((cursor + 1) - 1) : IsFailure(log[j], e.run)
    BY <1>0, <1>2 DEF LogWritten, EndsTold
  <2>2. j \in 1..cursor
    BY <1>0
  <2> QED
    BY <2>1, <2>2 DEF FailureHeard
<1> QED
  BY <1>1, <1>2

LEMMA FailedCompletion ==
  ASSUME NEW p, IsPage(p), NEW e, e.run \in Runs, NEW surface, NEW active, MaxDone \in Nat,
         ~Contains(p.done, e.run), p.run.hints
  PROVE  RunCompleted(p, e, surface, active).thread.timeline
           = AddEntry(IF p.run.seen THEN EndReply(p, "error", NoBody) ELSE p,
                      "failed", NoBody).thread.timeline
<1> DEFINE ended == IF p.run.seen THEN EndReply(p, "error", NoBody) ELSE p
           a == AddEntry(ended, "failed", NoBody)
           failed == SetJob(a, 0, "failed")
<1>1. SameRuns(p, ended)
  BY EndReplySame DEF SameRuns
<1>2. IsPage(a)
  <2> HIDE DEF ended
  <2>1. SameRuns(ended, a)
    BY <1>1, AddEntrySame DEF SameRuns
  <2> HIDE DEF a
  <2> QED BY <2>1 DEF SameRuns
<1>3. IsPage(failed) /\ failed.thread.timeline = a.thread.timeline
  <2> HIDE DEF a
  <2>1. JobSet(a, failed, 0, "failed")
    BY <1>2, SetJobSets
  <2> QED
    BY <1>2, <2>1, JobKeeps DEF JobSet
<1>4. RunCompleted(p, e, surface, active)
        = DeleteRun(MarkSessionDone(failed, e.run, "failed", surface, active))
  BY DEF RunCompleted, HasCompletedRun
<1> HIDE DEF failed, a
<1>5. RunCompleted(p, e, surface, active).thread.timeline = a.thread.timeline
  BY <1>3, <1>4, DoneKeeps
<1> QED
  BY <1>5 DEF a

LEMMA GoodCompletion ==
  ASSUME NEW p, IsPage(p), NEW e, e.run \in Runs, NEW surface, NEW active, MaxDone \in Nat,
         ~Contains(p.done, e.run), ~p.run.hints
  PROVE  RunCompleted(p, e, surface, active).thread.timeline
           = ReplyCompleted(SetJob(p, 0, "succeeded")).thread.timeline
<1> DEFINE done == SetJob(p, 0, "succeeded")
           succeeded == ReplyCompleted(done)
<1>1. JobSet(p, done, 0, "succeeded")
  BY SetJobSets
<1>2. IsPage(succeeded)
  <2> HIDE DEF done
  <2> QED BY <1>1, ReplyCompletedSame DEF JobSet, SameRuns
<1>3. RunCompleted(p, e, surface, active)
        = DeleteRun(MarkSessionDone(succeeded, e.run, "succeeded", surface, active))
  BY DEF RunCompleted, HasCompletedRun
<1> HIDE DEF succeeded
<1>4. RunCompleted(p, e, surface, active).thread.timeline = succeeded.thread.timeline
  BY <1>2, <1>3, DoneKeeps
<1> QED
  BY <1>4 DEF succeeded

LEMMA CompletedHeard ==
  ASSUME ServerInv, StreamInv, LogWritten, Runs \subseteq Nat \ {0}, MaxDone \in Nat,
         NoBody = <<>>,
         NEW e, NEW surface, NEW active, NEW h, Hears(e, surface, active, h),
         e.type = "run.completed"
  PROVE  DoneHeard' /\ ShowsHeard'
<1> DEFINE r == e.run
           text == TextHeard(h)
           p == SetJob(page, 0, "succeeded")
<1>0. /\ Runs \subseteq Nat /\ Heard(e, surface, active) /\ IsPage(page) /\ page.thread.listed
      /\ DoneHeard /\ h \in [Runs -> Nat] /\ Spoke(h)
  BY DEF Hears, ShownWith
<1>1. page' = RunCompleted(page, e, surface, active)
  BY <1>0 DEF Heard, HandleSessionEvent
<1>2. e.type \in EndTypes /\ StateOf(e.type) = "succeeded" /\ e.type # "assistant.delta"
  BY DEF EndTypes, StateOf
<1>3. /\ r \in Runs /\ r # 0
      /\ runs' = runs /\ runs[r].state = "succeeded"
      /\ text \in [Runs -> Seq(Nat \X Nat)]
      /\ ShowsText(page.thread.timeline, text, Now)
      /\ EndHeard(r) => Now = 0
      /\ ~EndHeard(r) => Now = r
      /\ Now = 0 => Blank(page.run)
      /\ Now # 0 => /\ page.run.id = r /\ ~page.run.final
                    /\ page.run.out = TextUpTo(r, h[r])
                    /\ page.run.seen <=> h[r] > 0
                    /\ page.run.hints <=> FailureHeard(r)
      /\ page.run.seen \/ Now = 0 \/ text[Now] = <<>>
      /\ \A x : EndHeard(x)' <=> EndHeard(x) \/ x = r
  BY <1>2, BeforeEnd
<1>4. FailureHeard(r) <=> ~runs[r].ok
  BY <1>0, <1>2, FailureTold
<1>5. \A x : WellEnded(x)' <=> WellEnded(x) \/ (x = r /\ runs[r].ok)
  BY <1>3 DEF WellEnded
<1> HIDE DEF text, r
<1>6. CASE Contains(page.done, r)
  <2>1. EndHeard(r) /\ Now = 0
    BY <1>0, <1>3, <1>6 DEF DoneHeard
  <2>2. page' = page
    BY <1>1, <1>6 DEF RunCompleted, HasCompletedRun, r
  <2>3. TextHeard(h)' = text
    <3>1. \A x : WellEnded(x)' <=> WellEnded(x)
      BY <1>3, <1>5, <2>1 DEF WellEnded
    <3> QED
      BY <3>1, TextSame DEF text
  <2>4. Now' = 0
    BY <1>0, <1>2, NowFacts
  <2>5. DoneHeard'
    BY <1>0, <2>2, DoneOn
  <2>6. Spoke(h)'
    BY <1>0, <1>2, SpokeOn
  <2>7. RunRead(page.run, h, Now)'
    BY <1>3, <2>1, <2>2, <2>4 DEF RunRead, Blank
  <2>8. ShowsText(page.thread.timeline, TextHeard(h), Now)'
    BY <1>3, <2>1, <2>2, <2>3, <2>4
  <2> QED
    BY <1>0, <2>5, <2>6, <2>7, <2>8 DEF ShowsHeard, ShownWith
<1>7. CASE ~Contains(page.done, r)
  <2>1. Over(page, page', e.run, IF page.run.hints THEN "failed" ELSE "succeeded")
    BY <1>0, <1>1, <1>3, <1>7, CompletedPage DEF r
  <2>2. ShowsText(page'.thread.timeline, TextHeard(h)', 0)
    <3>1. CASE EndHeard(r)
      <4>1. Now = 0 /\ Blank(page.run) /\ ShowsText(page.thread.timeline, text, 0)
        BY <1>3, <3>1
      <4>2. TextHeard(h)' = text
        <5>1. \A x : WellEnded(x)' <=> WellEnded(x)
          BY <1>3, <1>5, <3>1 DEF WellEnded
        <5> QED
          BY <5>1, TextSame DEF text
      <4>3. page'.thread.timeline = ReplyCompleted(p).thread.timeline
        BY <1>0, <1>1, <1>3, <1>7, <4>1, GoodCompletion DEF Blank, r
      <4>4. JobSet(page, p, 0, "succeeded") /\ p.thread.timeline = page.thread.timeline
        BY <1>0, SetJobSets, JobKeeps
      <4> HIDE DEF p
      <4>5. ReplyCompleted(p) = p
        BY <4>1, <4>4 DEF JobSet, Blank, ReplyCompleted
      <4> QED
        BY <4>1, <4>2, <4>3, <4>4, <4>5
    <3>2. CASE ~EndHeard(r) /\ page.run.hints
      <4>1. Now = r /\ ~runs[r].ok
        BY <1>3, <1>4, <3>2
      <4>2. TextHeard(h)' = text
        <5>1. \A x : WellEnded(x)' <=> WellEnded(x)
          BY <1>5, <4>1
        <5> QED
          BY <5>1, TextSame DEF text
      <4>3. page'.thread.timeline
              = AddEntry(IF page.run.seen THEN EndReply(page, "error", NoBody) ELSE page,
                         "failed", NoBody).thread.timeline
        BY <1>0, <1>1, <1>3, <1>7, <3>2, FailedCompletion DEF r
      <4>4. PICK now : now = Now
        OBVIOUS
      <4>5. ShowsText(AddEntry(IF page.run.seen THEN EndReply(page, "error", NoBody) ELSE page,
                               "failed", NoBody).thread.timeline, text, 0)
        BY <1>0, <1>3, <4>1, <4>4, FailureShown
      <4> QED
        BY <4>2, <4>3, <4>5
    <3>3. CASE ~EndHeard(r) /\ ~page.run.hints
      <4>1. Now = r /\ runs[r].ok /\ ~WellEnded(r)
        BY <1>3, <1>4, <3>3 DEF WellEnded
      <4>2. page'.thread.timeline = ReplyCompleted(p).thread.timeline
        BY <1>0, <1>1, <1>3, <1>7, <3>3, GoodCompletion DEF r
      <4>3. JobSet(page, p, 0, "succeeded") /\ p.thread.timeline = page.thread.timeline
        BY <1>0, SetJobSets, JobKeeps
      <4> HIDE DEF p
      <4>4. /\ IsPage(p) /\ p.thread.listed /\ ~p.run.final /\ p.run.out = TextUpTo(r, h[r])
            /\ p.run.seen <=> h[r] > 0
            /\ ShowsText(p.thread.timeline, text, r)
        BY <1>0, <1>3, <4>1, <4>3 DEF JobSet
      <4>5. /\ h[r] \in Nat /\ (TextUpTo(r, h[r]) = <<>> <=> h[r] <= 1)
            /\ text[r] = IF h[r] > 1 THEN TextUpTo(r, h[r]) ELSE <<>>
        <5>1. h[r] \in Nat
          BY <1>0, <1>3
        <5>2. TextUpTo(r, h[r]) = <<>> <=> h[r] <= 1
          BY <1>3, <5>1, TextFacts
        <5>3. text[r] = IF h[r] > 1 THEN TextUpTo(r, h[r]) ELSE <<>>
          BY <1>3, <4>1 DEF text, TextHeard
        <5> QED
          BY <5>1, <5>2, <5>3
      <4>6. p.run.out = text[r]
        BY <4>4, <4>5
      <4>7. p.run.out # <<>> => p.run.seen
        BY <4>4, <4>5
      <4>8. \A x \in Runs : text[x] # <<>> => x <= r
        <5>1. log[cursor].run = r
          BY <1>3, <4>1 DEF Now
        <5> QED
          BY <1>0, <5>1, TextBefore DEF text
      <4>9. ShowsText(ReplyCompleted(p).thread.timeline,
                      [text EXCEPT ![r] = IF p.run.out = <<>> /\ p.run.seen THEN Fallback ELSE @],
                      0)
        BY <1>3, <4>4, <4>6, <4>7, <4>8, SuccessShown
      <4>10. TextHeard(h)'
               = [text EXCEPT ![r] = IF p.run.out = <<>> /\ p.run.seen THEN Fallback ELSE @]
        <5> DEFINE b == IF p.run.out = <<>> /\ p.run.seen THEN Fallback ELSE text[r]
        <5>1. \A x \in Runs : x # r => (WellEnded(x)' <=> WellEnded(x))
          BY <1>5
        <5>2. WellEnded(r)'
          BY <1>5, <4>1
        <5>3. (IF h[r] > 1 THEN TextUpTo(r, h[r]) ELSE IF h[r] = 1 THEN Fallback ELSE <<>>) = b
          <6>1. CASE h[r] > 1
            BY <6>1, <4>4, <4>5
          <6>2. CASE h[r] = 1
            BY <6>2, <4>4, <4>5
          <6>3. CASE h[r] = 0
            BY <6>3, <4>4, <4>5
          <6> QED
            BY <4>5, <6>1, <6>2, <6>3
        <5> HIDE DEF b
        <5>4. TextHeard(h)' = [x \in Runs |-> IF h[x] > 1 THEN TextUpTo(x, h[x])
                                ELSE IF h[x] = 1 /\ WellEnded(x)' THEN Fallback ELSE <<>>]
          BY DEF TextHeard
        <5>5. text = [x \in Runs |-> IF h[x] > 1 THEN TextUpTo(x, h[x])
                        ELSE IF h[x] = 1 /\ WellEnded(x) THEN Fallback ELSE <<>>]
          BY DEF text, TextHeard
        <5>6. [text EXCEPT ![r] = b] = [x \in Runs |-> IF x = r THEN b ELSE text[x]]
          BY <1>3
        <5>7. ASSUME NEW x \in Runs
              PROVE (IF h[x] > 1 THEN TextUpTo(x, h[x])
                     ELSE IF h[x] = 1 /\ WellEnded(x)' THEN Fallback ELSE <<>>)
                      = IF x = r THEN b ELSE text[x]
          <6>1. CASE x = r
            BY <6>1, <5>2, <5>3
          <6>2. CASE x # r
            BY <6>2, <5>1, <5>5
          <6> QED
            BY <6>1, <6>2
        <5>8. TextHeard(h)' = [text EXCEPT ![r] = b]
          BY <5>4, <5>6, <5>7
        <5> QED
          BY <5>8 DEF b
      <4> QED
        BY <4>2, <4>9, <4>10
    <3> QED
      BY <3>1, <3>2, <3>3
  <2> QED
    BY <1>2, <2>1, <2>2, OverShown
<1> QED
  BY <1>6, <1>7

(* What is heard is shown, whichever event it is.                          *)
LEMMA EventShown ==
  ASSUME ServerInv, StreamInv, LogWritten, Runs \subseteq Nat \ {0}, MaxDone \in Nat,
         NoBody = <<>>, IsPage(page), page.thread.listed, DoneHeard, ShowsHeard,
         NEW e, NEW surface, NEW active, Heard(e, surface, active)
  PROVE  DoneHeard' /\ ShowsHeard'
<1>1. PICK h \in [Runs -> Nat] : ShownWith(h)
  BY DEF ShowsHeard
<1>2. Hears(e, surface, active, h)
  BY <1>1 DEF Hears
<1>3. e.type \in EventTypes
  <2>1. Runs \subseteq Nat
    OBVIOUS
  <2> QED
    BY <2>1, HeardFacts
<1>4. \/ e.type = "run.started" \/ e.type = "assistant.delta" \/ e.type = "assistant.completed"
      \/ e.type = "target.done" \/ e.type = "run.completed"
      \/ e.type \in {"run.failed", "run.canceled"}
  BY <1>3 DEF EventTypes, EndTypes
<1> QED
  BY <1>2, <1>4, StartShown, DeltaShown, ReplyShown, TargetShown, CompletedHeard, BrokenHeard

-----------------------------------------------------------------------------
(* The steps that hear nothing.                                            *)

(* What is logged later changes nothing of what was heard.                 *)
LEMMA HeardStays ==
  ASSUME ServerInv, StreamInv, Grows, cursor' = cursor, NEW h
  PROVE  /\ Now' = Now
         /\ \A r : EndHeard(r)' <=> EndHeard(r)
         /\ \A r : FailureHeard(r)' <=> FailureHeard(r)
         /\ Spoke(h) => Spoke(h)'
         /\ TextHeard(h)' = TextHeard(h)
<1>1. \A k \in 1..cursor : k \in 1..Len(log) /\ log'[k] = log[k]
  BY DEF StreamInv, ServerInv, ServerTyped, Grows
<1>2. \A r : (EndHeard(r)' <=> EndHeard(r)) /\ (FailureHeard(r)' <=> FailureHeard(r))
  BY <1>1 DEF EndHeard, FailureHeard
<1>3. cursor > 0 => log'[cursor] = log[cursor]
  <2>1. cursor > 0 => cursor \in 1..cursor
    BY DEF StreamInv
  <2> QED
    BY <1>1, <2>1
<1>4. Now' = Now
  BY <1>2, <1>3 DEF Now
<1>5. Spoke(h) => Spoke(h)'
  BY <1>1, SpokeSame
<1>6. ASSUME NEW r \in Runs PROVE WellEnded(r)' <=> WellEnded(r)
  <2>1. EndHeard(r) => runs[r].state \in Ended
    <3>1. SUFFICES ASSUME NEW k \in 1..cursor, log[k].run = r, log[k].type \in EndTypes
                   PROVE  runs[r].state \in Ended
      BY DEF EndHeard
    <3>2. runs[r].state = StateOf(log[k].type)
      BY <1>1, <3>1 DEF ServerInv, LoggedRuns
    <3> QED
      BY <3>2 DEF StateOf, Ended
  <2>2. runs[r].state \in Ended => runs'[r].state = runs[r].state /\ runs'[r].ok = runs[r].ok
    BY DEF Grows
  <2> QED
    BY <1>2, <2>1, <2>2 DEF WellEnded
<1>7. TextHeard(h)' = TextHeard(h)
  BY <1>6, TextSame
<1> QED
  BY <1>2, <1>4, <1>5, <1>7

(* A page that shows what it showed, and entries that are no replies.      *)
Keeps ==
  /\ page'.done = page.done
  /\ page'.run = page.run \/ (Blank(page'.run) /\ Now = 0)
  /\ \/ page'.thread.timeline = page.thread.timeline
     \/ \E e \in Entries : /\ e.kind # "assistant"
                           /\ page'.thread.timeline = Append(page.thread.timeline, e)

LEMMA KeepsShown ==
  ASSUME ServerInv, StreamInv, Grows, cursor' = cursor, DoneHeard, ShowsHeard, Keeps
  PROVE  DoneHeard' /\ ShowsHeard'
<1>1. PICK h \in [Runs -> Nat] : ShownWith(h)
  BY DEF ShowsHeard
<1>2. /\ Now' = Now
      /\ \A r : EndHeard(r)' <=> EndHeard(r)
      /\ \A r : FailureHeard(r)' <=> FailureHeard(r)
      /\ Spoke(h)' /\ TextHeard(h)' = TextHeard(h)
  BY <1>1, HeardStays DEF ShownWith
<1>3. DoneHeard'
  BY <1>2 DEF DoneHeard, Keeps
<1>4. RunRead(page.run, h, Now)'
  <2>1. CASE page'.run = page.run
    BY <1>1, <1>2, <2>1 DEF ShownWith, RunRead
  <2>2. CASE Blank(page'.run) /\ Now = 0
    BY <1>2, <2>2 DEF RunRead, Blank
  <2> QED
    BY <2>1, <2>2 DEF Keeps
<1>5. ShowsText(page'.thread.timeline, TextHeard(h), Now)
  <2>1. PICK of : ShownAs(page.thread.timeline, of, TextHeard(h), Now)
    BY <1>1 DEF ShownWith, ShowsText
  <2>2. CASE page'.thread.timeline = page.thread.timeline
    BY <2>1, <2>2 DEF ShowsText
  <2>3. CASE \E e \in Entries : /\ e.kind # "assistant"
                                /\ page'.thread.timeline = Append(page.thread.timeline, e)
    <3>1. PICK e \in Entries : /\ e.kind # "assistant"
                               /\ page'.thread.timeline = Append(page.thread.timeline, e)
      BY <2>3
    <3>2. ShownAs(Append(page.thread.timeline, e), of, TextHeard(h), Now)
      BY <2>1, <3>1, OtherShown
    <3> QED
      BY <3>1, <3>2 DEF ShowsText
  <2> QED
    BY <2>2, <2>3 DEF Keeps
<1> QED
  BY <1>1, <1>2, <1>3, <1>4, <1>5 DEF ShowsHeard, ShownWith

LEMMA KeepsInv ==
  ASSUME ServerInv, StreamInv, Grows, ShownInv, cursor' = cursor, exact' => exact,
         auth' = auth, page'.thread.listed = page.thread.listed,
         exact /\ page.thread.listed /\ exact' => Keeps,
         exact /\ Blank(page.run) /\ exact' => Blank(page'.run)
  PROVE  ShownInv'
<1>1. exact' /\ page'.thread.listed => DoneHeard' /\ ShowsHeard'
  BY KeepsShown DEF ShownInv
<1>2. exact' /\ cursor' = 0 => Blank(page'.run)
  BY DEF ShownInv
<1> QED
  BY <1>1, <1>2 DEF ShownInv

(* The page is as it was.                                                  *)
LEMMA SamePage ==
  ASSUME ServerInv, StreamInv, Grows, ShownInv, UNCHANGED <<page, cursor, exact, auth>>
  PROVE  ShownInv'
<1>1. Keeps
  BY DEF Keeps
<1> QED
  BY <1>1, KeepsInv

(* Nothing was heard, and nothing is shown.                                *)
LEMMA NoTextShown ==
  /\ ShowsText(<<>>, [r \in Runs |-> <<>>], 0)
  /\ \A x : ~Contains(<<>>, x)
<1>1. Replies(<<>>) = {}
  BY DEF Replies
<1>2. ShownAs(<<>>, [i \in {} |-> 0], [r \in Runs |-> <<>>], 0)
  BY <1>1 DEF ShownAs
<1> QED
  BY <1>2 DEF ShowsText, Contains

LEMMA NothingHeard ==
  ASSUME cursor' = 0, Blank(page'.run), page'.thread.timeline = <<>>, page'.done = <<>>
  PROVE  DoneHeard' /\ ShowsHeard'
<1> DEFINE h == [r \in Runs |-> 0]
<1>1. h \in [Runs -> Nat] /\ \A r \in Runs : h[r] = 0
  OBVIOUS
<1>2. DoneHeard'
  BY NoTextShown DEF DoneHeard
<1>3. Spoke(h)'
  <2>1. \A r, n : ~Spoken(r, n)'
    BY DEF Spoken
  <2>2. \A n \in Nat \ {0} : ~(n <= 0)
    OBVIOUS
  <2> QED
    BY <1>1, <2>1, <2>2 DEF Spoke
<1>4. Now' = 0
  BY DEF Now
<1>5. TextHeard(h)' = [r \in Runs |-> <<>>]
  BY <1>1 DEF TextHeard
<1> HIDE DEF h
<1>6. ShownWith(h)'
  BY <1>3, <1>4, <1>5, NoTextShown DEF ShownWith, RunRead, Blank
<1> QED
  BY <1>1, <1>2, <1>6 DEF ShowsHeard

LEMMA ShownInit ==
  ASSUME Init
  PROVE  ShownInv
<1> DEFINE h == [r \in Runs |-> 0]
<1>0. /\ cursor = 0 /\ page.run = NoRun /\ page.thread.timeline = <<>> /\ page.done = <<>>
      /\ auth = "ready"
  BY DEF Init, NewPage, Unlisted
<1>1. h \in [Runs -> Nat] /\ \A r \in Runs : h[r] = 0
  OBVIOUS
<1>2. DoneHeard
  BY <1>0, NoTextShown DEF DoneHeard
<1>3. Spoke(h)
  <2>1. \A r, n : ~Spoken(r, n)
    BY <1>0 DEF Spoken
  <2>2. \A n \in Nat \ {0} : ~(n <= 0)
    OBVIOUS
  <2> QED
    BY <1>1, <2>1, <2>2 DEF Spoke
<1>4. Now = 0 /\ Blank(page.run)
  BY <1>0 DEF Now, Blank, NoRun
<1>5. TextHeard(h) = [r \in Runs |-> <<>>]
  BY <1>1 DEF TextHeard
<1> HIDE DEF h
<1>6. ShownWith(h)
  BY <1>0, <1>3, <1>4, <1>5, NoTextShown DEF ShownWith, RunRead, Blank
<1> QED
  BY <1>0, <1>1, <1>2, <1>4, <1>6 DEF ShowsHeard, ShownInv

LEMMA LogInit ==
  ASSUME Init
  PROVE  LogWritten
<1>1. log = <<>> /\ Len(log) = 0
  BY DEF Init
<1>2. \A r \in Runs : runs[r].pieces = 0 /\ runs[r].ok = TRUE
  BY DEF Init
<1>3. PiecesWritten /\ PiecesInOrder
  BY <1>1, <1>2 DEF PiecesWritten, PiecesInOrder
<1>4. EndsLast /\ EndsTold /\ Outcomes
  BY <1>1, <1>2 DEF EndsLast, EndsTold, Outcomes
<1> QED
  BY <1>3, <1>4 DEF LogWritten

(* An event puts the session neither into the tree nor out of it.          *)
LEMMA ListedHeard ==
  ASSUME ServerInv, StreamInv, Runs \subseteq Nat, MaxDone \in Nat, IsPage(page),
         NEW e, NEW surface, NEW active, Heard(e, surface, active)
  PROVE  page'.thread.listed = page.thread.listed
<1>1. e.run \in Runs /\ e.type \in EventTypes
  BY HeardFacts
<1>2. page' = HandleSessionEvent(page, e, surface, active)
  BY DEF Heard
<1>3. CASE e.type = "run.started"
  <2>1. page' = RunStarted(page, e)
    BY <1>2, <1>3 DEF HandleSessionEvent
  <2> QED
    BY <2>1, StartedPage
<1>4. CASE e.type = "assistant.delta"
  <2>1. page' = AssistantDelta(page, e)
    BY <1>2, <1>4 DEF HandleSessionEvent
  <2> QED
    BY <2>1, DeltaPage DEF Reads
<1>5. CASE e.type = "assistant.completed"
  <2>1. page' = AssistantCompleted(page, e)
    BY <1>2, <1>5 DEF HandleSessionEvent
  <2> QED
    BY <2>1, CompletedReplyPage DEF Reads
<1>6. CASE e.type = "target.done"
  <2>1. page' = TargetDone(page, e)
    BY <1>2, <1>6 DEF HandleSessionEvent
  <2> QED
    BY <2>1, TargetDonePage
<1>7. CASE e.type \in {"run.failed", "run.canceled"}
  <2>1. PICK status \in {"failed", "canceled"} :
          page' = RunBroken(page, e, status, surface, active)
    BY <1>2, <1>7 DEF HandleSessionEvent
  <2>2. Over(page, RunBroken(page, e, status, surface, active), e.run, status)
    BY <1>1, BrokenPage
  <2> QED
    BY <2>1, <2>2 DEF Over
<1>8. CASE e.type = "run.completed"
  <2>1. page' = RunCompleted(page, e, surface, active)
    BY <1>2, <1>8 DEF HandleSessionEvent
  <2>2. PICK q : q = RunCompleted(page, e, surface, active)
    OBVIOUS
  <2>3. IF Contains(page.done, e.run) THEN q = page
        ELSE Over(page, q, e.run, IF page.run.hints THEN "failed" ELSE "succeeded")
    BY <1>1, <2>2, CompletedPage
  <2>4. ASSUME NEW status, Over(page, q, e.run, status)
        PROVE  q.thread.listed = page.thread.listed
    BY <2>4 DEF Over
  <2> QED
    BY <2>1, <2>2, <2>3, <2>4
<1> QED
  BY <1>1, <1>3, <1>4, <1>5, <1>6, <1>7, <1>8 DEF EventTypes, EndTypes

LEMMA OnlyServed ==
  ASSUME [Next]_vars
  PROVE  ServerNext \/ Accept \/ UNCHANGED <<log, runs>>
<1>1. StreamNext => UNCHANGED <<log, runs>>
  BY DEF StreamNext, OpenSocket, OpenEvents, Connect, FallBack, Deliver, Ready, Close, Reset, Idle,
         Reconnect, server
<1>2. Render => UNCHANGED <<log, runs>>
  BY DEF Render, server
<1>3. UserNext => UNCHANGED <<log, runs>>
  BY DEF UserNext, Leave, Relist, Look, ClearAlerts, Refresh, Reload, Logout, Login, Stop, server
<1>4. SubmitNext => Accept \/ UNCHANGED <<log, runs>>
  <2>1. SendPrompt \/ Regenerate \/ (\E empty \in BOOLEAN : EditAndResend(empty))
          \/ (\E scoped \in BOOLEAN : StartReview(scoped)) => UNCHANGED <<log, runs>>
    BY DEF SendPrompt, Regenerate, EditAndResend, StartReview, Submit, Notice, Tried, server
  <2>2. TurnAccepted \/ ReviewAccepted \/ TurnRefused \/ ReviewRefused => UNCHANGED <<log, runs>>
    BY DEF TurnAccepted, ReviewAccepted, Running, TurnRefused, ReviewRefused, NotRunning, server
  <2> QED
    BY <2>1, <2>2 DEF SubmitNext
<1>5. PollNext => UNCHANGED <<log, runs>>
  BY DEF PollNext, Poll, PollAnswered, PollLands, server
<1>6. UNCHANGED vars => UNCHANGED <<log, runs>>
  BY DEF vars
<1> QED
  BY <1>1, <1>2, <1>3, <1>4, <1>5, <1>6 DEF Next

LEMMA WrittenStep ==
  ASSUME RunsInv, LogWritten, Runs \subseteq Nat \ {0}, [Next]_vars
  PROVE  LogWritten'
<1>0. ServerInv
  BY DEF RunsInv
<1>1. CASE ServerNext
  <2>1. PICK r \in Runs :
          \/ Start(r)
          \/ Emit(r)
          \/ \E how \in Ended, ok \in BOOLEAN : End(r, how, ok)
          \/ Settle(r)
          \/ Recover(r)
    BY <1>1 DEF ServerNext
  <2>2. Start(r) => Begin(r)
    BY DEF Start
  <2> QED
    BY <1>0, <2>1, <2>2, BeginWritten, EmitWritten, EndWritten, SettleWritten, RecoverWritten
<1>2. CASE Accept
  BY <1>0, <1>2, BeginWritten DEF Accept
<1>3. CASE UNCHANGED <<log, runs>>
  <2>1. \A k \in 1..Len(log) : log[k].run \in Runs
    BY <1>0, LoggedRun
  <2> QED
    BY <1>3, <2>1, NothingWritten
<1> QED
  BY <1>1, <1>2, <1>3, OnlyServed

LEMMA GrownStep ==
  ASSUME RunsInv, Runs \subseteq Nat \ {0}, [Next]_vars
  PROVE  Grows
<1>0. ServerInv /\ Runs \subseteq Nat
  BY DEF RunsInv
<1>1. CASE ServerNext
  <2>1. PICK r \in Runs :
          \/ Start(r)
          \/ Emit(r)
          \/ \E how \in Ended, ok \in BOOLEAN : End(r, how, ok)
          \/ Settle(r)
          \/ Recover(r)
    BY <1>1 DEF ServerNext
  <2>2. Start(r) => Begin(r)
    BY DEF Start
  <2> QED
    BY <1>0, <2>1, <2>2, BeginServer, EmitServer, EndServer, SettleServer, RecoverServer
<1>2. CASE Accept
  BY <1>0, <1>2, BeginServer DEF Accept
<1>3. CASE UNCHANGED <<log, runs>>
  BY <1>0, <1>3, NothingServed
<1> QED
  BY <1>1, <1>2, <1>3, OnlyServed

(* What is written on the page besides.                                    *)
LEMMA EntryKeeps ==
  ASSUME IsPage(page), NEW kind \in {"user", "notice", "failed"}, NoBody = <<>>,
         page' = AddEntry(page, kind, NoBody)
  PROVE  /\ page'.thread.listed = page.thread.listed /\ page'.run = page.run
         /\ page.thread.listed => Keeps
<1>1. SameRuns(page, AddEntry(page, kind, NoBody))
  BY AddEntrySame
<1>2. page'.thread.listed = page.thread.listed /\ page'.run = page.run /\ page'.done = page.done
  BY <1>1 DEF SameRuns
<1>3. Entry(0, kind, "none", NoBody) \in Entries /\ Entry(0, kind, "none", NoBody).kind # "assistant"
  BY DEF Entry, Entries, EntryStates
<1>4. kind # "assistant"
  OBVIOUS
<1>5. page.thread.listed =>
        page'.thread.timeline = Append(page.thread.timeline, Entry(0, kind, "none", NoBody))
  BY <1>4, EntryAdded
<1> QED
  BY <1>2, <1>3, <1>5 DEF Keeps

LEMMA StreamShown ==
  ASSUME RunsInv, LogWritten, ShownInv, Runs \subseteq Nat \ {0}, MaxDone \in Nat, NoBody = <<>>,
         StreamNext
  PROVE  ShownInv'
<1>0. ServerInv /\ StreamInv /\ IsPage(page) /\ Runs \subseteq Nat
  BY DEF RunsInv, Shaped
<1>1. [Next]_vars
  BY DEF Next
<1>2. Grows
  BY <1>1, GrownStep
<1>3. UNCHANGED <<exact, auth>>
  BY DEF StreamNext, OpenSocket, OpenEvents, Connect, FallBack, Deliver, Ready, Close, Reset, Idle,
         Reconnect, ghosts
<1>4. CASE UNCHANGED <<page, cursor>>
  BY <1>0, <1>2, <1>3, <1>4, SamePage
<1>5. ASSUME stream.phase = "open" PROVE Max2(cursor, stream.sent) = cursor
  BY <1>0, <1>5 DEF Max2, StreamInv
<1>6. CASE Ready \/ Reset
  BY <1>4, <1>5, <1>6 DEF Ready, Reset
<1>7. CASE Deliver
  <2> DEFINE k == stream.sent + 1
             surface == (stream.ready \/ ~stream.suppress) /\ AfterCutoff(k)
  <2>1. CASE k <= cursor
    BY <1>4, <1>7, <2>1 DEF Deliver, Replayed
  <2>2. CASE ~(k <= cursor)
    <3>1. /\ stream.phase = "open" /\ stream.sent < Len(log) /\ cursor' = k
          /\ page' = HandleSessionEvent(page, log[k], surface, Active)
          /\ UNCHANGED <<log, runs, settled>>
      BY <1>7, <2>2 DEF Deliver, Replayed, server, ghosts
    <3>2. k = cursor + 1 /\ cursor' > 0 /\ cursor < Len(log)
      BY <1>0, <2>2, <3>1 DEF StreamInv
    <3>3. Heard(log[k], surface, Active)
      BY <3>1, <3>2 DEF Heard
    <3>4. PICK e, s, a : e = log[k] /\ Heard(e, s, a)
      BY <3>3
    <3> HIDE DEF k, surface
    <3>5. page'.thread.listed = page.thread.listed
      BY <1>0, <3>4, ListedHeard
    <3>6. exact' /\ page'.thread.listed => DoneHeard' /\ ShowsHeard'
      BY <1>0, <1>3, <3>4, <3>5, EventShown DEF ShownInv
    <3> QED
      BY <1>3, <3>2, <3>5, <3>6 DEF ShownInv
  <2> QED
    BY <2>1, <2>2
<1>8. CASE OpenSocket \/ OpenEvents \/ FallBack \/ (\E broken \in BOOLEAN : Close(broken))
           \/ Idle \/ Reconnect
  BY <1>4, <1>8 DEF OpenSocket, OpenEvents, Connect, FallBack, Close, Idle, Reconnect
<1> QED
  BY <1>6, <1>7, <1>8 DEF StreamNext

LEMMA RenderShown ==
  ASSUME RunsInv, ShownInv, Runs \subseteq Nat \ {0}, Render
  PROVE  ShownInv'
<1>0. ServerInv /\ StreamInv /\ IsPage(page)
  BY DEF RunsInv, Shaped
<1>1. UNCHANGED <<exact, auth>> /\ UNCHANGED <<log, runs>>
  BY DEF Render, ghosts, server
<1>2. Grows
  BY <1>0, <1>1, NothingServed
<1>3. CASE page.thread.listed
  <2>1. auth = "ready"
    BY <1>3 DEF ShownInv
  <2>2. UNCHANGED <<page, cursor>>
    BY <1>3, <2>1 DEF Render
  <2> QED
    BY <1>0, <1>1, <1>2, <2>2, SamePage
<1>4. CASE ~page.thread.listed
  <2>1. page' = Stopped(page)
    BY <1>4 DEF Render
  <2>2. page'.run = NoRun /\ page'.thread = page.thread
    BY <1>0, <2>1 DEF Stopped, IsPage
  <2>3. Blank(page'.run)
    BY <2>2 DEF Blank, NoRun
  <2> QED
    BY <1>1, <1>4, <2>2, <2>3 DEF ShownInv
<1> QED
  BY <1>3, <1>4

LEMMA CorrectedKeeps ==
  ASSUME NEW p, IsPage(p), ServerInv, Runs \subseteq Nat
  PROVE  LET q == Corrected(p)
         IN /\ q.thread.timeline = p.thread.timeline /\ q.run = p.run /\ q.done = p.done
            /\ q.thread.listed = p.thread.listed
<1> DEFINE job == IF Status = "running" THEN Latest ELSE 0
<1>1. Corrects(p, Corrected(p))
  BY CorrectedPage
<1>2. SetJob(p, job, Status).thread.timeline = p.thread.timeline
  BY JobKeeps
<1>3. Corrected(p) = p \/ Corrected(p) = SetJob(p, job, Status)
  BY DEF Corrected
<1> QED
  BY <1>1, <1>2, <1>3 DEF Corrects

(* A session that comes back shows nothing when nothing was heard.         *)
LEMMA BackShown ==
  ASSUME ShownInv, IsPage(page), auth' = "ready", cursor' = cursor,
         exact' => exact /\ cursor = 0 /\ page.done = <<>>,
         page'.run = page.run \/ Blank(page'.run),
         page'.thread.timeline = <<>>, page'.done = page.done
  PROVE  ShownInv'
<1>1. exact' /\ cursor' = 0 => Blank(page'.run)
  BY DEF ShownInv
<1>2. exact' => DoneHeard' /\ ShowsHeard'
  BY <1>1, NothingHeard
<1> QED
  BY <1>1, <1>2 DEF ShownInv

LEMMA UserShown ==
  ASSUME RunsInv, ShownInv, Runs \subseteq Nat \ {0}, NoBody = <<>>, UserNext
  PROVE  ShownInv'
<1>0. /\ ServerInv /\ StreamInv /\ IsPage(page) /\ Runs \subseteq Nat
      /\ DOMAIN seen = {"listed", "timeline", "job", "last", "unread"}
  BY DEF RunsInv, Shaped
<1>1. Grows
  <2>1. [Next]_vars
    BY DEF Next
  <2> QED
    BY <2>1, GrownStep
<1>2. CASE Leave
  <2>1. /\ UNCHANGED <<cursor, exact, auth>> /\ page' = [page EXCEPT !.thread = Unlisted]
    BY <1>2 DEF Leave, ghosts
  <2>2. page'.run = page.run /\ ~page'.thread.listed
    BY <1>0, <2>1 DEF IsPage, Unlisted
  <2> QED
    BY <2>1, <2>2 DEF ShownInv
<1>3. CASE Relist
  <2>1. /\ auth = "ready" /\ UNCHANGED <<cursor, auth>>
        /\ page' = [page EXCEPT !.thread = [Unlisted EXCEPT !.listed = TRUE]]
        /\ exact' => exact /\ page.done = <<>> /\ cursor = 0
    BY <1>3 DEF Relist
  <2>2. page'.run = page.run /\ page'.thread.timeline = <<>> /\ page'.done = page.done
    BY <1>0, <2>1 DEF IsPage, Unlisted
  <2> QED
    BY <1>0, <2>1, <2>2, BackShown
<1>4. CASE \E where \in {"open", "ops", "other"} : Look(where)
  <2>1. UNCHANGED <<cursor, exact, auth>>
    BY <1>4 DEF Look, ghosts
  <2>2. /\ page'.run = page.run /\ page'.done = page.done
        /\ page'.thread.timeline = page.thread.timeline
        /\ page'.thread.listed = page.thread.listed
    BY <1>0, <1>4 DEF Look, WithThread, IsPage
  <2>3. Keeps
    BY <2>2 DEF Keeps
  <2> QED
    BY <1>0, <1>1, <2>1, <2>2, <2>3, KeepsInv
<1>5. CASE ClearAlerts
  <2>1. UNCHANGED <<cursor, exact, auth>>
    BY <1>5 DEF ClearAlerts, ghosts
  <2>2. page'.run = page.run /\ page'.done = page.done /\ page'.thread = page.thread
    BY <1>0, <1>5 DEF ClearAlerts, IsPage
  <2>3. Keeps
    BY <2>2 DEF Keeps
  <2> QED
    BY <1>0, <1>1, <2>1, <2>2, <2>3, KeepsInv
<1>6. CASE Refresh
  <2>1. UNCHANGED <<cursor, exact, auth>> /\ page' = Corrected(page)
    BY <1>6 DEF Refresh
  <2>2. /\ page'.run = page.run /\ page'.done = page.done
        /\ page'.thread.timeline = page.thread.timeline
        /\ page'.thread.listed = page.thread.listed
    BY <1>0, <2>1, CorrectedKeeps
  <2>3. Keeps
    BY <2>2 DEF Keeps
  <2> QED
    BY <1>0, <1>1, <2>1, <2>2, <2>3, KeepsInv
<1>7. CASE Reload
  <2> DEFINE o == [NewPage EXCEPT !.thread = seen, !.done = page.done, !.told = page.told]
  <2>1. /\ UNCHANGED <<cursor, auth>> /\ page' = Corrected(o) /\ auth = "ready"
        /\ exact' => exact /\ seen = page.thread /\ page.run = NoRun
    BY <1>7 DEF Reload
  <2>2. IsPage(o) /\ o.done = page.done /\ o.thread = seen /\ o.run = NoRun
    BY <1>0 DEF IsPage, NewPage, NoRun
  <2> HIDE DEF o
  <2>3. /\ page'.run = NoRun /\ page'.done = page.done
        /\ page'.thread.timeline = seen.timeline
        /\ page'.thread.listed = seen.listed
    BY <1>0, <2>1, <2>2, CorrectedKeeps
  <2>4. CASE exact'
    <3>1. exact /\ page'.thread.listed = page.thread.listed /\ Keeps /\ Blank(page'.run)
      BY <2>1, <2>3, <2>4 DEF Keeps, Blank, NoRun
    <3> QED
      BY <1>0, <1>1, <2>1, <3>1, KeepsInv
  <2>5. CASE ~exact'
    BY <2>1, <2>5 DEF ShownInv
  <2> QED
    BY <2>4, <2>5
<1>8. CASE Logout
  <2>1. page' = NewPage /\ auth' = "locked"
    BY <1>8 DEF Logout
  <2>2. page'.run = NoRun /\ ~page'.thread.listed
    BY <2>1 DEF NewPage, Unlisted
  <2> QED
    BY <2>1, <2>2 DEF ShownInv, Blank, NoRun
<1>9. CASE Login
  <2> DEFINE o == [Stopped(page) EXCEPT !.thread = [Unlisted EXCEPT !.listed = TRUE],
                                        !.told = NewPage.told]
  <2>1. /\ auth' = "ready" /\ cursor' = cursor /\ page' = Corrected(o)
        /\ exact' => exact /\ cursor = 0 /\ page.done = <<>>
    BY <1>9 DEF Login
  <2>2. IsPage(o) /\ o.done = page.done /\ o.run = NoRun /\ o.thread.timeline = <<>>
    BY <1>0 DEF IsPage, NewPage, NoRun, Unlisted, Stopped
  <2> HIDE DEF o
  <2>3. page'.run = NoRun /\ page'.done = page.done /\ page'.thread.timeline = <<>>
    BY <1>0, <2>1, <2>2, CorrectedKeeps
  <2>4. Blank(page'.run)
    BY <2>3 DEF Blank, NoRun
  <2> QED
    BY <1>0, <2>1, <2>3, <2>4, BackShown
<1>10. CASE Stop
  <2>1. UNCHANGED <<cursor, exact, auth>> /\ page' = AddEntry(page, "notice", NoBody)
    BY <1>10 DEF Stop, ghosts
  <2>2. /\ page'.thread.listed = page.thread.listed /\ page'.run = page.run
        /\ page.thread.listed => Keeps
    BY <1>0, <2>1, EntryKeeps
  <2> QED
    BY <1>0, <1>1, <2>1, <2>2, KeepsInv
<1> QED
  BY <1>2, <1>3, <1>4, <1>5, <1>6, <1>7, <1>8, <1>9, <1>10 DEF UserNext

(* The run that the answer tells of is the one that is read, or none is.   *)
LEMMA TimelyReads ==
  ASSUME ServerInv, StreamInv, Runs \subseteq Nat \ {0}, NEW r \in Runs, runs[r].state # "none",
         Timely(r), ShowsHeard
  PROVE  page.run.id = r \/ (Blank(page.run) /\ Now = 0)
<1>0. Runs \subseteq Nat /\ cursor \in Nat /\ cursor <= Len(log) /\ Len(log) \in Nat
      /\ DOMAIN log = 1..Len(log)
  BY DEF StreamInv, ServerInv, ServerTyped
<1>1. PICK h \in [Runs -> Nat] : RunRead(page.run, h, Now)
  BY DEF ShowsHeard, ShownWith
<1>2. CASE Now = 0
  BY <1>1, <1>2 DEF RunRead
<1>3. CASE Now # 0
  <2>1. cursor > 0 /\ Now = log[cursor].run /\ ~EndHeard(Now)
    BY <1>3 DEF Now
  <2>2. cursor \in 1..cursor /\ cursor \in 1..Len(log)
    BY <1>0, <2>1
  <2>3. Now \in Runs /\ Now <= r
    BY <2>1, <2>2, LoggedRun DEF Timely
  <2>4. PICK l \in Runs : l = Now /\ l <= r /\ l \in Nat /\ r \in Nat
    BY <1>0, <2>3
  <2>5. CASE l < r
    <3>1. runs[l].state \in Ended
      BY <2>4, <2>5 DEF ServerInv, OneAtATime
    <3>2. PICK k \in 1..Len(log) : log[k].run = l /\ log[k].type \in EndTypes
      BY <3>1 DEF ServerInv, RunsLogged
    <3>3. k <= cursor
      BY <1>0, <2>5, <3>2 DEF Timely
    <3>4. k \in 1..cursor
      BY <1>0, <3>2, <3>3
    <3>5. EndHeard(l)
      BY <3>2, <3>4 DEF EndHeard
    <3> QED
      BY <2>1, <2>4, <3>5
  <2>6. CASE l = r
    BY <1>1, <1>3, <2>4, <2>6 DEF RunRead
  <2> QED
    BY <2>4, <2>5, <2>6
<1> QED
  BY <1>2, <1>3

LEMMA AnsweredShown ==
  ASSUME RunsInv, ShownInv, Runs \subseteq Nat \ {0}, NEW r, r = submit.run, Running(r)
  PROVE  ShownInv'
<1> DEFINE q == EnsureRun(page, r)
<1>0. ServerInv /\ StreamInv /\ IsPage(page) /\ SubmitInv
  BY DEF RunsInv, Shaped
<1>1. /\ UNCHANGED <<log, runs, cursor, auth>>
      /\ page' = SetJob(q, r, "running")
      /\ exact' => exact /\ Timely(r)
  BY DEF Running, server
<1>2. Grows
  BY <1>0, <1>1, NothingServed
<1>3. r \in Runs /\ runs[r].state # "none"
  BY <1>0 DEF Running, SubmitInv
<1>4. /\ Reads(page, q, r) /\ q.thread = page.thread
      /\ page.run.id = r => q.run = page.run
      /\ Blank(page.run) => Blank(q.run)
  <2>1. Reads(page, q, r)
    BY <1>0, RunEnsured
  <2>2. /\ q.thread = page.thread
        /\ page.run.id = r => q.run = page.run
        /\ Blank(page.run) => Blank(q.run)
    BY <1>0 DEF EnsureRun, IsPage, Blank, NoRun
  <2> QED
    BY <2>1, <2>2
<1> HIDE DEF q
<1>5. /\ page'.run = q.run /\ page'.done = page.done
      /\ page'.thread.listed = page.thread.listed
      /\ page'.thread.timeline = page.thread.timeline
  <2>1. JobSet(q, SetJob(q, r, "running"), r, "running")
    BY <1>4, SetJobSets DEF Reads
  <2>2. SetJob(q, r, "running").thread.timeline = q.thread.timeline
    BY <1>4, JobKeeps DEF Reads
  <2> QED
    BY <1>1, <1>4, <2>1, <2>2 DEF JobSet, Reads
<1>6. ASSUME exact, page.thread.listed, exact' PROVE Keeps
  <2>1. page.run.id = r \/ (Blank(page.run) /\ Now = 0)
    BY <1>0, <1>1, <1>3, <1>6, TimelyReads DEF ShownInv
  <2>2. page'.run = page.run \/ (Blank(page'.run) /\ Now = 0)
    BY <1>4, <1>5, <2>1
  <2> QED
    BY <1>5, <2>2 DEF Keeps
<1>7. Blank(page.run) => Blank(page'.run)
  BY <1>4, <1>5
<1> QED
  BY <1>0, <1>1, <1>2, <1>5, <1>6, <1>7, KeepsInv

LEMMA RefusedShown ==
  ASSUME RunsInv, ShownInv, Runs \subseteq Nat \ {0}, NoBody = <<>>, TurnRefused \/ ReviewRefused
  PROVE  ShownInv'
<1>0. ServerInv /\ StreamInv /\ IsPage(page) /\ Runs \subseteq Nat
  BY DEF RunsInv, Shaped
<1>1. PICK p \in {page, EndReply(page, "error", NoBody)} : NotRunning(p)
  BY DEF TurnRefused, ReviewRefused
<1>2. SameRuns(page, page) /\ SameRuns(page, EndReply(page, "error", NoBody))
  BY <1>0, EndReplySame DEF SameRuns
<1>3. SameRuns(page, p)
  BY <1>1, <1>2
<1> DEFINE a == AddEntry(p, "failed", NoBody)
           e == Entry(0, "failed", "none", NoBody)
<1>4. /\ UNCHANGED <<log, runs, cursor, auth>>
      /\ page' = SetJob(a, 0, "failed")
      /\ exact' => exact /\ page.run = NoRun
  BY <1>1 DEF NotRunning, server
<1>5. Grows
  BY <1>0, <1>4, NothingServed
<1>6. SameRuns(p, a) /\ (p.thread.listed => a.thread.timeline = Append(p.thread.timeline, e))
  <2>1. IsPage(p)
    BY <1>3 DEF SameRuns
  <2> QED
    BY <2>1, AddEntrySame, EntryAdded
<1>7. e \in Entries /\ e.kind # "assistant"
  BY DEF Entry, Entries, EntryStates
<1> HIDE DEF a, e
<1>8. /\ page'.run = page.run /\ page'.done = page.done
      /\ page'.thread.listed = page.thread.listed
      /\ page'.thread.timeline = a.thread.timeline
  <2>1. IsPage(a)
    BY <1>6 DEF SameRuns
  <2>2. JobSet(a, SetJob(a, 0, "failed"), 0, "failed")
    BY <2>1, SetJobSets
  <2>3. SetJob(a, 0, "failed").thread.timeline = a.thread.timeline
    BY <2>1, JobKeeps
  <2> QED
    BY <1>3, <1>4, <1>6, <2>2, <2>3 DEF SameRuns, JobSet
<1>9. ASSUME exact, page.thread.listed, exact' PROVE Keeps
  <2>1. page.run = NoRun
    BY <1>4, <1>9
  <2>2. PICK h \in [Runs -> Nat] : ShownWith(h)
    BY <1>9 DEF ShownInv, ShowsHeard
  <2>3. Now = 0
    BY <2>1, <2>2 DEF ShownWith, RunRead, NoRun
  <2>4. ShowsText(page.thread.timeline, TextHeard(h), 0) /\ 0 \notin Runs
    BY <2>2, <2>3 DEF ShownWith
  <2>5. Finalized(page.thread.timeline, 0, "error", NoBody) = page.thread.timeline
    BY <1>0, <2>4, NothingFinalized
  <2>6. EndReply(page, "error", NoBody).thread.timeline = page.thread.timeline
    BY <1>0, <1>9, <2>5, ReplyEnded
  <2>7. p.thread.timeline = page.thread.timeline /\ p.thread.listed
    BY <1>1, <1>3, <1>9, <2>6 DEF SameRuns
  <2>8. page'.thread.timeline = Append(page.thread.timeline, e)
    BY <1>6, <1>8, <2>7
  <2> QED
    BY <1>7, <1>8, <2>8 DEF Keeps
<1> QED
  BY <1>0, <1>4, <1>5, <1>8, <1>9, KeepsInv

LEMMA SubmitShown ==
  ASSUME RunsInv, ShownInv, Runs \subseteq Nat \ {0}, NoBody = <<>>, SubmitNext
  PROVE  ShownInv'
<1>0. ServerInv /\ StreamInv /\ IsPage(page)
  BY DEF RunsInv, Shaped
<1>1. Grows
  <2>1. [Next]_vars
    BY DEF Next
  <2> QED
    BY <2>1, GrownStep
<1>2. CASE SendPrompt \/ Regenerate \/ (\E empty \in BOOLEAN : EditAndResend(empty))
           \/ (\E scoped \in BOOLEAN : StartReview(scoped))
  <2>1. UNCHANGED <<cursor, exact, auth>>
    BY <1>2 DEF SendPrompt, Regenerate, EditAndResend, StartReview, Submit, Notice, Tried, ghosts
  <2>2. page' = page \/ (\E kind \in {"user", "notice", "failed"} :
                           page' = AddEntry(page, kind, NoBody))
    BY <1>2 DEF SendPrompt, Regenerate, EditAndResend, StartReview, Submit, Notice, Tried
  <2>3. CASE page' = page
    BY <1>0, <1>1, <2>1, <2>3, SamePage
  <2>4. ASSUME NEW kind \in {"user", "notice", "failed"}, page' = AddEntry(page, kind, NoBody)
        PROVE  ShownInv'
    <3>1. /\ page'.thread.listed = page.thread.listed /\ page'.run = page.run
          /\ page.thread.listed => Keeps
      BY <1>0, <2>4, EntryKeeps
    <3> QED
      BY <1>0, <1>1, <2>1, <3>1, KeepsInv
  <2> QED
    BY <2>2, <2>3, <2>4
<1>3. CASE Accept
  <2>1. UNCHANGED <<page, cursor, exact, auth>>
    BY <1>3 DEF Accept, ghosts
  <2> QED
    BY <1>0, <1>1, <2>1, SamePage
<1> QED
  BY <1>2, <1>3, AnsweredShown, RefusedShown DEF SubmitNext, TurnAccepted, ReviewAccepted

LEMMA PollShown ==
  ASSUME RunsInv, ShownInv, Runs \subseteq Nat \ {0}, MaxDone \in Nat, PollNext
  PROVE  ShownInv'
<1>0. ServerInv /\ StreamInv /\ IsPage(page) /\ PollsInv /\ Runs \subseteq Nat
  BY DEF RunsInv, Shaped
<1>1. CASE Poll \/ (\E ok \in BOOLEAN : PollAnswered(ok))
  <2>1. UNCHANGED <<log, runs>> /\ UNCHANGED <<page, cursor, exact, auth>>
    BY <1>1 DEF Poll, PollAnswered, ghosts, server
  <2>2. Grows
    BY <1>0, <2>1, NothingServed
  <2> QED
    BY <1>0, <2>1, <2>2, SamePage
<1>2. CASE PollLands
  <2>1. auth' = auth /\ ~exact'
    BY <1>2 DEF PollLands
  <2>2. PICK r \in Runs : \E ans : PolledTo(page, page', r, ans)
    BY <1>0, <1>2, PollLanded
  <2>3. page'.thread.listed = page.thread.listed
    BY <2>2 DEF PolledTo, JobOver
  <2> QED
    BY <2>1, <2>3 DEF ShownInv
<1> QED
  BY <1>1, <1>2 DEF PollNext

LEMMA ShownStep ==
  ASSUME RunsInv, LogWritten, ShownInv, Runs \subseteq Nat \ {0}, MaxDone \in Nat,
         NoBody = <<>>, [Next]_vars
  PROVE  ShownInv'
<1>0. ServerInv /\ StreamInv /\ Grows
  BY GrownStep DEF RunsInv
<1>1. CASE ServerNext
  <2>1. UNCHANGED <<page, cursor, exact, auth>>
    BY <1>1 DEF ServerNext, Start, Emit, End, Settle, Recover, ghosts
  <2> QED
    BY <1>0, <2>1, SamePage
<1>2. CASE UNCHANGED vars
  <2>1. UNCHANGED <<page, cursor, exact, auth>>
    BY <1>2 DEF vars
  <2> QED
    BY <1>0, <2>1, SamePage
<1> QED
  BY <1>1, <1>2, StreamShown, RenderShown, UserShown, SubmitShown, PollShown DEF Next

(* A page that has heard every event shows what was written.               *)
LEMMA FaithfulWhenHeard ==
  ASSUME RunsInv, LogWritten, ShownInv, Runs \subseteq Nat \ {0}
  PROVE  TimelineFaithful
<1> DEFINE timeline == page.thread.timeline
<1> SUFFICES ASSUME CaughtUp, exact, page.thread.listed
             PROVE  \E run \in [Replies(timeline) -> Answered] :
                      /\ \A i, j \in Replies(timeline) : i < j => run[i] < run[j]
                      /\ \A r \in Answered : \E i \in Replies(timeline) : run[i] = r
                      /\ \A i \in Replies(timeline) : timeline[i].body = ReplyOf(run[i])
  BY DEF TimelineFaithful
<1>0. ServerInv /\ Runs \subseteq Nat /\ cursor = Len(log) /\ cursor \in Nat
  BY DEF RunsInv, StreamInv, CaughtUp
<1>1. PICK h \in [Runs -> Nat] : ShownWith(h)
  BY DEF ShownInv, ShowsHeard
<1>2. PICK of : ShownAs(timeline, of, TextHeard(h), Now)
  BY <1>1 DEF ShownWith, ShowsText
<1>3. ASSUME NEW r \in Runs PROVE h[r] = runs[r].pieces /\ h[r] \in Nat
  <2>1. h[r] \in Nat /\ runs[r].pieces \in Nat
    <3>1. h[r] \in Nat
      BY <1>1
    <3>2. runs[r].pieces \in Nat
      BY <1>0 DEF ServerInv, ServerTyped, RunRecords
    <3> QED
      BY <3>1, <3>2
  <2>2. \A n \in Nat \ {0} : Spoken(r, n) <=> n <= h[r]
    BY <1>1 DEF ShownWith, Spoke
  <2>3. ASSUME NEW n \in Nat \ {0} PROVE Spoken(r, n) <=> n <= runs[r].pieces
    <3>1. ASSUME n <= runs[r].pieces PROVE Spoken(r, n)
      <4>1. n \in 1..runs[r].pieces
        BY <2>1, <3>1
      <4> QED
        BY <1>0, <4>1 DEF LogWritten, PiecesWritten, Spoken
    <3>2. ASSUME Spoken(r, n) PROVE n <= runs[r].pieces
      <4>1. PICK k \in 1..Len(log) : IsPiece(log[k], r, n)
        BY <1>0, <3>2 DEF Spoken
      <4>2. PICK m \in 1..runs[r].pieces : IsPiece(log[k], r, m)
        BY <4>1 DEF LogWritten, PiecesWritten, IsPiece
      <4>3. m \in Nat \ {0} /\ m <= runs[r].pieces
        BY <2>1
      <4>4. m = n
        BY <4>1, <4>2, <4>3, PieceNumber
      <4> QED
        BY <4>3, <4>4
    <3> QED
      BY <3>1, <3>2
  <2>4. h[r] > 0 => h[r] <= runs[r].pieces
    BY <2>1, <2>2, <2>3
  <2>5. runs[r].pieces > 0 => runs[r].pieces <= h[r]
    BY <2>1, <2>2, <2>3
  <2> QED
    BY <2>1, <2>4, <2>5
<1>4. ASSUME NEW r \in Runs PROVE EndHeard(r) <=> runs[r].state \in Ended
  <2>1. runs[r].state \in Ended => EndHeard(r)
    BY <1>0 DEF ServerInv, RunsLogged, EndHeard
  <2>2. ASSUME NEW k \in 1..cursor, log[k].run = r, log[k].type \in EndTypes
        PROVE  runs[r].state \in Ended
    <3>1. runs[r].state = StateOf(log[k].type)
      BY <1>0, <2>2 DEF ServerInv, LoggedRuns
    <3> QED
      BY <3>1 DEF StateOf, Ended
  <2> QED
    BY <2>1, <2>2 DEF EndHeard
<1>5. ASSUME NEW r \in Runs PROVE TextHeard(h)[r] = ReplyOf(r)
  <2>1. TextOf(r) = TextUpTo(r, h[r])
    BY <1>3 DEF TextOf, TextUpTo
  <2>2. TextOf(r) = <<>> <=> h[r] <= 1
    BY <1>3, <2>1, TextFacts
  <2>3. WellEnded(r) <=> runs[r].state = "succeeded" /\ runs[r].ok
    BY <1>4 DEF WellEnded, Ended
  <2>4. TextHeard(h)[r] = IF h[r] > 1 THEN TextUpTo(r, h[r])
                          ELSE IF h[r] = 1 /\ WellEnded(r) THEN Fallback ELSE <<>>
    BY DEF TextHeard
  <2>5. ReplyOf(r) = IF h[r] > 1 THEN TextUpTo(r, h[r])
                     ELSE IF h[r] > 0 /\ WellEnded(r) THEN Fallback ELSE <<>>
    <3>1. ReplyOf(r) = IF TextOf(r) # <<>> THEN TextOf(r)
                       ELSE IF h[r] > 0 /\ WellEnded(r) THEN Fallback ELSE <<>>
      BY <1>3, <2>3 DEF ReplyOf
    <3> QED
      BY <1>3, <2>1, <2>2, <3>1
  <2> QED
    BY <1>3, <2>4, <2>5
<1>6. Answered = {r \in Runs : TextHeard(h)[r] # <<>>}
  BY <1>5 DEF Answered
<1> HIDE DEF timeline
<1>7. of \in [Replies(timeline) -> Answered]
  BY <1>2, <1>6 DEF ShownAs
<1>8. \A i, j \in Replies(timeline) : i < j => of[i] < of[j]
  BY <1>2 DEF ShownAs
<1>9. \A r \in Answered : \E i \in Replies(timeline) : of[i] = r
  BY <1>2, <1>6 DEF ShownAs
<1>10. \A i \in Replies(timeline) : timeline[i].body = ReplyOf(of[i])
  <2>1. \A i \in Replies(timeline) : of[i] \in Runs /\ timeline[i].body = TextHeard(h)[of[i]]
    BY <1>2 DEF ShownAs
  <2> QED
    BY <1>5, <2>1
<1> QED
  BY <1>7, <1>8, <1>9, <1>10

(* When the stream has caught up, the timeline has one reply for every run *)
(* that was answered, complete and in the order of the runs, and no other, *)
(* whatever was replayed, reloaded, submitted and refused before, for      *)
(* every number of runs and of pieces: TimelineFaithful of WebRuns.        *)
THEOREM TimelineIsFaithful ==
  ASSUME Runs \subseteq Nat \ {0}, MaxDone \in Nat, NoBody = <<>>,
         \A s \in Scenarios : s.kinds \in [Runs -> {"turn", "job", "none"}]
  PROVE  Spec => []TimelineFaithful
<1> DEFINE Inv == RunsInv /\ LogWritten /\ ShownInv
<1>1. Init => Inv
  BY RunsInit, LogInit, ShownInit
<1>2. Inv /\ [Next]_vars => Inv'
  BY RunsStep, WrittenStep, ShownStep
<1>3. Inv => TimelineFaithful
  BY FaithfulWhenHeard
<1> HIDE DEF Inv
<1> QED
  BY <1>1, <1>2, <1>3, PTL DEF Spec

-----------------------------------------------------------------------------
(* The frames of the event stream.  EventStream is the transport below the *)
(* page, with state of its own.                                            *)
(*                                                                         *)
(* What a fold over a sequence computes cannot be proved by an induction   *)
(* theorem of the library, which takes the hypothesis as an operator.  The *)
(* smallest number for which a statement fails is used in its place.       *)

CONSTANTS Types, NumberedTypes, MaxFrames, MaxChunk

VARIABLES sent, wire, reader, phase

Source == INSTANCE EventStream WITH Numbered <- NumberedTypes

(* One piece is read.                                                      *)
Take(s, piece) ==
  IF piece = Source!Newline THEN Source!ConsumeLine([s EXCEPT !.line = <<>>], s.line)
  ELSE [s EXCEPT !.line = Append(@, piece)]

(* What a fold computes for each set of indices.                           *)
IsIter(g, D, r, s) ==
  g = [t \in SUBSET D |-> IF t = {} THEN r ELSE Take(g[t \ {Source!Max(t)}], s[Source!Max(t)])]

LEMMA Smallest ==
  ASSUME NEW T \in SUBSET Nat, T # {}
  PROVE  \E n \in T : \A m \in T : n <= m
<1>1. IsWellFoundedOn(OpToRel(<, Nat), Nat)
  BY NatLessThanWellFounded, Zenon
<1>2. OpToRel(<, Nat) = {ss \in Nat \X Nat : ss[1] < ss[2]}
  BY Zenon DEF OpToRel
<1>3. IsWellFoundedOn({ss \in Nat \X Nat : ss[1] < ss[2]}, Nat)
  BY ONLY <1>1, <1>2, Zenon
<1>4. PICK n \in T : \A m \in T : ~(<<m, n>> \in {ss \in Nat \X Nat : ss[1] < ss[2]})
  BY <1>3, WFMin
<1>5. ASSUME NEW m \in T PROVE n <= m
  <2>1. n \in Nat /\ m \in Nat
    OBVIOUS
  <2>2. <<m, n>> \in Nat \X Nat
    BY <2>1
  <2>3. PICK p : p = <<m, n>>
    OBVIOUS
  <2>4. p[1] = m /\ p[2] = n
    BY <2>3
  <2>5. m < n => p \in {ss \in Nat \X Nat : ss[1] < ss[2]}
    BY <2>2, <2>3, <2>4
  <2>6. ~(m < n)
    BY <1>4, <2>3, <2>5
  <2> QED
    BY <2>1, <2>6
<1> QED
  BY <1>5

LEMMA MaxIs ==
  ASSUME NEW n \in Nat, NEW t \in SUBSET (1..n), n \in t
  PROVE  Source!Max(t) = n
<1>1. \A y \in t : n >= y
  OBVIOUS
<1>2. \A x \in t : (\A y \in t : x >= y) => x = n
  OBVIOUS
<1> QED
  BY <1>1, <1>2 DEF Source!Max

LEMMA IterExists ==
  ASSUME NEW r, NEW s, NEW n \in Nat
  PROVE  \E g : IsIter(g, 1..n, r, s)
<1> DEFINE Bad == {m \in Nat : ~\E g : IsIter(g, 1..m, r, s)}
<1>1. 0 \notin Bad
  <2> DEFINE g == [t \in SUBSET (1..0) |-> r]
  <2>1. \A t \in SUBSET (1..0) : t = {}
    OBVIOUS
  <2>2. IsIter(g, 1..0, r, s)
    BY <2>1 DEF IsIter
  <2> QED
    BY <2>2
<1>2. ASSUME NEW m \in Nat, m \notin Bad PROVE m + 1 \notin Bad
  <2>1. PICK g : IsIter(g, 1..m, r, s)
    BY <1>2
  <2> DEFINE h == [t \in SUBSET (1..(m + 1)) |->
                     IF m + 1 \in t THEN Take(g[t \ {m + 1}], s[m + 1]) ELSE g[t]]
  <2>2. ASSUME NEW t \in SUBSET (1..(m + 1))
        PROVE  h[t] = IF t = {} THEN r ELSE Take(h[t \ {Source!Max(t)}], s[Source!Max(t)])
    <3>1. CASE m + 1 \in t
      <4>1. Source!Max(t) = m + 1
        BY <3>1, MaxIs
      <4>2. t \ {m + 1} \in SUBSET (1..(m + 1)) /\ m + 1 \notin t \ {m + 1} /\ t # {}
        BY <3>1
      <4>3. h[t \ {m + 1}] = g[t \ {m + 1}]
        BY <4>2
      <4>4. h[t] = Take(g[t \ {m + 1}], s[m + 1])
        BY <3>1
      <4> QED
        BY <4>1, <4>2, <4>3, <4>4
    <3>2. CASE m + 1 \notin t
      <4>1. t \in SUBSET (1..m)
        BY <3>2
      <4>2. h[t] = g[t]
        BY <3>2
      <4>3. g[t] = IF t = {} THEN r ELSE Take(g[t \ {Source!Max(t)}], s[Source!Max(t)])
        BY <2>1, <4>1 DEF IsIter
      <4>4. t \ {Source!Max(t)} \in SUBSET (1..(m + 1)) /\ m + 1 \notin t \ {Source!Max(t)}
        BY <3>2
      <4>5. h[t \ {Source!Max(t)}] = g[t \ {Source!Max(t)}]
        BY <4>4
      <4> QED
        BY <4>2, <4>3, <4>5
    <3> QED
      BY <3>1, <3>2
  <2>3. IsIter(h, 1..(m + 1), r, s)
    <3> HIDE DEF h
    <3>1. h = [t \in SUBSET (1..(m + 1)) |-> h[t]]
      BY DEF h
    <3> QED
      BY <2>2, <3>1 DEF IsIter
  <2> QED
    BY <2>3
<1>3. Bad = {}
  <2> SUFFICES ASSUME Bad # {} PROVE FALSE
    OBVIOUS
  <2> HIDE DEF Bad
  <2>1. Bad \in SUBSET Nat
    BY DEF Bad
  <2>2. PICK k \in Bad : \A m \in Bad : k <= m
    BY <2>1, Smallest
  <2>3. k \in Nat /\ k # 0
    BY <1>1, <2>1, <2>2
  <2>4. k - 1 \in Nat /\ k - 1 \notin Bad
    BY <2>2, <2>3
  <2>5. (k - 1) + 1 \notin Bad
    BY <1>2, <2>4
  <2> QED
    BY <2>2, <2>3, <2>5
<1> QED
  BY <1>3

LEMMA ConsumedIsIter ==
  ASSUME NEW r, NEW s, NEW n \in Nat, DOMAIN s = 1..n
  PROVE  \E g : IsIter(g, 1..n, r, s) /\ Source!Consumed(r, s) = g[1..n]
<1> DEFINE C == CHOOSE h : h = [t \in SUBSET (DOMAIN s) |->
                                  IF t = {} THEN r
                                  ELSE Take(h[t \ {Source!Max(t)}], s[Source!Max(t)])]
<1>1. Source!Consumed(r, s) = C[DOMAIN s]
  BY Zenon DEF Source!Consumed, Source!FoldLeft, Source!MapThenFoldSet, Take
<1>2. \E h : IsIter(h, 1..n, r, s)
  BY IterExists
<1>3. \E h : IsIter(h, DOMAIN s, r, s)
  BY <1>2
<1>4. \E h : h = [t \in SUBSET (DOMAIN s) |->
                    IF t = {} THEN r ELSE Take(h[t \ {Source!Max(t)}], s[Source!Max(t)])]
  BY <1>3, Zenon DEF IsIter
<1>5. IsIter(C, DOMAIN s, r, s)
  BY <1>4, Zenon DEF IsIter
<1> HIDE DEF C
<1> QED
  BY <1>1, <1>5

(* The first j pieces are the first j - 1 and then the next.               *)
LEMMA IterStep ==
  ASSUME NEW r, NEW s, NEW n \in Nat, NEW g, IsIter(g, 1..n, r, s), NEW j \in 1..n
  PROVE  g[1..j] = Take(g[1..(j - 1)], s[j])
<1>1. PICK t : t = 1..j
  OBVIOUS
<1>2. /\ t \in SUBSET (1..n) /\ t \in SUBSET (1..j) /\ j \in t /\ t # {} /\ j \in Nat
      /\ t \ {j} = 1..(j - 1)
  BY <1>1
<1>3. Source!Max(t) = j
  BY <1>2, MaxIs
<1>4. g[t] = IF t = {} THEN r ELSE Take(g[t \ {Source!Max(t)}], s[Source!Max(t)])
  BY <1>2, Zenon DEF IsIter
<1> QED
  BY <1>1, <1>2, <1>3, <1>4

Agree(s, q, k) == \A i \in 1..k : s[i] = q[i]

(* Two computations over sequences that agree as far as k agree there.     *)
LEMMA IterAgrees ==
  ASSUME NEW r, NEW s, NEW q, NEW n \in Nat, NEW m \in Nat,
         NEW g, IsIter(g, 1..n, r, s), NEW h, IsIter(h, 1..m, r, q),
         NEW k \in Nat, k <= n, k <= m, Agree(s, q, k)
  PROVE  g[1..k] = h[1..k]
<1> DEFINE Bad == {j \in 0..k : g[1..j] # h[1..j]}
<1>1. 0 \notin Bad
  <2>1. 1..0 = {} /\ {} \in SUBSET (1..n) /\ {} \in SUBSET (1..m)
    OBVIOUS
  <2>2. g[{}] = r /\ h[{}] = r
    BY <2>1 DEF IsIter
  <2> QED
    BY <2>1, <2>2
<1>2. ASSUME NEW j \in 1..k, j - 1 \notin Bad PROVE j \notin Bad
  <2>1. j \in Nat /\ j - 1 \in 0..k /\ j \in 1..n /\ j \in 1..m
    OBVIOUS
  <2>4. g[1..j] = Take(g[1..(j - 1)], s[j])
    BY <2>1, IterStep
  <2>5. h[1..j] = Take(h[1..(j - 1)], q[j])
    BY <2>1, IterStep
  <2>6. g[1..(j - 1)] = h[1..(j - 1)] /\ s[j] = q[j]
    BY <1>2, <2>1 DEF Agree
  <2> QED
    BY <2>4, <2>5, <2>6
<1>3. Bad = {}
  <2> SUFFICES ASSUME Bad # {} PROVE FALSE
    OBVIOUS
  <2> HIDE DEF Bad
  <2>1. Bad \in SUBSET Nat /\ Bad \subseteq 0..k
    BY DEF Bad
  <2>2. PICK j \in Bad : \A i \in Bad : j <= i
    BY <2>1, Smallest
  <2>3. j \in 1..k
    BY <1>1, <2>1, <2>2
  <2>4. j - 1 \notin Bad
    BY <2>2, <2>3
  <2> QED
    BY <1>2, <2>2, <2>3, <2>4
<1> QED
  BY <1>3

LEMMA NothingConsumed ==
  ASSUME NEW r
  PROVE  Source!Consumed(r, <<>>) = r
<1>1. PICK g : IsIter(g, 1..0, r, <<>>) /\ Source!Consumed(r, <<>>) = g[1..0]
  BY ConsumedIsIter
<1>2. 1..0 = {}
  OBVIOUS
<1> QED
  BY <1>1, <1>2 DEF IsIter

LEMMA OneConsumed ==
  ASSUME NEW S, NEW r, NEW s \in Seq(S), NEW piece \in S
  PROVE  Source!Consumed(r, Append(s, piece)) = Take(Source!Consumed(r, s), piece)
<1>1. PICK a : a = Append(s, piece)
  OBVIOUS
<1>2. PICK n : n = Len(s)
  OBVIOUS
<1>3. PICK k : k = n + 1
  OBVIOUS
<1>4. /\ n \in Nat /\ k \in Nat /\ k \in 1..k /\ n <= k /\ k - 1 = n
      /\ DOMAIN s = 1..n /\ DOMAIN a = 1..k /\ a[k] = piece
      /\ \A i \in 1..n : s[i] = a[i]
  BY <1>1, <1>2, <1>3
<1>5. PICK g : IsIter(g, 1..n, r, s) /\ Source!Consumed(r, s) = g[1..n]
  BY <1>4, ConsumedIsIter
<1>6. PICK h : IsIter(h, 1..k, r, a) /\ Source!Consumed(r, a) = h[1..k]
  BY <1>4, ConsumedIsIter
<1>7. g[1..n] = h[1..n]
  <2>1. n <= n
    BY <1>4
  <2>2. IsIter(g, 1..n, r, s) /\ IsIter(h, 1..k, r, a)
    BY <1>5, <1>6
  <2>3. Agree(s, a, n)
    BY <1>4 DEF Agree
  <2>4. n \in Nat /\ k \in Nat /\ n <= k
    BY <1>4
  <2> QED
    BY <2>1, <2>2, <2>3, <2>4, IterAgrees
<1>8. h[1..k] = Take(h[1..(k - 1)], a[k])
  BY <1>4, <1>6, IterStep
<1> QED
  BY <1>1, <1>4, <1>5, <1>6, <1>7, <1>8

(* A chunk is read as its pieces would be, one after the other, so it does *)
(* not matter where a chunk ends.                                          *)
LEMMA ConsumedTwice ==
  ASSUME NEW S, NEW r, NEW s \in Seq(S), NEW q \in Seq(S)
  PROVE  Source!Consumed(r, s \o q) = Source!Consumed(Source!Consumed(r, s), q)
<1> DEFINE Bad == {j \in 0..Len(q) :
                     Source!Consumed(r, s \o SubSeq(q, 1, j))
                       # Source!Consumed(Source!Consumed(r, s), SubSeq(q, 1, j))}
<1>1. 0 \notin Bad
  <2>1. SubSeq(q, 1, 0) = <<>> /\ s \o <<>> = s
    OBVIOUS
  <2> QED
    BY <2>1, NothingConsumed
<1>2. ASSUME NEW j \in 1..Len(q), j - 1 \notin Bad PROVE j \notin Bad
  <2> DEFINE p == SubSeq(q, 1, j - 1)
             o == s \o p
  <2>1. p \in Seq(S) /\ o \in Seq(S) /\ q[j] \in S /\ j - 1 \in 0..Len(q)
    OBVIOUS
  <2>2. SubSeq(q, 1, j) = Append(p, q[j]) /\ s \o SubSeq(q, 1, j) = Append(o, q[j])
    OBVIOUS
  <2>3. Source!Consumed(r, o) = Source!Consumed(Source!Consumed(r, s), p)
    BY <1>2, <2>1
  <2> HIDE DEF p, o
  <2>4. Source!Consumed(r, Append(o, q[j])) = Take(Source!Consumed(r, o), q[j])
    BY <2>1, OneConsumed
  <2>5. Source!Consumed(Source!Consumed(r, s), Append(p, q[j]))
          = Take(Source!Consumed(Source!Consumed(r, s), p), q[j])
    BY <2>1, OneConsumed
  <2> QED
    BY <2>2, <2>3, <2>4, <2>5
<1>3. Bad = {}
  <2> SUFFICES ASSUME Bad # {} PROVE FALSE
    OBVIOUS
  <2> HIDE DEF Bad
  <2>1. Bad \in SUBSET Nat /\ Bad \subseteq 0..Len(q)
    BY DEF Bad
  <2>2. PICK j \in Bad : \A i \in Bad : j <= i
    BY <2>1, Smallest
  <2>3. j \in 1..Len(q)
    BY <1>1, <2>1, <2>2
  <2>4. j - 1 \notin Bad
    BY <2>2, <2>3
  <2> QED
    BY <1>2, <2>2, <2>3, <2>4
<1>4. Len(q) \in 0..Len(q) /\ SubSeq(q, 1, Len(q)) = q
  OBVIOUS
<1> QED
  BY <1>3, <1>4

-----------------------------------------------------------------------------
(* What is read of a line and of a frame.                                  *)

Frames == [type : Types \cup {"message"}, id : Nat, data : Seq(Nat)]

Opening ==
  [field : {"id", "data"}, value : {""}, n : Nat, part : {1, 2}]
    \cup [field : {"event"}, value : Types, n : {0}, part : {1, 2}]

Pieces == Opening \cup {Source!Newline}

Readers == [line : Seq(Opening), frame : Frames, got : Seq(Frames)]

(* The reader between two lines.                                           *)
Between(frame, got) == [line |-> <<>>, frame |-> frame, got |-> got]

LEMMA SecondAppended ==
  ASSUME NEW P, NEW a \in P, NEW b \in P
  PROVE  Append(<<a>>, b) = <<a, b>>
<1>1. PICK s : s = Append(<<a>>, b)
  OBVIOUS
<1>2. PICK q : q = <<a, b>>
  OBVIOUS
<1>3. s \in Seq(P) /\ Len(s) = 2 /\ s[1] = a /\ s[2] = b
  BY <1>1
<1>4. q \in Seq(P) /\ Len(q) = 2 /\ q[1] = a /\ q[2] = b
  BY <1>2
<1>5. \A i \in 1..2 : s[i] = q[i]
  BY <1>3, <1>4
<1> QED
  BY <1>1, <1>2, <1>3, <1>4, <1>5, SeqEqual

LEMMA ThirdAppended ==
  ASSUME NEW P, NEW a \in P, NEW b \in P, NEW c \in P
  PROVE  Append(<<a, b>>, c) = <<a, b, c>>
<1>1. PICK s : s = Append(<<a, b>>, c)
  OBVIOUS
<1>2. PICK q : q = <<a, b, c>>
  OBVIOUS
<1>3. s \in Seq(P) /\ Len(s) = 3 /\ s[1] = a /\ s[2] = b /\ s[3] = c
  BY <1>1
<1>4. q \in Seq(P) /\ Len(q) = 3 /\ q[1] = a /\ q[2] = b /\ q[3] = c
  BY <1>2
<1>5. \A i \in 1..3 : s[i] = q[i]
  BY <1>3, <1>4
<1> QED
  BY <1>1, <1>2, <1>3, <1>4, <1>5, SeqEqual

LEMMA ThreeConsumed ==
  ASSUME NEW r, NEW a \in Pieces, NEW b \in Pieces, NEW c \in Pieces
  PROVE  Source!Consumed(r, <<a, b, c>>) = Take(Take(Take(r, a), b), c)
<1>1. PICK s0 : s0 = <<>>
  OBVIOUS
<1>2. PICK s1 : s1 = <<a>>
  OBVIOUS
<1>3. PICK s2 : s2 = <<a, b>>
  OBVIOUS
<1>4. PICK s3 : s3 = <<a, b, c>>
  OBVIOUS
<1>5. s0 \in Seq(Pieces) /\ s1 \in Seq(Pieces)
  BY <1>1, <1>2
<1>7. Append(s0, a) = s1
  BY <1>1, <1>2
<1>8. Append(s1, b) = s2
  BY <1>2, <1>3, SecondAppended
<1>6. s2 \in Seq(Pieces)
  BY <1>5, <1>8
<1>9. Append(s2, c) = s3
  BY <1>3, <1>4, ThirdAppended
<1>10. Source!Consumed(r, s0) = r
  BY <1>1, NothingConsumed
<1>11. Source!Consumed(r, s1) = Take(r, a)
  <2>1. Source!Consumed(r, Append(s0, a)) = Take(Source!Consumed(r, s0), a)
    BY <1>5, OneConsumed
  <2> QED
    BY <1>7, <1>10, <2>1
<1>12. Source!Consumed(r, s2) = Take(Take(r, a), b)
  <2>1. Source!Consumed(r, Append(s1, b)) = Take(Source!Consumed(r, s1), b)
    BY <1>5, OneConsumed
  <2> QED
    BY <1>8, <1>11, <2>1
<1>13. Source!Consumed(r, Append(s2, c)) = Take(Source!Consumed(r, s2), c)
  BY <1>6, OneConsumed
<1> QED
  BY <1>4, <1>9, <1>12, <1>13

LEMMA LineTaken ==
  ASSUME NEW frame, NEW got,
         NEW a, NEW b, a # Source!Newline, b # Source!Newline
  PROVE  Take(Take(Take(Between(frame, got), a), b), Source!Newline)
           = Source!ConsumeLine(Between(frame, got), <<a, b>>)
<1>1. Take(Between(frame, got), a) = [line |-> <<a>>, frame |-> frame, got |-> got]
  BY DEF Take, Between
<1>2. Take([line |-> <<a>>, frame |-> frame, got |-> got], b)
        = [line |-> <<a, b>>, frame |-> frame, got |-> got]
  BY DEF Take
<1>3. PICK s : s = [line |-> <<a, b>>, frame |-> frame, got |-> got]
  OBVIOUS
<1>4. [s EXCEPT !.line = <<>>] = Between(frame, got) /\ s.line = <<a, b>>
  BY <1>3 DEF Between
<1>5. Take(s, Source!Newline) = Source!ConsumeLine(Between(frame, got), <<a, b>>)
  BY <1>4 DEF Take
<1> QED
  BY <1>1, <1>2, <1>3, <1>5

LEMMA LineRead ==
  ASSUME NEW frame, NEW got, NEW field \in {"id", "event", "data"}, NEW value, NEW m,
         NEW a \in Pieces, a = [field |-> field, value |-> value, n |-> m, part |-> 1],
         NEW b \in Pieces, b = [field |-> field, value |-> value, n |-> m, part |-> 2]
  PROVE  Source!Consumed(Between(frame, got), Source!Line(field, value, m))
           = Source!ConsumeLine(Between(frame, got), <<a, b>>)
<1>1. PICK r : r = Between(frame, got)
  OBVIOUS
<1>2. Source!Newline \in Pieces
  BY DEF Pieces
<1>3. a # Source!Newline /\ b # Source!Newline
  <2>1. a.field # "" /\ b.field # "" /\ Source!Newline.field = ""
    BY DEF Source!Newline
  <2> QED
    BY <2>1
<1>4. Source!Line(field, value, m) = <<a, b, Source!Newline>>
  BY DEF Source!Line
<1>5. Source!Consumed(r, <<a, b, Source!Newline>>)
        = Take(Take(Take(r, a), b), Source!Newline)
  BY <1>2, ThreeConsumed
<1>6. Take(Take(Take(r, a), b), Source!Newline) = Source!ConsumeLine(r, <<a, b>>)
  BY <1>1, <1>3, LineTaken
<1> QED
  BY <1>1, <1>4, <1>5, <1>6

IdLine(num) == Source!Line("id", "", num)
DataLine(num) == Source!Line("data", "", num)

LEMMA IdRead ==
  ASSUME NEW type, NEW id, NEW data, NEW got, NEW num \in Nat
  PROVE  Source!Consumed(Between(Source!Frame(type, id, data), got), IdLine(num))
           = Between(Source!Frame(type, num, data), got)
<1>1. PICK r : r = Between(Source!Frame(type, id, data), got)
  OBVIOUS
<1>2. PICK a : a = [field |-> "id", value |-> "", n |-> num, part |-> 1]
  OBVIOUS
<1>3. PICK b : b = [field |-> "id", value |-> "", n |-> num, part |-> 2]
  OBVIOUS
<1>4. a \in Pieces /\ b \in Pieces
  BY <1>2, <1>3 DEF Pieces, Opening
<1>5. Source!Consumed(r, Source!Line("id", "", num)) = Source!ConsumeLine(r, <<a, b>>)
  <2>1. PICK v : v = ""
    OBVIOUS
  <2>2. PICK m : m = num
    OBVIOUS
  <2>3. PICK field : field = "id"
    OBVIOUS
  <2>4. field \in {"id", "event", "data"}
    BY <2>3
  <2>5. /\ a = [field |-> field, value |-> v, n |-> m, part |-> 1]
        /\ b = [field |-> field, value |-> v, n |-> m, part |-> 2]
    BY <1>2, <1>3, <2>1, <2>2, <2>3, Zenon
  <2>6. Source!Consumed(Between(Source!Frame(type, id, data), got), Source!Line(field, v, m))
          = Source!ConsumeLine(Between(Source!Frame(type, id, data), got), <<a, b>>)
    BY <1>4, <2>4, <2>5, LineRead
  <2> QED
    BY <1>1, <2>1, <2>2, <2>3, <2>6, Zenon
<1>6. Source!ConsumeLine(r, <<a, b>>) = [r EXCEPT !.frame.id = num]
  <2>1. PICK line : line = <<a, b>>
    OBVIOUS
  <2>2. line # <<>> /\ Head(line) = a
    BY <2>1
  <2>3. a.part # 2 /\ a.field = "id" /\ a.n = num
    <3>1. a.part = 1 /\ a.field = "id"
      BY <1>2
    <3>2. a.n = num
      BY <1>2, Zenon
    <3> QED
      BY <3>1, <3>2
  <2> QED
    BY <2>1, <2>2, <2>3 DEF Source!ConsumeLine
<1> QED
  BY <1>1, <1>5, <1>6 DEF Between, Source!Frame, IdLine

LEMMA TypeRead ==
  ASSUME NEW type, NEW id, NEW data, NEW got, NEW t \in Types
  PROVE  Source!Consumed(Between(Source!Frame(type, id, data), got), Source!Line("event", t, 0))
           = Between(Source!Frame(t, id, data), got)
<1>1. PICK r : r = Between(Source!Frame(type, id, data), got)
  OBVIOUS
<1>2. PICK a : a = [field |-> "event", value |-> t, n |-> 0, part |-> 1]
  OBVIOUS
<1>3. PICK b : b = [field |-> "event", value |-> t, n |-> 0, part |-> 2]
  OBVIOUS
<1>4. a \in Pieces /\ b \in Pieces
  BY <1>2, <1>3 DEF Pieces, Opening
<1>5. Source!Consumed(r, Source!Line("event", t, 0)) = Source!ConsumeLine(r, <<a, b>>)
  BY <1>1, <1>2, <1>3, <1>4, LineRead
<1>6. Source!ConsumeLine(r, <<a, b>>) = [r EXCEPT !.frame.type = t]
  <2>1. PICK line : line = <<a, b>>
    OBVIOUS
  <2>2. line # <<>> /\ Head(line) = a
    BY <2>1
  <2>3. a.part # 2 /\ a.field = "event" /\ a.value = t
    BY <1>2
  <2> QED
    BY <2>1, <2>2, <2>3 DEF Source!ConsumeLine
<1> QED
  BY <1>1, <1>5, <1>6 DEF Between, Source!Frame

LEMMA DataRead ==
  ASSUME NEW type, NEW id, NEW data, NEW got, NEW num \in Nat
  PROVE  Source!Consumed(Between(Source!Frame(type, id, data), got), DataLine(num))
           = Between(Source!Frame(type, id, Append(data, num)), got)
<1>1. PICK r : r = Between(Source!Frame(type, id, data), got)
  OBVIOUS
<1>2. PICK a : a = [field |-> "data", value |-> "", n |-> num, part |-> 1]
  OBVIOUS
<1>3. PICK b : b = [field |-> "data", value |-> "", n |-> num, part |-> 2]
  OBVIOUS
<1>4. a \in Pieces /\ b \in Pieces
  BY <1>2, <1>3 DEF Pieces, Opening
<1>5. Source!Consumed(r, Source!Line("data", "", num)) = Source!ConsumeLine(r, <<a, b>>)
  <2>1. PICK v : v = ""
    OBVIOUS
  <2>2. PICK m : m = num
    OBVIOUS
  <2>3. PICK field : field = "data"
    OBVIOUS
  <2>4. field \in {"id", "event", "data"}
    BY <2>3
  <2>5. /\ a = [field |-> field, value |-> v, n |-> m, part |-> 1]
        /\ b = [field |-> field, value |-> v, n |-> m, part |-> 2]
    BY <1>2, <1>3, <2>1, <2>2, <2>3, Zenon
  <2>6. Source!Consumed(Between(Source!Frame(type, id, data), got), Source!Line(field, v, m))
          = Source!ConsumeLine(Between(Source!Frame(type, id, data), got), <<a, b>>)
    BY <1>4, <2>4, <2>5, LineRead
  <2> QED
    BY <1>1, <2>1, <2>2, <2>3, <2>6, Zenon
<1>6. Source!ConsumeLine(r, <<a, b>>) = [r EXCEPT !.frame.data = Append(@, num)]
  <2>1. PICK line : line = <<a, b>>
    OBVIOUS
  <2>2. line # <<>> /\ Head(line) = a
    BY <2>1
  <2>3. a.part # 2 /\ a.field = "data" /\ a.n = num
    <3>1. a.part = 1 /\ a.field = "data"
      BY <1>2
    <3>2. a.n = num
      BY <1>2, Zenon
    <3> QED
      BY <3>1, <3>2
  <2> QED
    BY <2>1, <2>2, <2>3 DEF Source!ConsumeLine
<1> QED
  BY <1>1, <1>5, <1>6 DEF Between, Source!Frame, DataLine

(* A frame that the server has written is handed on as it is.              *)
LEMMA FrameRead ==
  ASSUME NEW t \in Types, NEW i \in Nat, NEW num \in Nat, NEW got
  PROVE  /\ Source!Written(Source!Frame(t, i, <<num>>)) \in Seq(Pieces)
         /\ Source!Consumed(Between(Source!Blank, got), Source!Written(Source!Frame(t, i, <<num>>)))
               = Between(Source!Blank, Append(got, Source!Frame(t, i, <<num>>)))
<1>1. PICK f : f = Source!Frame(t, i, <<num>>)
  OBVIOUS
<1>2. f.id = i /\ f.type = t /\ f.data[1] = num
  BY <1>1 DEF Source!Frame
<1>3. PICK a : a = (IF i = 0 THEN <<>> ELSE Source!Line("id", "", i))
  OBVIOUS
<1>4. PICK b : b = Source!Line("event", t, 0)
  OBVIOUS
<1>5. PICK c : c = Source!Line("data", "", num)
  OBVIOUS
<1>6. PICK d : d = <<Source!Newline>>
  OBVIOUS
<1>7. Source!Written(f) = ((a \o b) \o c) \o d
  BY <1>2, <1>3, <1>4, <1>5, <1>6 DEF Source!Written
<1>8. a \in Seq(Pieces) /\ b \in Seq(Pieces) /\ c \in Seq(Pieces) /\ d \in Seq(Pieces)
  <2>1. Source!Newline \in Pieces
    BY DEF Pieces
  <2>2. d \in Seq(Pieces)
    BY <1>6, <2>1
  <2>3. ASSUME NEW m \in Nat PROVE
          /\ [field |-> "id", value |-> "", n |-> m, part |-> 1] \in Pieces
          /\ [field |-> "id", value |-> "", n |-> m, part |-> 2] \in Pieces
          /\ [field |-> "data", value |-> "", n |-> m, part |-> 1] \in Pieces
          /\ [field |-> "data", value |-> "", n |-> m, part |-> 2] \in Pieces
          /\ [field |-> "event", value |-> t, n |-> 0, part |-> 1] \in Pieces
          /\ [field |-> "event", value |-> t, n |-> 0, part |-> 2] \in Pieces
    BY DEF Pieces, Opening
  <2> HIDE DEF Pieces
  <2>4. Source!Line("id", "", i) \in Seq(Pieces)
    <3>1. PICK x : x = [field |-> "id", value |-> "", n |-> i, part |-> 1]
      OBVIOUS
    <3>2. PICK y : y = [field |-> "id", value |-> "", n |-> i, part |-> 2]
      OBVIOUS
    <3>3. x \in Pieces /\ y \in Pieces
      BY <2>3, <3>1, <3>2
    <3>4. <<x, y, Source!Newline>> \in Seq(Pieces)
      BY <2>1, <3>3
    <3> QED
      BY <3>1, <3>2, <3>4 DEF Source!Line
  <2>5. b \in Seq(Pieces)
    <3>1. PICK x : x = [field |-> "event", value |-> t, n |-> 0, part |-> 1]
      OBVIOUS
    <3>2. PICK y : y = [field |-> "event", value |-> t, n |-> 0, part |-> 2]
      OBVIOUS
    <3>3. x \in Pieces /\ y \in Pieces
      BY <2>3, <3>1, <3>2
    <3>4. <<x, y, Source!Newline>> \in Seq(Pieces)
      BY <2>1, <3>3
    <3> QED
      BY <1>4, <3>1, <3>2, <3>4 DEF Source!Line
  <2>6. c \in Seq(Pieces)
    <3>1. PICK x : x = [field |-> "data", value |-> "", n |-> num, part |-> 1]
      OBVIOUS
    <3>2. PICK y : y = [field |-> "data", value |-> "", n |-> num, part |-> 2]
      OBVIOUS
    <3>3. x \in Pieces /\ y \in Pieces
      BY <2>3, <3>1, <3>2
    <3>4. <<x, y, Source!Newline>> \in Seq(Pieces)
      BY <2>1, <3>3
    <3> QED
      BY <1>5, <3>1, <3>2, <3>4 DEF Source!Line
  <2>7. a \in Seq(Pieces)
    <3>1. <<>> \in Seq(Pieces)
      OBVIOUS
    <3>2. CASE i = 0
      BY <1>3, <3>1, <3>2
    <3>3. CASE i # 0
      BY <1>3, <2>4, <3>3
    <3> QED
      BY <3>2, <3>3
  <2> QED
    BY <2>2, <2>5, <2>6, <2>7
<1>9. a \o b \in Seq(Pieces) /\ (a \o b) \o c \in Seq(Pieces) /\ ((a \o b) \o c) \o d \in Seq(Pieces)
  BY <1>8
<1>10. PICK r : r = Between(Source!Blank, got)
  OBVIOUS
<1>11. Source!Consumed(r, ((a \o b) \o c) \o d)
         = Source!Consumed(Source!Consumed(Source!Consumed(Source!Consumed(r, a), b), c), d)
  <2>1. PICK ab : ab = a \o b
    OBVIOUS
  <2>2. PICK abc : abc = ab \o c
    OBVIOUS
  <2>3. ab \in Seq(Pieces) /\ abc \in Seq(Pieces)
    BY <1>9, <2>1, <2>2
  <2>4. Source!Consumed(r, abc \o d) = Source!Consumed(Source!Consumed(r, abc), d)
    BY <1>8, <2>3, ConsumedTwice
  <2>5. Source!Consumed(r, ab \o c) = Source!Consumed(Source!Consumed(r, ab), c)
    BY <1>8, <2>3, ConsumedTwice
  <2>6. Source!Consumed(r, a \o b) = Source!Consumed(Source!Consumed(r, a), b)
    BY <1>8, ConsumedTwice
  <2> QED
    BY <2>1, <2>2, <2>4, <2>5, <2>6
<1>12. Source!Consumed(r, a) = Between(Source!Frame("message", i, <<>>), got)
  <2>1. CASE i = 0
    BY <1>3, <1>10, <2>1, NothingConsumed DEF Source!Blank
  <2>2. CASE i # 0
    <3>1. PICK m : m = "message"
      OBVIOUS
    <3>2. PICK z : z = 0
      OBVIOUS
    <3>3. PICK e : e = <<>>
      OBVIOUS
    <3>4. Source!Consumed(Between(Source!Frame(m, z, e), got), IdLine(i))
            = Between(Source!Frame(m, i, e), got)
      BY IdRead
    <3>5. a = IdLine(i)
      BY <1>3, <2>2 DEF IdLine
    <3>6. r = Between(Source!Frame(m, z, e), got)
      BY <1>10, <3>1, <3>2, <3>3, Zenon DEF Source!Blank
    <3> QED
      BY <3>1, <3>3, <3>4, <3>5, <3>6, Zenon
  <2> QED
    BY <2>1, <2>2
<1>13. Source!Consumed(Source!Consumed(r, a), b) = Between(Source!Frame(t, i, <<>>), got)
  BY <1>4, <1>12, TypeRead
<1>14. Source!Consumed(Source!Consumed(Source!Consumed(r, a), b), c)
         = Between(Source!Frame(t, i, <<num>>), got)
  <2>1. Append(<<>>, num) = <<num>>
    OBVIOUS
  <2> QED
    <3>1. PICK e : e = <<>>
      OBVIOUS
    <3>2. Source!Consumed(Between(Source!Frame(t, i, e), got), DataLine(num))
            = Between(Source!Frame(t, i, Append(e, num)), got)
      BY DataRead
    <3>3. Append(e, num) = <<num>>
      BY <2>1, <3>1
    <3> QED
      BY <1>5, <1>13, <3>1, <3>2, <3>3, Zenon DEF DataLine
<1>15. Source!Consumed(Between(f, got), d) = Between(Source!Blank, Append(got, f))
  <2>1. Source!Consumed(Between(f, got), Append(<<>>, Source!Newline))
          = Take(Source!Consumed(Between(f, got), <<>>), Source!Newline)
    <3>1. PICK s : s = <<>>
      OBVIOUS
    <3>2. PICK p : p = Source!Newline
      OBVIOUS
    <3>3. s \in Seq(Pieces) /\ p \in Pieces
      BY <3>1, <3>2 DEF Pieces
    <3>4. PICK q : q = Between(f, got)
      OBVIOUS
    <3>5. Source!Consumed(q, Append(s, p)) = Take(Source!Consumed(q, s), p)
      BY <3>3, OneConsumed
    <3> QED
      BY <3>1, <3>2, <3>4, <3>5
  <2>2. Append(<<>>, Source!Newline) = d
    BY <1>6
  <2>3. f # Source!Blank
    <3>1. f.data = <<num>> /\ Source!Blank.data = <<>>
      BY <1>1 DEF Source!Frame, Source!Blank
    <3> QED
      BY <3>1
  <2>4. Take(Between(f, got), Source!Newline) = Between(Source!Blank, Append(got, f))
    <3>1. PICK s : s = Between(f, got)
      OBVIOUS
    <3>2. [s EXCEPT !.line = <<>>] = s /\ s.line = <<>> /\ s.frame = f
      BY <3>1 DEF Between
    <3>3. Take(s, Source!Newline) = Source!EmitFrame(s)
      BY <3>2 DEF Take, Source!ConsumeLine
    <3>4. Source!EmitFrame(s) = [s EXCEPT !.got = Append(@, s.frame), !.frame = Source!Blank]
      BY <2>3, <3>2 DEF Source!EmitFrame
    <3> QED
      BY <3>1, <3>3, <3>4 DEF Between
  <2> QED
    BY <2>1, <2>2, <2>4, NothingConsumed
<1> QED
  BY <1>1, <1>7, <1>9, <1>10, <1>11, <1>14, <1>15

-----------------------------------------------------------------------------
(* What the reader has handed on it does not take back.                    *)

Longer(r, q) == q \in Readers /\ Source!IsPrefix(r.got, q.got)

LEMMA LongerTwice ==
  ASSUME NEW r \in Readers, NEW q, NEW p, Longer(r, q), Longer(q, p)
  PROVE  Longer(r, p)
<1>1. r.got \in Seq(Frames) /\ q.got \in Seq(Frames) /\ p.got \in Seq(Frames)
  BY DEF Longer, Readers
<1>2. /\ Len(r.got) <= Len(q.got) /\ SubSeq(r.got, 1, Len(r.got)) = SubSeq(q.got, 1, Len(r.got))
      /\ Len(q.got) <= Len(p.got) /\ SubSeq(q.got, 1, Len(q.got)) = SubSeq(p.got, 1, Len(q.got))
  BY DEF Longer, Source!IsPrefix
<1>3. \A i \in 1..Len(r.got) : r.got[i] = q.got[i]
  <2> TAKE i \in 1..Len(r.got)
  <2>1. SubSeq(r.got, 1, Len(r.got))[i] = r.got[i] /\ SubSeq(q.got, 1, Len(r.got))[i] = q.got[i]
    BY <1>1, <1>2
  <2> QED
    BY <1>2, <2>1
<1>4. \A i \in 1..Len(r.got) : q.got[i] = p.got[i]
  <2> TAKE i \in 1..Len(r.got)
  <2>1. i \in 1..Len(q.got)
    BY <1>1, <1>2
  <2>2. SubSeq(q.got, 1, Len(q.got))[i] = q.got[i] /\ SubSeq(p.got, 1, Len(q.got))[i] = p.got[i]
    BY <1>1, <1>2, <2>1
  <2> QED
    BY <1>2, <2>2
<1>5. PICK a : a = SubSeq(r.got, 1, Len(r.got))
  OBVIOUS
<1>6. PICK b : b = SubSeq(p.got, 1, Len(r.got))
  OBVIOUS
<1>7. a \in Seq(Frames) /\ b \in Seq(Frames) /\ Len(a) = Len(r.got) /\ Len(b) = Len(r.got)
  BY <1>1, <1>2, <1>5, <1>6
<1>8. \A i \in 1..Len(a) : a[i] = b[i]
  BY <1>1, <1>2, <1>3, <1>4, <1>5, <1>6, <1>7
<1>9. a = b
  BY <1>7, <1>8, SeqEqual
<1>10. Len(r.got) <= Len(p.got)
  BY <1>1, <1>2
<1> QED
  BY <1>5, <1>6, <1>9, <1>10 DEF Longer, Source!IsPrefix

LEMMA LongerSame ==
  ASSUME NEW r \in Readers, NEW q \in Readers, q.got = r.got
  PROVE  Longer(r, q)
<1>1. r.got \in Seq(Frames)
  BY DEF Readers
<1>2. Len(r.got) \in Nat
  BY <1>1
<1> QED
  BY <1>2 DEF Longer, Source!IsPrefix

LEMMA TakenIsLonger ==
  ASSUME NEW r \in Readers, NEW piece \in Pieces
  PROVE  Longer(r, Take(r, piece))
<1>1. /\ r.line \in Seq(Opening) /\ r.frame \in Frames /\ r.got \in Seq(Frames)
      /\ r = [line |-> r.line, frame |-> r.frame, got |-> r.got]
  BY DEF Readers
<1>2. CASE piece # Source!Newline
  <2>1. piece \in Opening
    BY <1>2 DEF Pieces
  <2>2. PICK q : q = [r EXCEPT !.line = Append(@, piece)]
    OBVIOUS
  <2>3. Append(r.line, piece) \in Seq(Opening)
    BY <1>1, <2>1
  <2>4. q \in Readers /\ q.got = r.got
    BY <1>1, <2>2, <2>3 DEF Readers
  <2> QED
    BY <1>2, <2>2, <2>4, LongerSame DEF Take
<1>3. CASE piece = Source!Newline
  <2>1. PICK s : s = [r EXCEPT !.line = <<>>]
    OBVIOUS
  <2>2. s \in Readers /\ s.got = r.got /\ s.frame = r.frame
    <3>1. PICK e : e = <<>>
      OBVIOUS
    <3>2. e \in Seq(Opening)
      BY <3>1
    <3>3. s = [line |-> e, frame |-> r.frame, got |-> r.got]
      BY <1>1, <2>1, <3>1
    <3> QED
      BY <1>1, <3>2, <3>3 DEF Readers
  <2>3. PICK line : line = r.line
    OBVIOUS
  <2>4. Take(r, piece) = Source!ConsumeLine(s, line)
    BY <1>3, <2>1, <2>3 DEF Take
  <2>5. CASE line = <<>>
    <3>1. Source!ConsumeLine(s, line) = Source!EmitFrame(s)
      BY <2>5 DEF Source!ConsumeLine
    <3>2. CASE s.frame = Source!Blank
      BY <2>2, <2>4, <3>1, <3>2, LongerSame DEF Source!EmitFrame
    <3>3. CASE s.frame # Source!Blank
      <4>1. PICK q : q = [s EXCEPT !.got = Append(@, s.frame), !.frame = Source!Blank]
        OBVIOUS
      <4>2. Source!Blank \in Frames
        <5>1. <<>> \in Seq(Nat)
          OBVIOUS
        <5> QED
          BY <5>1 DEF Frames, Source!Blank, Source!Frame
      <4>3. q \in Readers /\ q.got = Append(r.got, r.frame)
        <5>1. /\ s = [line |-> s.line, frame |-> s.frame, got |-> s.got]
              /\ s.line \in Seq(Opening) /\ s.frame \in Frames /\ s.got \in Seq(Frames)
          BY <2>2 DEF Readers
        <5>2. q = [line |-> s.line, frame |-> Source!Blank, got |-> Append(s.got, s.frame)]
          BY <4>1, <5>1
        <5>3. Append(s.got, s.frame) \in Seq(Frames)
          BY <5>1
        <5> QED
          BY <2>2, <4>2, <5>1, <5>2, <5>3 DEF Readers
      <4>4. PICK g : g = r.got
        OBVIOUS
      <4>5. PICK f : f = r.frame
        OBVIOUS
      <4>6. Source!IsPrefix(g, Append(g, f))
        <5>1. g \in Seq(Frames) /\ f \in Frames
          BY <1>1, <4>4, <4>5
        <5>2. Len(g) <= Len(Append(g, f))
          BY <5>1
        <5>3. SubSeq(g, 1, Len(g)) = SubSeq(Append(g, f), 1, Len(g))
          BY <5>1
        <5> QED
          BY <5>2, <5>3 DEF Source!IsPrefix
      <4>7. Longer(r, q)
        BY <4>3, <4>4, <4>5, <4>6 DEF Longer
      <4>8. Source!EmitFrame(s) = q
        BY <3>3, <4>1 DEF Source!EmitFrame
      <4> QED
        BY <2>4, <3>1, <4>7, <4>8
    <3> QED
      BY <3>2, <3>3
  <2>6. CASE line # <<>>
    <3>1. PICK first : first = Head(line)
      OBVIOUS
    <3>2. first \in Opening
      BY <1>1, <2>3, <2>6, <3>1
    <3>3. /\ s.frame \in Frames /\ s.frame.data \in Seq(Nat)
          /\ s = [line |-> s.line, frame |-> s.frame, got |-> s.got]
          /\ s.line \in Seq(Opening) /\ s.got \in Seq(Frames)
      BY <2>2 DEF Readers, Frames
    <3>4. PICK q : q = Source!ConsumeLine(s, line)
      OBVIOUS
    <3>5. CASE first.part = 2
      <4>1. q = s
        BY <2>6, <3>1, <3>4, <3>5 DEF Source!ConsumeLine
      <4> QED
        BY <2>2, <2>4, <3>4, <4>1, LongerSame
    <3>6. CASE first.part # 2 /\ first.field = "event"
      <4>1. q = [s EXCEPT !.frame.type = first.value]
        BY <2>6, <3>1, <3>4, <3>6 DEF Source!ConsumeLine
      <4>2. first.value \in Types
        BY <3>2, <3>6 DEF Opening
      <4>3. [s.frame EXCEPT !.type = first.value] \in Frames
        BY <3>3, <4>2 DEF Frames
      <4>4. q = [line |-> s.line, frame |-> [s.frame EXCEPT !.type = first.value], got |-> s.got]
        BY <3>3, <4>1
      <4>5. q \in Readers /\ q.got = r.got
        BY <2>2, <3>3, <4>3, <4>4 DEF Readers
      <4> QED
        BY <2>4, <3>4, <4>5, LongerSame
    <3>7. CASE first.part # 2 /\ first.field = "id"
      <4>1. q = [s EXCEPT !.frame.id = first.n]
        BY <2>6, <3>1, <3>4, <3>7 DEF Source!ConsumeLine
      <4>2. first.n \in Nat
        BY <3>2, <3>7 DEF Opening
      <4>3. [s.frame EXCEPT !.id = first.n] \in Frames
        BY <3>3, <4>2 DEF Frames
      <4>4. q = [line |-> s.line, frame |-> [s.frame EXCEPT !.id = first.n], got |-> s.got]
        BY <3>3, <4>1
      <4>5. q \in Readers /\ q.got = r.got
        BY <2>2, <3>3, <4>3, <4>4 DEF Readers
      <4> QED
        BY <2>4, <3>4, <4>5, LongerSame
    <3>8. CASE first.part # 2 /\ first.field = "data"
      <4>1. q = [s EXCEPT !.frame.data = Append(@, first.n)]
        BY <2>6, <3>1, <3>4, <3>8 DEF Source!ConsumeLine
      <4>2. first.n \in Nat
        BY <3>2, <3>8 DEF Opening
      <4>3. Append(s.frame.data, first.n) \in Seq(Nat)
        BY <3>3, <4>2
      <4>4. [s.frame EXCEPT !.data = Append(@, first.n)] \in Frames
        BY <3>3, <4>3 DEF Frames
      <4>5. q = [line |-> s.line, frame |-> [s.frame EXCEPT !.data = Append(@, first.n)], got |-> s.got]
        BY <3>3, <4>1
      <4>6. q \in Readers /\ q.got = r.got
        BY <2>2, <3>3, <4>4, <4>5 DEF Readers
      <4> QED
        BY <2>4, <3>4, <4>6, LongerSame
    <3> QED
      BY <3>2, <3>5, <3>6, <3>7, <3>8 DEF Opening
  <2> QED
    BY <2>5, <2>6
<1> QED
  BY <1>2, <1>3

LEMMA ConsumedIsLonger ==
  ASSUME NEW r \in Readers, NEW s \in Seq(Pieces)
  PROVE  Longer(r, Source!Consumed(r, s))
<1> DEFINE Bad == {j \in 0..Len(s) : ~Longer(r, Source!Consumed(r, SubSeq(s, 1, j)))}
<1>1. 0 \notin Bad
  <2>1. SubSeq(s, 1, 0) = <<>>
    OBVIOUS
  <2>2. Longer(r, r)
    BY LongerSame
  <2> QED
    BY <2>1, <2>2, NothingConsumed
<1>2. ASSUME NEW j \in 1..Len(s), j - 1 \notin Bad PROVE j \notin Bad
  <2>1. PICK p : p = SubSeq(s, 1, j - 1)
    OBVIOUS
  <2>2. p \in Seq(Pieces) /\ s[j] \in Pieces /\ j - 1 \in 0..Len(s)
    BY <2>1
  <2>3. SubSeq(s, 1, j) = Append(p, s[j])
    BY <2>1
  <2>4. PICK q : q = Source!Consumed(r, p)
    OBVIOUS
  <2>5. Longer(r, q)
    BY <1>2, <2>1, <2>2, <2>4
  <2>6. Source!Consumed(r, Append(p, s[j])) = Take(q, s[j])
    BY <2>2, <2>4, OneConsumed
  <2>7. q \in Readers
    BY <2>5 DEF Longer
  <2>8. Longer(q, Take(q, s[j]))
    BY <2>2, <2>7, TakenIsLonger
  <2>9. Longer(r, Take(q, s[j]))
    BY <2>5, <2>8, LongerTwice
  <2> QED
    BY <2>3, <2>6, <2>9
<1>3. Bad = {}
  <2> SUFFICES ASSUME Bad # {} PROVE FALSE
    OBVIOUS
  <2> HIDE DEF Bad
  <2>1. Bad \in SUBSET Nat /\ Bad \subseteq 0..Len(s)
    BY DEF Bad
  <2>2. PICK j \in Bad : \A i \in Bad : j <= i
    BY <2>1, Smallest
  <2>3. j \in 1..Len(s)
    BY <1>1, <2>1, <2>2
  <2>4. j - 1 \notin Bad
    BY <2>2, <2>3
  <2> QED
    BY <1>2, <2>2, <2>3, <2>4
<1>4. Len(s) \in 0..Len(s) /\ SubSeq(s, 1, Len(s)) = s
  OBVIOUS
<1> QED
  BY <1>3, <1>4

LEMMA ReadInTwo ==
  ASSUME NEW r \in Readers, NEW w \in Seq(Pieces), NEW n \in Nat, n <= Len(w)
  PROVE  /\ Source!Consumed(r, SubSeq(w, 1, n)) \in Readers
         /\ SubSeq(w, n + 1, Len(w)) \in Seq(Pieces)
         /\ Source!Consumed(Source!Consumed(r, SubSeq(w, 1, n)), SubSeq(w, n + 1, Len(w)))
               = Source!Consumed(r, w)
<1>1. PICK a : a = SubSeq(w, 1, n)
  OBVIOUS
<1>2. PICK b : b = SubSeq(w, n + 1, Len(w))
  OBVIOUS
<1>3. a \in Seq(Pieces)
  BY <1>1
<1>4. b \in Seq(Pieces)
  BY <1>2
<1>5. a \o b = w
  <2>1. PICK k : k = Len(w)
    OBVIOUS
  <2>2. 1 \in 1..(Len(w) + 1) /\ n \in (1 - 1)..Len(w) /\ k \in n..Len(w)
    BY <2>1
  <2>3. SubSeq(w, 1, n) \o SubSeq(w, n + 1, k) = SubSeq(w, 1, k)
    BY <2>2, ConcatAdjacentSubSeq
  <2>4. SubSeq(w, 1, k) = w
    BY <2>1
  <2> QED
    BY <1>1, <1>2, <2>1, <2>3, <2>4
<1>6. Source!Consumed(r, a \o b) = Source!Consumed(Source!Consumed(r, a), b)
  BY <1>3, <1>4, ConsumedTwice
<1>7. Source!Consumed(r, a) \in Readers
  BY <1>3, ConsumedIsLonger DEF Longer
<1> QED
  BY <1>1, <1>2, <1>4, <1>5, <1>6, <1>7

-----------------------------------------------------------------------------
(* The invariant: what the reader will have handed on when it has read     *)
(* what is on its way is what the server has written.                      *)

Arriving(frames, pieces, r) ==
  /\ frames \in Seq(Frames) /\ pieces \in Seq(Pieces) /\ r \in Readers
  /\ Source!Consumed(r, pieces) = Between(Source!Blank, frames)

LEMMA ArrivingWhole ==
  ASSUME NEW frames, NEW pieces, NEW r, Arriving(frames, pieces, r)
  PROVE  /\ Source!IsPrefix(r.got, frames)
         /\ pieces = <<>> => r.got = frames
<1>1. Longer(r, Source!Consumed(r, pieces))
  BY ConsumedIsLonger DEF Arriving
<1>2. Source!Consumed(r, pieces).got = frames
  BY DEF Arriving, Between
<1>3. pieces = <<>> => Source!Consumed(r, pieces) = r
  BY NothingConsumed
<1> QED
  BY <1>1, <1>2, <1>3 DEF Longer

LEMMA ArrivingInit ==
  Arriving(<<>>, <<>>, [line |-> <<>>, frame |-> Source!Blank, got |-> <<>>])
<1>1. PICK r : r = [line |-> <<>>, frame |-> Source!Blank, got |-> <<>>]
  OBVIOUS
<1>2. <<>> \in Seq(Frames) /\ <<>> \in Seq(Pieces) /\ <<>> \in Seq(Opening) /\ <<>> \in Seq(Nat)
  OBVIOUS
<1>3. Source!Blank \in Frames
  BY <1>2 DEF Frames, Source!Blank, Source!Frame
<1>4. r \in Readers
  BY <1>1, <1>2, <1>3 DEF Readers
<1>5. Source!Consumed(r, <<>>) = r
  BY NothingConsumed
<1>6. r = Between(Source!Blank, <<>>)
  BY <1>1 DEF Between
<1> QED
  BY <1>1, <1>2, <1>4, <1>5, <1>6 DEF Arriving

LEMMA ArrivingWrite ==
  ASSUME NEW frames, NEW pieces, NEW r, Arriving(frames, pieces, r),
         NEW t \in Types, NEW i \in Nat, NEW num \in Nat
  PROVE  Arriving(Append(frames, Source!Frame(t, i, <<num>>)),
                  pieces \o Source!Written(Source!Frame(t, i, <<num>>)), r)
<1>1. PICK f : f = Source!Frame(t, i, <<num>>)
  OBVIOUS
<1>2. PICK w : w = Source!Written(f)
  OBVIOUS
<1>3. w \in Seq(Pieces)
  BY <1>1, <1>2, FrameRead
<1>4. Source!Consumed(Between(Source!Blank, frames), w) = Between(Source!Blank, Append(frames, f))
  BY <1>1, <1>2, FrameRead
<1>5. Source!Consumed(r, pieces \o w) = Source!Consumed(Source!Consumed(r, pieces), w)
  BY <1>3, ConsumedTwice DEF Arriving
<1>6. f \in Frames
  <2>1. <<num>> \in Seq(Nat)
    OBVIOUS
  <2> QED
    BY <1>1, <2>1 DEF Frames, Source!Frame
<1>7. Append(frames, f) \in Seq(Frames) /\ pieces \o w \in Seq(Pieces)
  BY <1>3, <1>6 DEF Arriving
<1> QED
  BY <1>1, <1>2, <1>4, <1>5, <1>7 DEF Arriving

LEMMA ArrivingRead ==
  ASSUME NEW frames, NEW pieces, NEW r, Arriving(frames, pieces, r),
         NEW n \in Nat, n <= Len(pieces)
  PROVE  Arriving(frames, SubSeq(pieces, n + 1, Len(pieces)),
                  Source!Chunk(r, SubSeq(pieces, 1, n)))
<1>1. pieces \in Seq(Pieces) /\ r \in Readers
  BY DEF Arriving
<1> QED
  BY <1>1, ReadInTwo DEF Arriving, Source!Chunk

LEMMA ArrivingFinish ==
  ASSUME NEW frames, NEW r, Arriving(frames, <<>>, r)
  PROVE  /\ r.line = <<>>
         /\ Source!EmitFrame(r) = r
<1>1. r = Between(Source!Blank, frames)
  BY NothingConsumed DEF Arriving
<1>2. r.line = <<>> /\ r.frame = Source!Blank
  BY <1>1 DEF Between
<1> QED
  BY <1>2 DEF Source!EmitFrame

ArrivingInv == Arriving(sent, wire, reader)

(* The frames that the reader hands on are a prefix of those the server    *)
(* has written, each whole, wherever the chunks of the network end, and    *)
(* whenever all the server wrote has been read, they have all been handed  *)
(* on: no frame is torn, joined to its neighbour or kept back.             *)
THEOREM FramesArriveWhole == Source!Spec => []Source!FramesWhole
<1>1. Source!Init => ArrivingInv
  BY ArrivingInit DEF Source!Init, ArrivingInv
<1>2. ArrivingInv /\ [Source!Next]_Source!vars => ArrivingInv'
  <2> SUFFICES ASSUME ArrivingInv, [Source!Next]_Source!vars PROVE ArrivingInv'
    OBVIOUS
  <2>1. PICK s : s = sent
    OBVIOUS
  <2>2. PICK w : w = wire
    OBVIOUS
  <2>3. PICK r : r = reader
    OBVIOUS
  <2>4. Arriving(s, w, r)
    BY <2>1, <2>2, <2>3 DEF ArrivingInv
  <2>5. s \in Seq(Frames) /\ w \in Seq(Pieces)
    BY <2>4 DEF Arriving
  <2>6. CASE \E type \in Types : Source!Write(type)
    <3>1. PICK type \in Types : Source!Write(type)
      BY <2>6
    <3>2. PICK n : n = Len(s) + 1
      OBVIOUS
    <3>3. PICK i : i = (IF type \in NumberedTypes THEN n ELSE 0)
      OBVIOUS
    <3>4. n \in Nat /\ i \in Nat
      BY <2>5, <3>2, <3>3
    <3>5. /\ sent' = Append(s, Source!Frame(type, i, <<n>>))
          /\ wire' = w \o Source!Written(Source!Frame(type, i, <<n>>))
          /\ reader' = r
      BY <2>1, <2>2, <2>3, <3>1, <3>2, <3>3, Zenon DEF Source!Write
    <3>6. Arriving(Append(s, Source!Frame(type, i, <<n>>)),
                   w \o Source!Written(Source!Frame(type, i, <<n>>)), r)
      BY <2>4, <3>4, ArrivingWrite
    <3> QED
      BY <3>5, <3>6, Zenon DEF ArrivingInv
  <2>7. CASE \E n \in 1..MaxChunk : Source!Read(n)
    <3>1. PICK n \in 1..MaxChunk : Source!Read(n)
      BY <2>7
    <3>2. n \in Nat /\ n <= Len(w)
      BY <2>2, <3>1 DEF Source!Read
    <3>3. /\ reader' = Source!Chunk(r, SubSeq(w, 1, n))
          /\ wire' = SubSeq(w, n + 1, Len(w))
          /\ sent' = s
      BY <2>1, <2>2, <2>3, <3>1, Zenon DEF Source!Read
    <3>4. Arriving(s, SubSeq(w, n + 1, Len(w)), Source!Chunk(r, SubSeq(w, 1, n)))
      BY <2>4, <3>2, ArrivingRead
    <3> QED
      BY <3>3, <3>4, Zenon DEF ArrivingInv
  <2>8. CASE Source!Finish
    <3>1. w = <<>> /\ sent' = s /\ wire' = w
      BY <2>1, <2>2, <2>8 DEF Source!Finish
    <3>2. r.line = <<>> /\ Source!EmitFrame(r) = r
      BY <2>4, <3>1, ArrivingFinish
    <3>3. reader' = Source!EmitFrame(IF r.line = <<>> THEN r
                                     ELSE Source!ConsumeLine([r EXCEPT !.line = <<>>], r.line))
      BY <2>3, <2>8, Zenon DEF Source!Finish
    <3>4. reader' = r
      BY <3>2, <3>3
    <3> QED
      BY <2>4, <3>1, <3>4, Zenon DEF ArrivingInv
  <2>9. CASE Source!Break
    <3>1. sent' = s /\ wire' = w /\ reader' = r
      BY <2>1, <2>2, <2>3, <2>9 DEF Source!Break
    <3> QED
      BY <2>4, <3>1, Zenon DEF ArrivingInv
  <2>10. CASE UNCHANGED Source!vars
    <3>1. sent' = s /\ wire' = w /\ reader' = r
      BY <2>1, <2>2, <2>3, <2>10 DEF Source!vars
    <3> QED
      BY <2>4, <3>1, Zenon DEF ArrivingInv
  <2> QED
    BY <2>6, <2>7, <2>8, <2>9, <2>10 DEF Source!Next
<1>3. ArrivingInv => Source!FramesWhole
  <2> SUFFICES ASSUME ArrivingInv PROVE Source!FramesWhole
    OBVIOUS
  <2>1. /\ Source!IsPrefix(reader.got, sent)
        /\ wire = <<>> => reader.got = sent
    BY ArrivingWhole DEF ArrivingInv
  <2> QED
    BY <2>1 DEF Source!FramesWhole
<1> QED
  BY <1>1, <1>2, <1>3, PTL DEF Source!Spec

-----------------------------------------------------------------------------
(* The list of pending requests.  WebRequests is another part of the page, *)
(* with state of its own.                                                  *)

CONSTANTS Requests, Sessions, QuestionIDs, Keys, Texts, Numbers, JSONTexts, MaxCalls,
          MaxRequestOps

VARIABLES waiting, gone, received, session, lists, issued, calls, error, resolving,
          answers, drafts, wrong, left, answered, requestOps

Pending == INSTANCE WebRequests WITH MaxOps <- MaxRequestOps, ops <- requestOps

(* Requests are told apart by their ids, and each is of a session.         *)
RequestsApart ==
  /\ \A p, q \in Requests : p.id = q.id => p = q
  /\ \A q \in Requests : q.session \in Sessions

(* A request is over for good; one that has left its list is over.         *)
Known ==
  /\ waiting \subseteq Requests
  /\ gone \subseteq Requests
  /\ waiting \cap gone = {}
  /\ left \subseteq gone
  /\ \A a \in received : a.request \in gone

(* A list that was asked for.                                              *)
IsCall(c) ==
  /\ DOMAIN c = {"seq", "session", "phase", "list"}
  /\ c.seq \in 1..issued
  /\ c.session \in Sessions
  /\ c.list \subseteq waiting \cup gone
  /\ \A q \in c.list : q.session = c.session

Numbered ==
  /\ issued \in Nat
  /\ session \in Sessions
  /\ \A c \in calls : IsCall(c)

(* Only one list was asked for last.                                       *)
Distinct == \A c, d \in calls : c.seq = d.seq => c = d

ListsKnown ==
  /\ DOMAIN lists = Sessions
  /\ \A s \in Sessions :
       lists[s] \subseteq waiting \cup gone /\ \A q \in lists[s] : q.session = s

(* The one list that may still be shown lacks only requests that are over, *)
(* and has nothing that has left the list but what was answered since it   *)
(* was asked for.                                                          *)
LatestTells ==
  \A c \in calls :
    c.phase = "answered" /\ c.seq = issued =>
      /\ lists[c.session] \subseteq c.list \cup gone
      /\ \A q \in c.list \cap left : q \in lists[c.session] \cup answered

ListInv == Known /\ Numbered /\ Distinct /\ ListsKnown /\ LatestTells

-----------------------------------------------------------------------------

(* A step that leaves the lists alone; requests may come and be over.      *)
LEMMA NoList ==
  ASSUME ListInv, Known', gone \subseteq gone', waiting \cup gone \subseteq waiting' \cup gone',
         UNCHANGED <<session, issued, calls, lists, left, answered>>
  PROVE  ListInv' /\ Pending!ReturnsStep
<1>1. Numbered'
  BY DEF ListInv, Numbered, IsCall
<1>2. Distinct' /\ ListsKnown'
  BY DEF ListInv, Distinct, ListsKnown
<1>3. LatestTells'
  BY DEF ListInv, LatestTells
<1>4. Pending!ReturnsStep
  BY DEF Pending!ReturnsStep, Pending!Listed
<1> QED
  BY <1>1, <1>2, <1>3, <1>4 DEF ListInv

LEMMA IssuedStep ==
  ASSUME ListInv, NEW s \in Sessions, Pending!Issued(s), session' \in Sessions,
         UNCHANGED <<waiting, gone, received, lists, left>>
  PROVE  ListInv' /\ Pending!ReturnsStep
<1>1. PICK n : n = Pending!NewCall(s)
  OBVIOUS
<1>2. /\ n.seq = issued + 1 /\ n.phase = "sent" /\ n.session = s /\ n.list = {}
      /\ DOMAIN n = {"seq", "session", "phase", "list"}
  BY <1>1 DEF Pending!NewCall
<1>3. issued' = issued + 1 /\ calls' = calls \cup {n} /\ issued' \in Nat /\ issued' >= 1
  BY <1>1 DEF Pending!Issued, ListInv, Numbered
<1>4. \A c \in calls : c.seq \in 1..issued /\ c.seq # issued'
  BY <1>3 DEF ListInv, Numbered, IsCall
<1>5. Numbered'
  <2>1. IsCall(n)'
    BY <1>2, <1>3 DEF IsCall
  <2>2. \A c \in calls : IsCall(c)'
    BY <1>3 DEF ListInv, Numbered, IsCall
  <2> QED
    BY <1>3, <2>1, <2>2 DEF Numbered
<1>6. Distinct'
  BY <1>2, <1>3, <1>4 DEF ListInv, Distinct
<1>7. LatestTells'
  BY <1>2, <1>3, <1>4 DEF LatestTells
<1>8. Known' /\ ListsKnown'
  BY DEF ListInv, Known, ListsKnown
<1>9. Pending!ReturnsStep
  BY DEF Pending!ReturnsStep, Pending!Listed
<1> QED
  BY <1>5, <1>6, <1>7, <1>8, <1>9 DEF ListInv

LEMMA AnsweredStep ==
  ASSUME ListInv, Pending!ListAnswered
  PROVE  ListInv' /\ Pending!ReturnsStep
<1>1. PICK c \in calls :
        /\ c.phase = "sent"
        /\ calls' = (calls \ {c}) \cup
             {[c EXCEPT !.phase = "answered", !.list = {q \in waiting : q.session = c.session}]}
        /\ UNCHANGED <<waiting, gone, received, session, issued, lists, left, answered>>
  BY DEF Pending!ListAnswered, Pending!server, Pending!history
<1>2. PICK d : d = [c EXCEPT !.phase = "answered",
                             !.list = {q \in waiting : q.session = c.session}]
  OBVIOUS
<1>3. IsCall(c)
  BY DEF ListInv, Numbered
<1>4. /\ d.seq = c.seq /\ d.session = c.session /\ DOMAIN d = DOMAIN c
      /\ d.list = {q \in waiting : q.session = c.session}
  BY <1>2, <1>3 DEF IsCall
<1>5. calls' = (calls \ {c}) \cup {d}
  BY <1>1, <1>2
<1>6. Numbered'
  <2>1. IsCall(d)
    BY <1>3, <1>4 DEF IsCall
  <2> QED
    BY <1>1, <1>5, <2>1 DEF ListInv, Numbered, IsCall
<1>7. Distinct'
  BY <1>4, <1>5 DEF ListInv, Distinct
<1>8. Known' /\ ListsKnown'
  BY <1>1 DEF ListInv, Known, ListsKnown
<1>9. LatestTells'
  <2>1. lists[d.session] \subseteq d.list \cup gone
    BY <1>3, <1>4 DEF ListInv, ListsKnown, IsCall
  <2>2. d.list \cap left = {}
    BY <1>4 DEF ListInv, Known
  <2> QED
    BY <1>1, <1>5, <2>1, <2>2 DEF ListInv, LatestTells
<1>10. Pending!ReturnsStep
  BY <1>1 DEF Pending!ReturnsStep, Pending!Listed
<1> QED
  BY <1>6, <1>7, <1>8, <1>9, <1>10 DEF ListInv

LEMMA LandsStep ==
  ASSUME RequestsApart, ListInv, Pending!ListLands
  PROVE  ListInv' /\ Pending!ReturnsStep
<1>1. PICK c \in calls :
        /\ c.phase = "answered"
        /\ calls' = calls \ {c}
        /\ IF Pending!IsLatest(c)
           THEN lists' = [lists EXCEPT ![c.session] = c.list] /\ Pending!Leave
           ELSE lists' = lists /\ left' = left
        /\ UNCHANGED <<waiting, gone, received, session, issued, answered>>
  BY DEF Pending!ListLands, Pending!server
<1>2. IsCall(c)
  BY DEF ListInv, Numbered
<1>3. Numbered'
  BY <1>1 DEF ListInv, Numbered, IsCall
<1>4. Distinct'
  BY <1>1 DEF ListInv, Distinct
<1>5. CASE Pending!IsLatest(c)
  <2>1. lists' = [lists EXCEPT ![c.session] = c.list]
    BY <1>1, <1>5
  <2>2. /\ lists[c.session] \subseteq c.list \cup gone
        /\ \A q \in c.list \cap left : q \in lists[c.session] \cup answered
    BY <1>1, <1>5 DEF ListInv, LatestTells, Pending!IsLatest
  <2>3. ListsKnown'
    BY <1>1, <1>2, <2>1 DEF ListInv, ListsKnown, IsCall
  <2>4. \A q \in Requests : Pending!Listed(q) /\ q \notin lists'[q.session] => q \in gone
    BY <1>2, <2>1, <2>2 DEF RequestsApart, ListInv, ListsKnown, IsCall, Pending!Listed
  <2>5. left' \subseteq gone
    BY <1>1, <1>5, <2>4 DEF Pending!Leave, ListInv, Known
  <2>6. Known'
    BY <1>1, <2>5 DEF ListInv, Known
  <2>7. \A d \in calls' : d.seq # issued'
    BY <1>1, <1>5 DEF ListInv, Distinct, Pending!IsLatest
  <2>8. LatestTells'
    BY <2>7 DEF LatestTells
  <2>9. Pending!ReturnsStep
    BY <1>2, <2>1, <2>2 DEF Pending!ReturnsStep, Pending!Listed, RequestsApart, ListInv, Known,
                            ListsKnown, IsCall
  <2> QED
    BY <1>3, <1>4, <2>3, <2>6, <2>8, <2>9 DEF ListInv
<1>6. CASE ~Pending!IsLatest(c)
  <2>1. lists' = lists /\ left' = left
    BY <1>1, <1>6
  <2>2. Known' /\ ListsKnown' /\ LatestTells'
    BY <1>1, <2>1 DEF ListInv, Known, ListsKnown, LatestTells
  <2>3. Pending!ReturnsStep
    BY <2>1 DEF Pending!ReturnsStep, Pending!Listed
  <2> QED
    BY <1>3, <1>4, <2>2, <2>3 DEF ListInv
<1> QED
  BY <1>5, <1>6

LEMMA FailsStep ==
  ASSUME ListInv, Pending!ListFails
  PROVE  ListInv' /\ Pending!ReturnsStep
<1>1. /\ calls' \subseteq calls
      /\ UNCHANGED <<waiting, gone, received, session, issued, lists, left, answered>>
  BY DEF Pending!ListFails, Pending!server, Pending!history
<1>2. Numbered' /\ Distinct' /\ LatestTells'
  BY <1>1 DEF ListInv, Numbered, IsCall, Distinct, LatestTells
<1>3. Known' /\ ListsKnown'
  BY <1>1 DEF ListInv, Known, ListsKnown
<1>4. Pending!ReturnsStep
  BY <1>1 DEF Pending!ReturnsStep, Pending!Listed
<1> QED
  BY <1>2, <1>3, <1>4 DEF ListInv

(* The request that was answered leaves the list, and is noted.            *)
LEMMA ResolvedStep ==
  ASSUME RequestsApart, ListInv, Pending!Resolved
  PROVE  ListInv' /\ Pending!ReturnsStep
<1>1. PICK a \in received :
        /\ lists' = [lists EXCEPT ![a.request.session] =
                       Pending!Without(lists[a.request.session], a.request.id)]
        /\ Pending!Leave
        /\ answered' = answered \cup {a.request}
        /\ UNCHANGED <<waiting, gone, received, session, issued, calls>>
  BY DEF Pending!Resolved, Pending!server
<1>2. PICK r : r = a.request
  OBVIOUS
<1>3. r \in gone /\ r \in Requests /\ r.session \in Sessions
  BY <1>1, <1>2 DEF ListInv, Known, RequestsApart
<1>4. \A s \in Sessions : lists'[s] \subseteq lists[s] /\ lists[s] \subseteq lists'[s] \cup {r}
  <2>1. lists[r.session] \subseteq Requests
    BY <1>3 DEF ListInv, ListsKnown, Known
  <2>2. lists' = [lists EXCEPT ![r.session] = {x \in lists[r.session] : x.id # r.id}]
    BY <1>1, <1>2 DEF Pending!Without
  <2>3. {x \in lists[r.session] : x.id # r.id} = lists[r.session] \ {r}
    BY <1>3, <2>1 DEF RequestsApart
  <2> QED
    BY <1>3, <2>2, <2>3 DEF ListInv, ListsKnown
<1>5. ListsKnown'
  BY <1>1, <1>4 DEF ListInv, ListsKnown
<1>6. left' \subseteq left \cup {r}
  BY <1>1, <1>4 DEF Pending!Leave, Pending!Listed, RequestsApart
<1>7. Known'
  BY <1>1, <1>3, <1>6 DEF ListInv, Known
<1>8. Numbered' /\ Distinct'
  BY <1>1 DEF ListInv, Numbered, IsCall, Distinct
<1>9. LatestTells'
  <2> SUFFICES ASSUME NEW c \in calls, c.phase = "answered", c.seq = issued
               PROVE  /\ lists'[c.session] \subseteq c.list \cup gone
                      /\ \A q \in c.list \cap left' : q \in lists'[c.session] \cup answered'
    BY <1>1 DEF LatestTells
  <2>1. c.session \in Sessions
    BY DEF ListInv, Numbered, IsCall
  <2>2. /\ lists[c.session] \subseteq c.list \cup gone
        /\ \A q \in c.list \cap left : q \in lists[c.session] \cup answered
    BY DEF ListInv, LatestTells
  <2> QED
    BY <1>1, <1>2, <1>4, <1>6, <2>1, <2>2
<1>10. Pending!ReturnsStep
  BY <1>4 DEF Pending!ReturnsStep, Pending!Listed, RequestsApart, ListInv, Known
<1> QED
  BY <1>5, <1>7, <1>8, <1>9, <1>10 DEF ListInv

-----------------------------------------------------------------------------
(* What the user and the server do to the requests leaves the lists alone. *)

LEMMA UserLeaves ==
  ASSUME NEW q \in Requests, Pending!UserNext(q)
  PROVE  UNCHANGED <<waiting, gone, received, session, issued, calls, lists, left, answered>>
<1>1. CASE \E x \in Pending!ToSet(Pending!DescribePendingRequest(q).questions) :
             Pending!Choose(q, x) \/ \E text \in Texts : Pending!Type(q, x, text)
  BY <1>1 DEF Pending!Choose, Pending!Type, Pending!Edit, Pending!server, Pending!listing,
              Pending!history
<1>2. CASE \/ \E f \in Pending!ToSet(Pending!DescribePendingRequest(q).fields), text \in Texts : Pending!Fill(q, f, text)
           \/ \E text \in Texts : Pending!TypeJSON(q, text)
  BY <1>2 DEF Pending!Fill, Pending!TypeJSON, Pending!Edit, Pending!server, Pending!listing,
              Pending!history
<1>3. CASE Pending!Decide(q)
  BY <1>3 DEF Pending!Decide, Pending!Resolve, Pending!server, Pending!listing, Pending!history
<1>4. CASE Pending!SubmitUserInput(q)
  BY <1>4 DEF Pending!SubmitUserInput, Pending!Complain, Pending!Resolve, Pending!server,
              Pending!listing, Pending!history
<1>5. CASE Pending!SubmitMcpForm(q)
  BY <1>5 DEF Pending!SubmitMcpForm, Pending!Complain, Pending!Resolve, Pending!server,
              Pending!listing, Pending!history
<1>6. CASE Pending!SubmitGenericJSON(q)
  BY <1>6 DEF Pending!SubmitGenericJSON, Pending!Complain, Pending!Resolve, Pending!server,
              Pending!listing, Pending!history
<1> QED
  BY <1>1, <1>2, <1>3, <1>4, <1>5, <1>6 DEF Pending!UserNext

(* A request is asked, withdrawn or answered.                              *)
LEMMA ServerStep ==
  ASSUME RequestsApart, ListInv,
         \/ \E q \in Requests : Pending!Ask(q) \/ Pending!Withdraw(q)
         \/ Pending!Accept
  PROVE  ListInv' /\ Pending!ReturnsStep
<1>1. UNCHANGED <<session, issued, calls, lists, left, answered>>
  BY DEF Pending!Ask, Pending!Withdraw, Pending!Accept, Pending!listing, Pending!history
<1>2. ASSUME NEW q \in waiting PROVE Pending!Without(waiting, q.id) = waiting \ {q}
  BY <1>2 DEF Pending!Without, RequestsApart, ListInv, Known
<1>3. CASE \E q \in Requests : Pending!Ask(q)
  <2>1. PICK q \in Requests : /\ q \notin waiting \cup gone /\ waiting' = waiting \cup {q}
                              /\ gone' = gone /\ received' = received
    BY <1>3 DEF Pending!Ask
  <2>2. Known'
    BY <1>1, <2>1 DEF ListInv, Known
  <2> QED
    BY <1>1, <2>1, <2>2, NoList
<1>4. CASE \E q \in Requests : Pending!Withdraw(q)
  <2>1. PICK q \in waiting : /\ waiting' = waiting \ {q} /\ gone' = gone \cup {q}
                             /\ received' = received
    BY <1>2, <1>4 DEF Pending!Withdraw
  <2>2. Known'
    BY <1>1, <2>1 DEF ListInv, Known
  <2> QED
    BY <1>1, <2>1, <2>2, NoList
<1>5. CASE Pending!Accept
  <2>1. PICK a : /\ a.request \in waiting /\ waiting' = waiting \ {a.request}
                 /\ gone' = gone \cup {a.request} /\ received' = received \cup {a}
    BY <1>2, <1>5 DEF Pending!Accept
  <2>2. Known'
    BY <1>1, <2>1 DEF ListInv, Known
  <2> QED
    BY <1>1, <2>1, <2>2, NoList
<1> QED
  BY <1>3, <1>4, <1>5

LEMMA ListStep ==
  ASSUME RequestsApart, ListInv, [Pending!Next]_Pending!vars
  PROVE  ListInv' /\ [Pending!ReturnsStep]_Pending!vars
<1>1. ASSUME NEW q \in Requests, Pending!Ask(q) \/ Pending!Withdraw(q) \/ Pending!UserNext(q)
      PROVE  ListInv' /\ Pending!ReturnsStep
  <2>1. CASE Pending!Ask(q) \/ Pending!Withdraw(q)
    BY <2>1, ServerStep
  <2>2. CASE Pending!UserNext(q)
    <3>1. UNCHANGED <<waiting, gone, received, session, issued, calls, lists, left, answered>>
      BY <2>2, UserLeaves
    <3>2. Known'
      BY <3>1 DEF ListInv, Known
    <3> QED
      BY <3>1, <3>2, NoList
  <2> QED
    BY <1>1, <2>1, <2>2
<1>2. CASE Pending!Refresh
  BY <1>2, IssuedStep DEF Pending!Refresh, Pending!server, ListInv, Numbered
<1>3. ASSUME NEW s \in Sessions, Pending!Show(s)
      PROVE  ListInv' /\ Pending!ReturnsStep
  BY <1>3, IssuedStep DEF Pending!Show, Pending!server
<1>4. CASE Pending!ListAnswered \/ Pending!ListLands \/ Pending!ListFails
  BY <1>4, AnsweredStep, LandsStep, FailsStep
<1>5. CASE Pending!Accept
  BY <1>5, ServerStep
<1>6. CASE Pending!Resolved
  BY <1>6, ResolvedStep
<1>7. CASE Pending!ResolveFails \/ UNCHANGED Pending!vars
  <2>1. UNCHANGED <<waiting, gone, received, session, issued, calls, lists, left, answered>>
    BY <1>7 DEF Pending!ResolveFails, Pending!server, Pending!listing, Pending!history,
                Pending!vars
  <2>2. Known'
    BY <2>1 DEF ListInv, Known
  <2> QED
    BY <2>1, <2>2, NoList
<1> QED
  BY <1>1, <1>2, <1>3, <1>4, <1>5, <1>6, <1>7 DEF Pending!Next

(* However the answers to any number of lists are delayed, reordered or    *)
(* lost while the user moves between sessions: a request that has left the *)
(* list of its session comes back to it in one case only, when it was      *)
(* answered here and the list asked for last was computed before           *)
(* (requestSeqRef and resolve in use-codex-pending-requests.ts).  Requests *)
(* are told apart by their ids, and each is of one of the sessions.        *)
THEOREM GoneRequestsStayGone ==
  ASSUME RequestsApart
  PROVE  Pending!Spec => Pending!RequestsStayGone
<1>1. Pending!Init => ListInv
  <2> SUFFICES ASSUME Pending!Init PROVE ListInv
    OBVIOUS
  <2>1. /\ issued = 0 /\ session \in Sessions /\ calls = {} /\ waiting = {} /\ gone = {}
        /\ received = {} /\ left = {} /\ lists = [s \in Sessions |-> {}]
    BY DEF Pending!Init
  <2> QED
    BY <2>1 DEF ListInv, Known, Numbered, Distinct, ListsKnown, LatestTells
<1>2. ListInv /\ [Pending!Next]_Pending!vars => ListInv' /\ [Pending!ReturnsStep]_Pending!vars
  BY ListStep
<1> QED
  BY <1>1, <1>2, PTL DEF Pending!Spec, Pending!RequestsStayGone

-----------------------------------------------------------------------------
(* The answers to the requests.                                            *)

Questions(q) == Pending!ToSet(Pending!DescribePendingRequest(q).questions)
Fields(q) == Pending!ToSet(Pending!DescribePendingRequest(q).fields)

(* The questions and the fields of a request are told apart by their names.*)
WellFormed(q) ==
  /\ \A x \in Questions(q) : x.id \in QuestionIDs /\ "__other__" \notin Pending!ToSet(x.options)
  /\ \A x, y \in Questions(q) : x.id = y.id => x = y
  /\ \A f, g \in Fields(q) : f.key = g.key => f = g

Typed == Texts \cup {""}

Selections == {"", "__other__"} \cup
           UNION {UNION {Pending!ToSet(x.options) : x \in Questions(q)} : q \in Requests}

Drafts == [selected : [QuestionIDs -> Selections], other : [QuestionIDs -> Typed],
           fields : [Keys -> Typed], json : Typed \cup {"{}"}]

Ids == {q.id : q \in Requests}

(* What is chosen for a question is one of its options.                    *)
Chosen(x, draft) ==
  draft.selected[x.id] \in {"", "__other__"} \cup Pending!ToSet(x.options)

DraftsOK(d) ==
  /\ d \in [Ids -> Drafts]
  /\ \A q \in Requests : \A x \in Questions(q) : Chosen(x, d[q.id])

(* What CompleteAnswers says of one answer.                                *)
Complete(a) ==
  LET d == Pending!DescribePendingRequest(a.request)
  IN /\ d.kind = "tool-user-input" =>
          \A k \in DOMAIN d.questions : \E text \in Texts \cup Pending!ToSet(d.questions[k].options) :
            text \notin {"", "__other__"} /\ <<d.questions[k].id, text>> \in a.payload.answers
     /\ d.kind = "mcp-form" /\ a.payload.decision = "accept" =>
          \A k \in DOMAIN d.fields :
            LET f == d.fields[k]
                values == {p[2] : p \in {v \in a.payload.content : v[1] = f.key}}
            IN /\ f.required => values # {}
               /\ f.type \in {"number", "integer"} => values \subseteq Numbers

AnswersInv ==
  /\ DraftsOK(drafts)
  /\ \A a \in answers : Complete(a)
  /\ \A a \in received : Complete(a)

LEMMA KindDecisions ==
  ASSUME NEW q
  PROVE  LET d == Pending!DescribePendingRequest(q)
         IN /\ d.kind = "tool-user-input" => d.decisions = <<>>
            /\ d.kind = "mcp-form" => d.decisions = <<"decline", "cancel">>
BY DEF Pending!DescribePendingRequest, Pending!Descriptor

LEMMA InSet ==
  ASSUME NEW s, NEW k \in DOMAIN s
  PROVE  s[k] \in Pending!ToSet(s)
BY DEF Pending!ToSet

(* Nothing is accepted by a button of a form.                              *)
LEMMA DecisionComplete ==
  ASSUME NEW q, NEW c \in Pending!ToSet(Pending!DescribePendingRequest(q).decisions)
  PROVE  Complete([request |-> q, payload |-> Pending!Payload(c, {}, {}, "")])
<1>1. PICK d : d = Pending!DescribePendingRequest(q)
  OBVIOUS
<1>2. d.kind # "tool-user-input"
  <2>1. d.decisions = <<>> => Pending!ToSet(d.decisions) = {}
    BY DEF Pending!ToSet
  <2> QED
    BY <1>1, <2>1, KindDecisions
<1>3. d.kind = "mcp-form" => c # "accept"
  <2>1. d.decisions = <<"decline", "cancel">> => c \in {"decline", "cancel"}
    BY <1>1 DEF Pending!ToSet
  <2> QED
    BY <1>1, <2>1, KindDecisions
<1>4. PICK a : a = [request |-> q, payload |-> Pending!Payload(c, {}, {}, "")]
  OBVIOUS
<1>5. a.request = q /\ a.payload.decision = c
  BY <1>4 DEF Pending!Payload
<1>6. Complete(a)
  BY <1>1, <1>2, <1>3, <1>5, Zenon DEF Complete
<1> QED
  BY <1>4, <1>6

GivenIn(draft, x) ==
  IF draft.selected[x.id] = "__other__" THEN draft.other[x.id] ELSE draft.selected[x.id]

(* An answer to every question.                                            *)
LEMMA InputComplete ==
  ASSUME NEW q, WellFormed(q), NEW draft \in Drafts, "__other__" \notin Texts,
         \A x \in Questions(q) : Chosen(x, draft),
         \A x \in Questions(q) : GivenIn(draft, x) # "",
         Pending!Kind(q) = "tool-user-input"
  PROVE  Complete([request |-> q,
                   payload |-> Pending!Payload("", {<<x.id, GivenIn(draft, x)>> : x \in Questions(q)}, {}, "")])
<1>1. PICK d : d = Pending!DescribePendingRequest(q)
  OBVIOUS
<1>2. PICK a : a = [request |-> q, payload |->
                      Pending!Payload("", {<<x.id, GivenIn(draft, x)>> : x \in Questions(q)}, {}, "")]
  OBVIOUS
<1>3. /\ a.request = q
      /\ a.payload.answers = {<<x.id, GivenIn(draft, x)>> : x \in Questions(q)}
  BY <1>2 DEF Pending!Payload
<1>4. ASSUME NEW k \in DOMAIN d.questions
      PROVE  \E text \in Texts \cup Pending!ToSet(d.questions[k].options) :
               text \notin {"", "__other__"} /\ <<d.questions[k].id, text>> \in a.payload.answers
  <2>1. PICK x : x = d.questions[k]
    OBVIOUS
  <2>2. x \in Questions(q)
    BY <1>1, <2>1, InSet DEF Questions
  <2>3. x.id \in QuestionIDs /\ "__other__" \notin Pending!ToSet(x.options)
    BY <2>2 DEF WellFormed
  <2>4. GivenIn(draft, x) # "" /\ <<x.id, GivenIn(draft, x)>> \in a.payload.answers
    BY <1>3, <2>2
  <2>5. CASE draft.selected[x.id] = "__other__"
    <3>1. draft.other[x.id] \in Typed
      BY <2>3 DEF Drafts
    <3>2. GivenIn(draft, x) = draft.other[x.id]
      BY <2>5 DEF GivenIn
    <3>3. GivenIn(draft, x) \in Texts /\ GivenIn(draft, x) # "__other__"
      BY <2>4, <3>1, <3>2 DEF Typed
    <3> QED
      BY <2>1, <2>4, <3>3
  <2>6. CASE draft.selected[x.id] # "__other__"
    <3>1. GivenIn(draft, x) = draft.selected[x.id]
      BY <2>6 DEF GivenIn
    <3>2. GivenIn(draft, x) \in Pending!ToSet(x.options) /\ GivenIn(draft, x) # "__other__"
      BY <2>2, <2>4, <2>6, <3>1 DEF Chosen
    <3> QED
      BY <2>1, <2>4, <3>2
  <2> QED
    BY <2>5, <2>6
<1>5. d.kind # "mcp-form"
  BY <1>1 DEF Pending!Kind
<1>6. Complete(a)
  BY <1>1, <1>3, <1>4, <1>5, Zenon DEF Complete
<1> QED
  BY <1>2, <1>6

Content(q, draft) ==
  {<<f.key, draft.fields[f.key]>> :
     f \in {g \in Fields(q) : g.type = "boolean" \/ draft.fields[g.key] # ""}}

(* An acceptable text in every field.                                      *)
LEMMA FormComplete ==
  ASSUME NEW q, WellFormed(q), NEW draft, NEW json,
         \A f \in Fields(q) : Pending!Acceptable(f, draft.fields[f.key]),
         Pending!Kind(q) = "mcp-form"
  PROVE  Complete([request |-> q, payload |-> Pending!Payload("accept", {}, Content(q, draft), json)])
<1>1. PICK d : d = Pending!DescribePendingRequest(q)
  OBVIOUS
<1>2. PICK a : a = [request |-> q, payload |->
                      Pending!Payload("accept", {}, Content(q, draft), json)]
  OBVIOUS
<1>3. a.request = q /\ a.payload.content = Content(q, draft)
  BY <1>2 DEF Pending!Payload
<1>4. ASSUME NEW k \in DOMAIN d.fields, NEW f, f = d.fields[k], NEW values,
             values = {p[2] : p \in {v \in a.payload.content : v[1] = f.key}}
      PROVE  /\ f.required => values # {}
             /\ f.type \in {"number", "integer"} => values \subseteq Numbers
  <2>1. f \in Fields(q)
    BY <1>1, <1>4, InSet DEF Fields
  <2>2. PICK text : text = draft.fields[f.key]
    OBVIOUS
  <2>3. Pending!Acceptable(f, text)
    BY <2>1, <2>2
  <2>4. ASSUME f.required PROVE values # {}
    <3>1. f.type = "boolean" \/ text # ""
      BY <2>3, <2>4 DEF Pending!Acceptable
    <3>2. PICK v : v = <<f.key, text>>
      OBVIOUS
    <3>3. v \in a.payload.content
      BY <1>3, <2>1, <2>2, <3>1, <3>2 DEF Content
    <3>4. v[1] = f.key /\ v[2] = text
      BY <3>2
    <3>5. text \in values
      BY <1>4, <3>3, <3>4
    <3> QED
      BY <3>5
  <2>5. ASSUME f.type \in {"number", "integer"}, NEW n \in values PROVE n \in Numbers
    <3>1. PICK v \in a.payload.content : v[1] = f.key /\ n = v[2]
      BY <1>4, <2>5
    <3>2. PICK g \in Fields(q) : /\ v = <<g.key, draft.fields[g.key]>>
                                 /\ g.type = "boolean" \/ draft.fields[g.key] # ""
      BY <1>3, <3>1 DEF Content
    <3>3. v[1] = g.key /\ v[2] = draft.fields[g.key]
      BY <3>2
    <3>4. g = f
      BY <2>1, <3>1, <3>2, <3>3 DEF WellFormed
    <3>5. n = text /\ text # ""
      BY <2>2, <2>5, <3>1, <3>2, <3>3, <3>4
    <3>6. f.type # "boolean"
      BY <2>5
    <3> QED
      BY <2>3, <2>5, <3>5, <3>6 DEF Pending!Acceptable
  <2> QED
    BY <2>4, <2>5
<1>5. d.kind # "tool-user-input"
  BY <1>1 DEF Pending!Kind
<1>6. Complete(a)
  BY <1>1, <1>3, <1>4, <1>5 DEF Complete
<1> QED
  BY <1>2, <1>6

(* JSON in the place of the fields of a form that has none.                *)
LEMMA PlainComplete ==
  ASSUME NEW q, NEW p, Pending!Kind(q) # "tool-user-input",
         Pending!Kind(q) = "mcp-form" => Fields(q) = {}
  PROVE  Complete([request |-> q, payload |-> p])
<1>1. PICK d : d = Pending!DescribePendingRequest(q)
  OBVIOUS
<1>2. PICK a : a = [request |-> q, payload |-> p]
  OBVIOUS
<1>3. a.request = q
  BY <1>2
<1>4. d.kind # "tool-user-input"
  BY <1>1 DEF Pending!Kind
<1>5. d.kind = "mcp-form" => DOMAIN d.fields = {}
  BY <1>1, InSet DEF Pending!Kind, Fields
<1>6. Complete(a)
  BY <1>1, <1>3, <1>4, <1>5 DEF Complete
<1> QED
  BY <1>2, <1>6

-----------------------------------------------------------------------------

RequestsWellFormed ==
  /\ \A q \in Requests : WellFormed(q)
  /\ \A p, q \in Requests : p.id = q.id => p = q
  /\ "__other__" \notin Texts

(* One draft is edited.                                                    *)
LEMMA EditKeeps ==
  ASSUME RequestsWellFormed, NEW d, DraftsOK(d), NEW q \in Requests, NEW draft \in Drafts,
         \A x \in Questions(q) : Chosen(x, draft)
  PROVE  DraftsOK([d EXCEPT ![q.id] = draft])
<1>1. PICK e : e = [d EXCEPT ![q.id] = draft]
  OBVIOUS
<1>2. q.id \in Ids
  BY DEF Ids
<1>3. e \in [Ids -> Drafts]
  BY <1>1, <1>2 DEF DraftsOK
<1>4. ASSUME NEW p \in Requests, NEW x \in Questions(p) PROVE Chosen(x, e[p.id])
  <2>1. p.id \in Ids
    BY DEF Ids
  <2>2. CASE p.id = q.id
    <3>1. p = q /\ e[p.id] = draft
      BY <1>1, <1>2, <2>2 DEF RequestsWellFormed, DraftsOK
    <3> QED
      BY <3>1
  <2>3. CASE p.id # q.id
    <3>1. e[p.id] = d[p.id]
      BY <1>1, <2>1, <2>3 DEF DraftsOK
    <3> QED
      BY <3>1 DEF DraftsOK
  <2> QED
    BY <2>2, <2>3
<1> QED
  BY <1>1, <1>3, <1>4 DEF DraftsOK

LEMMA ChooseKeeps ==
  ASSUME RequestsWellFormed, NEW d, DraftsOK(d), NEW q \in Requests, NEW x \in Questions(q),
         NEW option \in Pending!ToSet(x.options) \cup {"__other__"}
  PROVE  DraftsOK([d EXCEPT ![q.id] = [d[q.id] EXCEPT !.selected[x.id] = option]])
<1>1. PICK o : o = d[q.id]
  OBVIOUS
<1>2. o \in Drafts /\ \A y \in Questions(q) : Chosen(y, o)
  BY <1>1 DEF DraftsOK, Ids
<1>3. PICK draft : draft = [o EXCEPT !.selected[x.id] = option]
  OBVIOUS
<1>4. x.id \in QuestionIDs
  BY DEF RequestsWellFormed, WellFormed
<1>5. option \in Selections
  <2>1. CASE option = "__other__"
    BY <2>1 DEF Selections
  <2>2. CASE option \in Pending!ToSet(x.options)
    <3>1. PICK S : S = {Pending!ToSet(y.options) : y \in Questions(q)}
      OBVIOUS
    <3>2. option \in UNION S
      BY <2>2, <3>1
    <3> QED
      BY <3>1, <3>2 DEF Selections
  <2> QED
    BY <2>1, <2>2
<1>6. draft \in Drafts /\ draft.selected = [o.selected EXCEPT ![x.id] = option]
  <2>1. PICK sel : sel = [o.selected EXCEPT ![x.id] = option]
    OBVIOUS
  <2>2. sel \in [QuestionIDs -> Selections]
    BY <1>2, <1>4, <1>5, <2>1 DEF Drafts
  <2>3. draft = [selected |-> sel, other |-> o.other, fields |-> o.fields, json |-> o.json]
    BY <1>2, <1>3, <2>1 DEF Drafts
  <2> QED
    BY <1>2, <2>1, <2>2, <2>3 DEF Drafts
<1>7. o.selected \in [QuestionIDs -> Selections]
  BY <1>2 DEF Drafts
<1>8. ASSUME NEW y \in Questions(q) PROVE Chosen(y, draft)
  <2>1. y.id \in QuestionIDs /\ (y.id = x.id => y = x)
    BY DEF RequestsWellFormed, WellFormed
  <2>2. CASE y.id = x.id
    BY <1>4, <1>6, <1>7, <2>1, <2>2 DEF Chosen
  <2>3. CASE y.id # x.id
    <3>1. draft.selected[y.id] = o.selected[y.id]
      BY <1>6, <1>7, <2>1, <2>3
    <3> QED
      BY <1>2, <3>1 DEF Chosen
  <2> QED
    BY <2>2, <2>3
<1> QED
  BY <1>1, <1>3, <1>6, <1>8, EditKeeps

LEMMA TypeKeeps ==
  ASSUME RequestsWellFormed, NEW d, DraftsOK(d), NEW q \in Requests, NEW x \in Questions(q),
         NEW text \in Texts
  PROVE  DraftsOK([d EXCEPT ![q.id] = [d[q.id] EXCEPT !.other[x.id] = text,
                                                      !.selected[x.id] = "__other__"]])
<1>1. PICK o : o = d[q.id]
  OBVIOUS
<1>2. o \in Drafts /\ \A y \in Questions(q) : Chosen(y, o)
  BY <1>1 DEF DraftsOK, Ids
<1>3. PICK draft : draft = [o EXCEPT !.other[x.id] = text, !.selected[x.id] = "__other__"]
  OBVIOUS
<1>4. x.id \in QuestionIDs
  BY DEF RequestsWellFormed, WellFormed
<1>5. PICK sel : sel = [o.selected EXCEPT ![x.id] = "__other__"]
  OBVIOUS
<1>6. PICK oth : oth = [o.other EXCEPT ![x.id] = text]
  OBVIOUS
<1>7. /\ o.selected \in [QuestionIDs -> Selections] /\ o.other \in [QuestionIDs -> Typed]
      /\ "__other__" \in Selections /\ text \in Typed
  BY <1>2 DEF Drafts, Selections, Typed
<1>8. sel \in [QuestionIDs -> Selections] /\ oth \in [QuestionIDs -> Typed]
  BY <1>5, <1>6, <1>7
<1>9. draft = [selected |-> sel, other |-> oth, fields |-> o.fields, json |-> o.json]
  BY <1>2, <1>3, <1>5, <1>6 DEF Drafts
<1>10. draft \in Drafts
  BY <1>2, <1>8, <1>9 DEF Drafts
<1>11. ASSUME NEW y \in Questions(q) PROVE Chosen(y, draft)
  <2>1. y.id \in QuestionIDs
    BY DEF RequestsWellFormed, WellFormed
  <2>2. draft.selected[y.id] = IF y.id = x.id THEN "__other__" ELSE o.selected[y.id]
    BY <1>5, <1>7, <1>9, <2>1
  <2> QED
    BY <1>2, <2>2 DEF Chosen
<1> QED
  BY <1>1, <1>3, <1>10, <1>11, EditKeeps

(* Neither a field nor the JSON is of account to the questions.            *)
LEMMA RestKeeps ==
  ASSUME RequestsWellFormed, NEW d, DraftsOK(d), NEW q \in Requests, NEW draft \in Drafts,
         draft.selected = d[q.id].selected
  PROVE  DraftsOK([d EXCEPT ![q.id] = draft])
<1>1. \A x \in Questions(q) : Chosen(x, draft)
  BY DEF DraftsOK, Chosen
<1> QED
  BY <1>1, EditKeeps

LEMMA FillKeeps ==
  ASSUME RequestsWellFormed, NEW d, DraftsOK(d), NEW q \in Requests, NEW key,
         NEW text \in Texts
  PROVE  /\ DraftsOK([d EXCEPT ![q.id] = [d[q.id] EXCEPT !.fields[key] = text]])
         /\ DraftsOK([d EXCEPT ![q.id] = [d[q.id] EXCEPT !.json = text]])
<1>1. PICK o : o = d[q.id]
  OBVIOUS
<1>2. o \in Drafts
  BY <1>1 DEF DraftsOK, Ids
<1>3. PICK a : a = [o EXCEPT !.fields[key] = text]
  OBVIOUS
<1>4. PICK b : b = [o EXCEPT !.json = text]
  OBVIOUS
<1>5. PICK fields : fields = [o.fields EXCEPT ![key] = text]
  OBVIOUS
<1>6. text \in Typed /\ o.fields \in [Keys -> Typed]
  BY <1>2 DEF Drafts, Typed
<1>7. fields \in [Keys -> Typed]
  BY <1>5, <1>6
<1>8. a = [selected |-> o.selected, other |-> o.other, fields |-> fields, json |-> o.json]
  BY <1>2, <1>3, <1>5 DEF Drafts
<1>9. b = [selected |-> o.selected, other |-> o.other, fields |-> o.fields, json |-> text]
  BY <1>2, <1>4 DEF Drafts
<1>10. a \in Drafts /\ a.selected = o.selected
  BY <1>2, <1>7, <1>8 DEF Drafts
<1>11. b \in Drafts /\ b.selected = o.selected
  BY <1>2, <1>6, <1>9 DEF Drafts
<1> QED
  BY <1>1, <1>3, <1>4, <1>10, <1>11, RestKeeps

(* The lists that land leave what was chosen.                              *)
LEMMA JSONKeeps ==
  ASSUME DraftsOK(drafts), NEW shown
  PROVE  DraftsOK(Pending!WithJSON(shown))
<1>1. PICK d : d = drafts
  OBVIOUS
<1>2. PICK e : e = Pending!WithJSON(shown)
  OBVIOUS
<1>3. DOMAIN d = Ids /\ DOMAIN e = Ids
  BY <1>1, <1>2 DEF DraftsOK, Pending!WithJSON
<1>4. ASSUME NEW id \in Ids PROVE e[id] \in Drafts /\ e[id].selected = d[id].selected
  <2>1. e[id] = d[id] \/ e[id] = [d[id] EXCEPT !.json = "{}"]
    BY <1>1, <1>2, <1>3 DEF Pending!WithJSON
  <2>2. PICK o : o = d[id]
    OBVIOUS
  <2>3. o \in Drafts
    BY <1>1, <2>2 DEF DraftsOK
  <2>4. PICK j : j = [o EXCEPT !.json = "{}"]
    OBVIOUS
  <2>5. j = [selected |-> o.selected, other |-> o.other, fields |-> o.fields, json |-> "{}"]
    BY <2>3, <2>4 DEF Drafts
  <2>6. j \in Drafts /\ j.selected = o.selected
    BY <2>3, <2>5 DEF Drafts
  <2> QED
    BY <2>1, <2>2, <2>3, <2>4, <2>6
<1>5. e \in [Ids -> Drafts]
  <2>1. e = [id \in Ids |-> e[id]]
    BY <1>1, <1>2, <1>3 DEF Pending!WithJSON
  <2> QED
    BY <1>4, <2>1
<1>6. ASSUME NEW q \in Requests, NEW x \in Questions(q) PROVE Chosen(x, e[q.id])
  <2>1. q.id \in Ids
    BY DEF Ids
  <2> QED
    BY <1>1, <1>4, <2>1 DEF DraftsOK, Chosen
<1> QED
  BY <1>2, <1>5, <1>6 DEF DraftsOK

-----------------------------------------------------------------------------

(* An answer is sent that is complete.                                     *)
LEMMA ResolveKeeps ==
  ASSUME AnswersInv, NEW q, NEW p, Pending!Resolve(q, p), Complete([request |-> q, payload |-> p])
  PROVE  AnswersInv'
<1>1. /\ answers' = answers \cup {[request |-> q, payload |-> p]}
      /\ received' = received /\ drafts' = drafts
  BY DEF Pending!Resolve, Pending!server
<1>2. PICK d : d = drafts
  OBVIOUS
<1>3. DraftsOK(d) /\ drafts' = d
  BY <1>1, <1>2 DEF AnswersInv
<1>4. DraftsOK(drafts)'
  BY <1>3, Zenon
<1>5. \A a \in answers' : Complete(a)
  BY <1>1 DEF AnswersInv
<1>6. \A a \in received' : Complete(a)
  BY <1>1 DEF AnswersInv
<1> QED
  BY <1>4, <1>5, <1>6 DEF AnswersInv

(* The drafts change, or nothing does; no answer is sent.                  *)
LEMMA NothingSent ==
  ASSUME AnswersInv, NEW d, DraftsOK(d), drafts' = d,
         answers' \subseteq answers, received' \subseteq received \cup answers
  PROVE  AnswersInv'
<1>1. DraftsOK(drafts)'
  BY Zenon
<1>2. \A a \in answers' : Complete(a)
  BY DEF AnswersInv
<1>3. \A a \in received' : Complete(a)
  BY DEF AnswersInv
<1> QED
  BY <1>1, <1>2, <1>3 DEF AnswersInv

LEMMA ComplainKeeps ==
  ASSUME AnswersInv, NEW q, Pending!Complain(q)
  PROVE  AnswersInv'
<1>1. PICK d : d = drafts
  OBVIOUS
<1>2. DraftsOK(d)
  BY <1>1 DEF AnswersInv
<1>3. drafts' = d /\ answers' = answers /\ received' = received
  BY <1>1 DEF Pending!Complain, Pending!server
<1> QED
  BY <1>2, <1>3, NothingSent

LEMMA EditStep ==
  ASSUME RequestsWellFormed, AnswersInv, NEW q \in Requests,
         \/ \E x \in Questions(q) :
              Pending!Choose(q, x) \/ \E text \in Texts : Pending!Type(q, x, text)
         \/ \E f : \E text \in Texts : Pending!Fill(q, f, text)
         \/ \E text \in Texts : Pending!TypeJSON(q, text)
  PROVE  AnswersInv'
<1>1. PICK d : d = drafts
  OBVIOUS
<1>2. DraftsOK(d)
  BY <1>1 DEF AnswersInv
<1>3. CASE \E x \in Questions(q) : Pending!Choose(q, x)
  <2>1. PICK x \in Questions(q) : Pending!Choose(q, x)
    BY <1>3
  <2>2. PICK option \in Pending!ToSet(x.options) \cup {"__other__"} :
          /\ drafts' = [d EXCEPT ![q.id] = [d[q.id] EXCEPT !.selected[x.id] = option]]
          /\ answers' = answers /\ received' = received
    BY <1>1, <2>1 DEF Pending!Choose, Pending!Edit, Pending!server
  <2>3. DraftsOK([d EXCEPT ![q.id] = [d[q.id] EXCEPT !.selected[x.id] = option]])
    BY <1>2, ChooseKeeps
  <2> QED
    BY <2>2, <2>3, NothingSent
<1>4. CASE \E x \in Questions(q) : \E text \in Texts : Pending!Type(q, x, text)
  <2>1. PICK x \in Questions(q), text \in Texts : Pending!Type(q, x, text)
    BY <1>4
  <2>2. /\ drafts' = [d EXCEPT ![q.id] = [d[q.id] EXCEPT !.other[x.id] = text,
                                                         !.selected[x.id] = "__other__"]]
        /\ answers' = answers /\ received' = received
    BY <1>1, <2>1 DEF Pending!Type, Pending!Edit, Pending!server
  <2>3. DraftsOK([d EXCEPT ![q.id] = [d[q.id] EXCEPT !.other[x.id] = text,
                                                     !.selected[x.id] = "__other__"]])
    BY <1>2, TypeKeeps
  <2> QED
    BY <2>2, <2>3, NothingSent
<1>5. CASE \E f : \E text \in Texts : Pending!Fill(q, f, text)
  <2>a. PICK f : \E text \in Texts : Pending!Fill(q, f, text)
    BY <1>5
  <2>1. PICK text \in Texts : Pending!Fill(q, f, text)
    BY <2>a
  <2>2. /\ drafts' = [d EXCEPT ![q.id] = [d[q.id] EXCEPT !.fields[f.key] = text]]
        /\ answers' = answers /\ received' = received
    BY <1>1, <2>1 DEF Pending!Fill, Pending!Edit, Pending!server
  <2>3. DraftsOK([d EXCEPT ![q.id] = [d[q.id] EXCEPT !.fields[f.key] = text]])
    BY <1>2, FillKeeps
  <2> QED
    BY <2>2, <2>3, NothingSent
<1>6. CASE \E text \in Texts : Pending!TypeJSON(q, text)
  <2>1. PICK text \in Texts : Pending!TypeJSON(q, text)
    BY <1>6
  <2>2. /\ drafts' = [d EXCEPT ![q.id] = [d[q.id] EXCEPT !.json = text]]
        /\ answers' = answers /\ received' = received
    BY <1>1, <2>1 DEF Pending!TypeJSON, Pending!Edit, Pending!server
  <2>3. DraftsOK([d EXCEPT ![q.id] = [d[q.id] EXCEPT !.json = text]])
    BY <1>2, FillKeeps
  <2> QED
    BY <2>2, <2>3, NothingSent
<1> QED
  BY <1>3, <1>4, <1>5, <1>6

LEMMA SubmitAnswer ==
  ASSUME RequestsWellFormed, AnswersInv, NEW q \in Requests,
         \/ Pending!Decide(q) \/ Pending!SubmitUserInput(q)
         \/ Pending!SubmitMcpForm(q) \/ Pending!SubmitGenericJSON(q)
  PROVE  AnswersInv'
<1>1. PICK draft : draft = drafts[q.id]
  OBVIOUS
<1>2. draft \in Drafts /\ \A x \in Questions(q) : Chosen(x, draft)
  BY <1>1 DEF AnswersInv, DraftsOK, Ids
<1>3. CASE Pending!Decide(q)
  BY <1>3, DecisionComplete, ResolveKeeps DEF Pending!Decide
<1>4. CASE Pending!SubmitUserInput(q)
  <2>1. \A x : Pending!Given(q, x) = GivenIn(draft, x)
    BY <1>1 DEF Pending!Given, GivenIn
  <2>2. CASE \E x \in Questions(q) : GivenIn(draft, x) = ""
    BY <1>4, <2>1, <2>2, ComplainKeeps DEF Pending!SubmitUserInput, Questions
  <2>3. CASE \A x \in Questions(q) : GivenIn(draft, x) # ""
    <3>1. PICK p : p = Pending!Payload("", {<<x.id, GivenIn(draft, x)>> : x \in Questions(q)}, {}, "")
      OBVIOUS
    <3>2. Pending!Resolve(q, p) /\ Pending!Kind(q) = "tool-user-input"
      BY <1>4, <2>1, <2>3, <3>1 DEF Pending!SubmitUserInput, Questions
    <3>3. Complete([request |-> q, payload |-> p])
      BY <1>2, <2>3, <3>1, <3>2, InputComplete DEF RequestsWellFormed
    <3> QED
      BY <3>2, <3>3, ResolveKeeps
  <2> QED
    BY <2>2, <2>3
<1>5. CASE Pending!SubmitMcpForm(q)
  <2>1. CASE Pending!Complain(q)
    BY <2>1, ComplainKeeps
  <2>2. CASE ~Pending!Complain(q)
    <3>1. PICK p : p = Pending!Payload("accept", {}, Content(q, draft),
                                       IF Fields(q) = {} THEN draft.json ELSE "")
      OBVIOUS
    <3>2. /\ Pending!Resolve(q, p) /\ Pending!Kind(q) = "mcp-form"
          /\ Fields(q) # {} => \A f \in Fields(q) : Pending!Acceptable(f, draft.fields[f.key])
      BY <1>1, <1>5, <2>2, <3>1 DEF Pending!SubmitMcpForm, Content, Fields
    <3>3. CASE Fields(q) = {}
      BY <3>2, <3>3, PlainComplete, ResolveKeeps
    <3>4. CASE Fields(q) # {}
      <4>1. Complete([request |-> q, payload |-> p])
        BY <3>1, <3>2, <3>4, FormComplete DEF RequestsWellFormed
      <4> QED
        BY <3>2, <4>1, ResolveKeeps
    <3> QED
      BY <3>3, <3>4
  <2> QED
    BY <2>1, <2>2
<1>6. CASE Pending!SubmitGenericJSON(q)
  <2>1. CASE Pending!Complain(q)
    BY <2>1, ComplainKeeps
  <2>2. CASE ~Pending!Complain(q)
    <3>1. PICK p : Pending!Resolve(q, p)
      BY <1>6, <2>2 DEF Pending!SubmitGenericJSON
    <3>2. Complete([request |-> q, payload |-> p])
      BY <1>6, PlainComplete DEF Pending!SubmitGenericJSON
    <3> QED
      BY <3>1, <3>2, ResolveKeeps
  <2> QED
    BY <2>1, <2>2
<1> QED
  BY <1>3, <1>4, <1>5, <1>6

(* The server only ever receives answers that are complete: whatever lists *)
(* replace one another under the input, whatever the user chooses, types   *)
(* and changes, whatever is refused and sent again.  The ids of requests,  *)
(* of the questions of one and the keys of the fields of one differ, and   *)
(* the mark of another answer is no answer (SessionPendingRequests.tsx).   *)
THEOREM AnswersAreComplete ==
  ASSUME RequestsWellFormed
  PROVE  Pending!Spec => []Pending!CompleteAnswers
<1>1. Pending!Init => AnswersInv
  <2> SUFFICES ASSUME Pending!Init PROVE AnswersInv
    OBVIOUS
  <2>1. PICK d : d = drafts
    OBVIOUS
  <2>2. d = [id \in Ids |-> Pending!NoDraft]
    BY <2>1 DEF Pending!Init, Ids
  <2>3. Pending!NoDraft \in Drafts
    BY DEF Pending!NoDraft, Drafts, Selections, Typed
  <2>4. d \in [Ids -> Drafts]
    BY <2>2, <2>3
  <2>5. ASSUME NEW q \in Requests, NEW x \in Questions(q) PROVE Chosen(x, d[q.id])
    <3>1. q.id \in Ids
      BY DEF Ids
    <3>2. x.id \in QuestionIDs
      BY DEF RequestsWellFormed, WellFormed
    <3> QED
      BY <2>2, <3>1, <3>2 DEF Chosen, Pending!NoDraft
  <2>6. DraftsOK(drafts)
    BY <2>1, <2>4, <2>5 DEF DraftsOK
  <2> QED
    BY <2>6 DEF AnswersInv, Pending!Init
<1>2. AnswersInv /\ [Pending!Next]_Pending!vars => AnswersInv'
  <2> SUFFICES ASSUME AnswersInv, [Pending!Next]_Pending!vars PROVE AnswersInv'
    OBVIOUS
  <2>1. PICK d : d = drafts
    OBVIOUS
  <2>2. DraftsOK(d)
    BY <2>1 DEF AnswersInv
  <2>3. ASSUME NEW q \in Requests, Pending!UserNext(q) PROVE AnswersInv'
    <3>1. \/ \/ \E x \in Questions(q) :
                  Pending!Choose(q, x) \/ \E text \in Texts : Pending!Type(q, x, text)
             \/ \E f : \E text \in Texts : Pending!Fill(q, f, text)
             \/ \E text \in Texts : Pending!TypeJSON(q, text)
          \/ \/ Pending!Decide(q) \/ Pending!SubmitUserInput(q)
             \/ Pending!SubmitMcpForm(q) \/ Pending!SubmitGenericJSON(q)
      BY <2>3, Zenon DEF Pending!UserNext, Questions
    <3>2. CASE \/ \E x \in Questions(q) :
                  Pending!Choose(q, x) \/ \E text \in Texts : Pending!Type(q, x, text)
               \/ \E f : \E text \in Texts : Pending!Fill(q, f, text)
               \/ \E text \in Texts : Pending!TypeJSON(q, text)
      BY <3>2, EditStep
    <3>3. CASE \/ Pending!Decide(q) \/ Pending!SubmitUserInput(q)
               \/ Pending!SubmitMcpForm(q) \/ Pending!SubmitGenericJSON(q)
      BY <3>3, SubmitAnswer
    <3> QED
      BY <3>1, <3>2, <3>3
  <2>4. CASE Pending!ListLands
    <3>1. PICK c : IF Pending!IsLatest(c) THEN drafts' = Pending!WithJSON(lists'[session])
                   ELSE drafts' = drafts
      BY <2>4 DEF Pending!ListLands
    <3>2. answers' = answers /\ received' = received
      BY <2>4 DEF Pending!ListLands, Pending!server
    <3>3. CASE drafts' = drafts
      BY <2>1, <2>2, <3>2, <3>3, NothingSent
    <3>4. CASE drafts' = Pending!WithJSON(lists'[session])
      <4>1. PICK shown : shown = lists'[session]
        OBVIOUS
      <4>2. PICK e : e = Pending!WithJSON(shown)
        OBVIOUS
      <4>3. DraftsOK(e)
        BY <4>2, JSONKeeps DEF AnswersInv
      <4>4. drafts' = e
        BY <3>4, <4>1, <4>2
      <4> QED
        BY <3>2, <4>3, <4>4, NothingSent
    <3> QED
      BY <3>1, <3>3, <3>4
  <2>5. ASSUME NEW q \in Requests, Pending!Ask(q) \/ Pending!Withdraw(q) PROVE AnswersInv'
    <3>1. drafts' = d /\ answers' = answers /\ received' = received
      BY <2>1, <2>5 DEF Pending!Ask, Pending!Withdraw, Pending!input
    <3> QED
      BY <2>2, <3>1, NothingSent
  <2>6. CASE \/ Pending!Refresh \/ \E s \in Sessions : Pending!Show(s)
             \/ Pending!ListAnswered \/ Pending!ListFails
    <3>1. drafts' = d /\ answers' = answers /\ received' = received
      BY <2>1, <2>6 DEF Pending!Refresh, Pending!Show, Pending!ListAnswered, Pending!ListFails,
                        Pending!input, Pending!server
    <3> QED
      BY <2>2, <3>1, NothingSent
  <2>7. CASE Pending!Accept
    <3>1. drafts' = d /\ answers' = answers
      BY <2>1, <2>7 DEF Pending!Accept, Pending!input
    <3>2. received' \subseteq received \cup answers
      BY <2>7 DEF Pending!Accept
    <3> QED
      BY <2>2, <3>1, <3>2, NothingSent
  <2>8. CASE Pending!Resolved \/ Pending!ResolveFails
    <3>1. drafts' = d /\ answers' \subseteq answers /\ received' = received
      BY <2>1, <2>8 DEF Pending!Resolved, Pending!ResolveFails, Pending!input, Pending!server
    <3> QED
      BY <2>2, <3>1, NothingSent
  <2>9. CASE UNCHANGED Pending!vars
    <3>1. drafts' = d /\ answers' = answers /\ received' = received
      BY <2>1, <2>9 DEF Pending!vars
    <3> QED
      BY <2>2, <3>1, NothingSent
  <2> QED
    BY <2>3, <2>4, <2>5, <2>6, <2>7, <2>8, <2>9 DEF Pending!Next
<1>3. AnswersInv => Pending!CompleteAnswers
  BY Zenon DEF AnswersInv, Complete, Pending!CompleteAnswers
<1> QED
  BY <1>1, <1>2, <1>3, PTL DEF Pending!Spec

-----------------------------------------------------------------------------
(* The scrolling of the timeline.                                          *)

CONSTANTS Threads, CountCap, MaxChanges, MaxMoves

VARIABLES timelines, active, mode, last, stick, force, count, frame, dirty, view, moves, unseen,
          away

Hook == INSTANCE TimelineScroll

(* Timelines only grow.                                                    *)

States == {"none", "running", "success"}
Timeline == [len : Nat, state : States, size : Nat]
Tails == [len : Nat, state : States]

TailIn(x) == [len |-> x.len, state |-> x.state]

(* A timeline is the one whose tail was seen, or what became of it.        *)
Grown(tail, x) ==
  \/ tail.len < x.len
  \/ /\ tail.len = x.len
     /\ tail.state = x.state \/ (tail.state = "running" /\ x.state = "success")

(* What the hook holds is an earlier state of the session it saw last, and *)
(* it asks for a frame only while it sticks to the end.                    *)
HookSound ==
  /\ last.thread \in Threads /\ last.tail \in Tails
  /\ last.tail = TailIn(last.signature.timeline)
  /\ Grown(last.tail, timelines[last.thread])
  /\ frame => force \/ stick
  /\ dirty => mode = "session"

(* The hook holds the session that is shown, unless it has still to look,  *)
(* or was not told of the change on the operations page.                   *)
HoldsShown == mode = "session" /\ ~dirty /\ last.thread # active => away

(* What is not on the screen has been counted, or the hook finds out when  *)
(* it looks.                                                               *)
FindsOut == last.thread # active \/ last.tail # Hook!TailOf(active)

NotLost ==
  /\ unseen => ~view.bottom
  /\ mode = "session" /\ unseen /\ ~frame => count > 0 \/ away \/ (dirty /\ FindsOut)

ScrollTyped ==
  /\ timelines \in [Threads -> Timeline] /\ active \in Threads
  /\ count \in Nat
  /\ view \in [bottom : BOOLEAN, scrolled : BOOLEAN]
  /\ stick \in BOOLEAN /\ force \in BOOLEAN /\ frame \in BOOLEAN /\ dirty \in BOOLEAN
  /\ unseen \in BOOLEAN /\ away \in BOOLEAN

ScrollInv == ScrollTyped /\ HookSound /\ HoldsShown /\ NotLost

LEMMA VisibleGrows ==
  ASSUME NEW x \in Timeline, NEW s \in States, NEW title \in {"Assistant", "You"},
         NEW tail \in Tails, Grown(tail, x)
  PROVE  /\ Hook!VisibleTimeline(x, title, s) \in Timeline
         /\ Grown(tail, Hook!VisibleTimeline(x, title, s))
         /\ tail # TailIn(Hook!VisibleTimeline(x, title, s))
<1>1. title \notin Hook!SecondaryTitles
  BY DEF Hook!SecondaryTitles
<1>2. PICK y : y = [x EXCEPT !.len = @ + 1, !.state = s, !.size = 0]
  OBVIOUS
<1>3. y \in Timeline /\ y.len = x.len + 1 /\ y.state = s
  <2>1. x.len + 1 \in Nat
    BY DEF Timeline
  <2>2. y = [len |-> x.len + 1, state |-> s, size |-> 0]
    BY <1>2 DEF Timeline
  <2> QED
    BY <2>1, <2>2 DEF Timeline
<1>4. x.len \in Nat /\ tail.len \in Nat
  BY DEF Timeline, Tails
<1>5. tail.len < y.len
  BY <1>3, <1>4 DEF Grown
<1>6. tail # TailIn(y)
  <2>1. TailIn(y).len = y.len
    BY DEF TailIn
  <2> QED
    BY <1>3, <1>4, <1>5, <2>1
<1>7. Hook!VisibleTimeline(x, title, s) = y
  BY <1>1, <1>2 DEF Hook!VisibleTimeline
<1> QED
  BY <1>3, <1>5, <1>6, <1>7 DEF Grown

LEMMA ChangedGrows ==
  ASSUME NEW x \in Timeline, NEW what \in {"reply", "card", "text", "end"},
         what \in {"text", "end"} => x.state = "running",
         NEW tail \in Tails, Grown(tail, x)
  PROVE  /\ Hook!Changed(x, what) \in Timeline
         /\ Grown(tail, Hook!Changed(x, what))
         /\ what # "text" /\ Hook!Changed(x, what) # x => tail # TailIn(Hook!Changed(x, what))
<1>1. CASE what = "reply"
  <2>1. Hook!Changed(x, what) = Hook!VisibleTimeline(x, "Assistant", "running")
    BY <1>1 DEF Hook!Changed
  <2> QED
    BY <2>1, VisibleGrows DEF States
<1>2. CASE what = "card"
  <2>1. Hook!Changed(x, what) = x
    BY <1>2 DEF Hook!Changed, Hook!VisibleTimeline, Hook!SecondaryTitles
  <2> QED
    BY <2>1
<1>3. CASE what = "text"
  <2>1. PICK y : y = [x EXCEPT !.size = @ + 1]
    OBVIOUS
  <2>2. y \in Timeline /\ y.len = x.len /\ y.state = x.state
    BY <2>1 DEF Timeline
  <2>3. Hook!Changed(x, what) = y
    BY <1>3, <2>1 DEF Hook!Changed
  <2> QED
    BY <1>3, <2>2, <2>3 DEF Grown
<1>4. CASE what = "end"
  <2>1. PICK y : y = [x EXCEPT !.state = "success"]
    OBVIOUS
  <2>2. y \in Timeline /\ y.len = x.len /\ y.state = "success"
    BY <2>1 DEF Timeline, States
  <2>3. Hook!Changed(x, what) = y
    BY <1>4, <2>1 DEF Hook!Changed
  <2>4. x.state = "running" /\ x.len \in Nat /\ tail.len \in Nat
    BY <1>4 DEF Timeline, Tails
  <2>5. Grown(tail, y)
    BY <2>2, <2>4 DEF Grown
  <2>6. tail # TailIn(y)
    <3>1. TailIn(y).len = x.len /\ TailIn(y).state = "success"
      BY <2>2 DEF TailIn
    <3>2. tail.len < x.len \/ tail.state = "running"
      BY <2>4 DEF Grown
    <3> QED
      BY <2>4, <3>1, <3>2
  <2> QED
    BY <2>2, <2>3, <2>5, <2>6
<1> QED
  BY <1>1, <1>2, <1>3, <1>4

-----------------------------------------------------------------------------
(* The steps.                                                              *)

(* Something was rendered in the session that is shown.                    *)
LEMMA RenderedKeeps ==
  ASSUME ScrollInv, ~dirty, mode = "session", mode' = mode, NEW structural \in BOOLEAN,
         Hook!Rendered(structural), ScrollTyped', Grown(last.tail, timelines'[last.thread]),
         UNCHANGED <<last, frame, away>>, force \/ stick => force' \/ stick',
         count' = count \/ structural,
         structural /\ ~away => FindsOut'
  PROVE  ScrollInv'
<1>1. PICK bottom \in {FALSE, view.bottom} :
        /\ dirty' = TRUE
        /\ view' = [view EXCEPT !.bottom = bottom]
        /\ unseen' = (~bottom /\ (unseen \/ structural))
  BY DEF Hook!Rendered
<1>2. view'.bottom = bottom
  BY <1>1 DEF ScrollInv, ScrollTyped
<1>3. HookSound'
  BY <1>1 DEF ScrollInv, HookSound
<1>4. HoldsShown'
  BY <1>1 DEF HoldsShown
<1>5. (unseen => ~view.bottom)'
  BY <1>1, <1>2
<1>6. (mode = "session" /\ unseen /\ ~frame => count > 0 \/ away \/ (dirty /\ FindsOut))'
  <2>1. CASE structural
    BY <1>1, <2>1
  <2>2. CASE ~structural
    <3>1. unseen' => unseen
      BY <1>1, <2>2
    <3>2. unseen /\ ~frame => count > 0 \/ away
      BY DEF ScrollInv, NotLost
    <3> QED
      BY <2>2, <3>1, <3>2
  <2> QED
    BY <2>1, <2>2
<1> QED
  BY <1>3, <1>4, <1>5, <1>6 DEF ScrollInv, NotLost

LEMMA ArriveStep ==
  ASSUME ScrollInv, NEW t \in Threads, NEW what \in {"reply", "card", "text", "end"},
         Hook!Arrive(t, what)
  PROVE  ScrollInv'
<1>1. /\ ~dirty /\ (what \in {"text", "end"} => timelines[t].state = "running")
      /\ timelines' = [timelines EXCEPT ![t] = Hook!Changed(timelines[t], what)]
      /\ UNCHANGED <<active, mode, last, stick, force, count, frame, away>>
  BY DEF Hook!Arrive
<1>2. timelines \in [Threads -> Timeline] /\ last.thread \in Threads /\ last.tail \in Tails
      /\ Grown(last.tail, timelines[last.thread])
  BY DEF ScrollInv, ScrollTyped, HookSound
<1>3. Hook!Changed(timelines[t], what) \in Timeline
  <2>1. PICK tail \in Tails : Grown(tail, timelines[t])
    <3>1. TailIn(timelines[t]) \in Tails
      BY <1>2 DEF Timeline, Tails, TailIn
    <3>2. Grown(TailIn(timelines[t]), timelines[t])
      BY <1>2 DEF Timeline, TailIn, Grown
    <3> QED
      BY <3>1, <3>2
  <2>2. timelines[t] \in Timeline
    BY <1>2
  <2> QED
    BY <1>1, <2>1, <2>2, ChangedGrows
<1>4. timelines' \in [Threads -> Timeline]
  BY <1>1, <1>2, <1>3
<1>5. Grown(last.tail, timelines'[last.thread])
  <2>1. CASE last.thread = t
    <3>1. timelines[t] \in Timeline /\ timelines'[t] = Hook!Changed(timelines[t], what)
      BY <1>1, <1>2
    <3> QED
      BY <1>1, <1>2, <2>1, <3>1, ChangedGrows
  <2>2. CASE last.thread # t
    BY <1>1, <1>2, <2>2
  <2> QED
    BY <2>1, <2>2
<1>6. CASE t = active /\ mode = "session" /\ timelines' # timelines
  <2>1. Hook!Rendered(what # "text")
    BY <1>6 DEF Hook!Arrive
  <2>2. ScrollTyped'
    BY <1>1, <1>4, <2>1 DEF ScrollInv, ScrollTyped, Hook!Rendered
  <2>3. what # "text" /\ ~away => FindsOut'
    <3> SUFFICES ASSUME what # "text", ~away PROVE FindsOut'
      OBVIOUS
    <3>1. last.thread = active
      BY <1>1, <1>6 DEF ScrollInv, HoldsShown
    <3>2. timelines[t] \in Timeline /\ timelines'[t] = Hook!Changed(timelines[t], what)
          /\ timelines'[t] # timelines[t]
      BY <1>1, <1>2, <1>6
    <3>3. last.tail # TailIn(timelines'[t])
      BY <1>1, <1>2, <1>6, <3>1, <3>2, ChangedGrows
    <3>4. TailIn(timelines'[t]) = Hook!TailOf(active)'
      BY <1>1, <1>6 DEF TailIn, Hook!TailOf
    <3> QED
      BY <1>1, <3>3, <3>4 DEF FindsOut
  <2>4. (what # "text") \in BOOLEAN
    OBVIOUS
  <2> QED
    BY <1>1, <1>5, <1>6, <2>1, <2>2, <2>3, <2>4, RenderedKeeps
<1>7. CASE ~(t = active /\ mode = "session" /\ timelines' # timelines)
  <2>1. UNCHANGED <<dirty, view, unseen>>
    BY <1>7 DEF Hook!Arrive
  <2>2. ScrollTyped' /\ HookSound'
    BY <1>1, <1>4, <1>5, <2>1 DEF ScrollInv, ScrollTyped, HookSound
  <2>3. HoldsShown' /\ NotLost'
    BY <1>1, <2>1 DEF ScrollInv, HoldsShown, NotLost
  <2> QED
    BY <2>2, <2>3 DEF ScrollInv
<1> QED
  BY <1>6, <1>7

LEMMA EffectStep ==
  ASSUME CountCap \in Nat \ {0}, ScrollInv, Hook!Effect
  PROVE  ScrollInv'
<1>1. /\ dirty /\ mode = "session" /\ dirty' = FALSE
      /\ last' = [thread |-> active, signature |-> Hook!Signature, tail |-> Hook!TailOf(active)]
      /\ force' = (force \/ last.thread # active)
      /\ frame' = (force \/ stick \/ last.thread # active)
      /\ UNCHANGED <<timelines, active, mode, stick, view, unseen, away>>
  BY DEF Hook!Effect
<1>2. timelines \in [Threads -> Timeline] /\ active \in Threads /\ count \in Nat
  BY DEF ScrollInv, ScrollTyped
<1>3. Hook!Min({CountCap, count + 1}) \in Nat /\ Hook!Min({CountCap, count + 1}) > 0
  <2>1. \A j, k \in Nat : j > 0 /\ k > 0 => Hook!Min({j, k}) \in {j, k}
    <3> TAKE j, k \in Nat
    <3>1. \E m \in {j, k} : \A n \in {j, k} : m <= n
      BY SMT
    <3> QED
      BY <3>1 DEF Hook!Min
  <2>2. CountCap \in Nat /\ CountCap > 0 /\ count + 1 \in Nat /\ count + 1 > 0
    BY <1>2
  <2>3. Hook!Min({CountCap, count + 1}) \in {CountCap, count + 1}
    BY <2>1, <2>2
  <2> QED
    BY <2>2, <2>3
<1>4. count' \in {0, count, Hook!Min({CountCap, count + 1})}
  BY DEF Hook!Effect
<1>5. ScrollTyped'
  <2>1. count' \in Nat
    BY <1>2, <1>3, <1>4
  <2>2. force' \in BOOLEAN /\ frame' \in BOOLEAN /\ dirty' \in BOOLEAN
    BY <1>1
  <2> QED
    BY <1>1, <2>1, <2>2 DEF ScrollInv, ScrollTyped
<1>6. Hook!TailOf(active) \in Tails /\ Grown(Hook!TailOf(active), timelines[active])
      /\ Hook!TailOf(active) = TailIn(timelines[active])
  BY <1>2 DEF Timeline, Tails, Hook!TailOf, TailIn, Grown
<1>7. HookSound'
  <2>1. last'.thread = active /\ last'.tail = Hook!TailOf(active) /\ last'.signature.timeline = timelines[active]
    BY <1>1 DEF Hook!Signature
  <2> QED
    BY <1>1, <1>2, <1>6, <2>1 DEF ScrollInv, HookSound
<1>8. HoldsShown'
  BY <1>1 DEF HoldsShown
<1>9. (unseen => ~view.bottom)'
  BY <1>1 DEF ScrollInv, NotLost
<1>10. ASSUME unseen', ~frame' PROVE count' > 0 \/ away'
  <2>1. ~force /\ ~stick /\ last.thread = active /\ unseen
    BY <1>1, <1>10
  <2>2. ~frame
    BY <2>1 DEF ScrollInv, HookSound
  <2>3. count > 0 \/ away \/ last.tail # Hook!TailOf(active)
    BY <1>1, <2>1, <2>2 DEF ScrollInv, NotLost, FindsOut
  <2>4. CASE last.tail # Hook!TailOf(active)
    <3>1. last.signature # Hook!Signature
      BY <1>6, <2>4 DEF Hook!Signature, ScrollInv, HookSound
    <3>2. count' = Hook!Min({CountCap, count + 1})
      BY <2>1, <2>4, <3>1 DEF Hook!Effect
    <3> QED
      BY <1>3, <3>2
  <2>5. CASE last.tail = Hook!TailOf(active)
    <3>1. count' = count
      BY <2>1, <2>5 DEF Hook!Effect
    <3> QED
      BY <1>1, <2>3, <2>5, <3>1
  <2> QED
    BY <2>4, <2>5
<1> QED
  BY <1>5, <1>7, <1>8, <1>9, <1>10 DEF ScrollInv, NotLost

LEMMA FrameStep ==
  ASSUME ScrollInv, Hook!BrowserFrame
  PROVE  ScrollInv'
<1>1. /\ view.scrolled \/ frame
      /\ stick' = IF view.scrolled /\ mode = "session" THEN view.bottom ELSE stick
      /\ count' = IF frame THEN 0
                  ELSE IF mode = "session" THEN Hook!CountAfterScroll ELSE count
      /\ force' = (force /\ ~frame)
      /\ frame' = FALSE
      /\ UNCHANGED <<timelines, active, mode, last, dirty>>
  BY DEF Hook!BrowserFrame
<1>2. ScrollTyped
  BY DEF ScrollInv
<1>3. CASE frame /\ mode = "session"
  <2>1. view' = [bottom |-> TRUE, scrolled |-> ~view.bottom] /\ unseen' = FALSE
        /\ away' = (away /\ last.thread # active)
    BY <1>3 DEF Hook!BrowserFrame, Hook!AtEnd
  <2>2. ScrollTyped'
    BY <1>1, <1>2, <1>3, <2>1 DEF ScrollTyped
  <2>3. HookSound' /\ HoldsShown' /\ NotLost'
    BY <1>1, <2>1 DEF ScrollInv, HookSound, HoldsShown, NotLost
  <2> QED
    BY <2>2, <2>3 DEF ScrollInv
<1>4. CASE ~(frame /\ mode = "session")
  <2>1. view' = [view EXCEPT !.scrolled = FALSE] /\ UNCHANGED <<unseen, away>>
    BY <1>4 DEF Hook!BrowserFrame
  <2>2. view'.bottom = view.bottom /\ view' \in [bottom : BOOLEAN, scrolled : BOOLEAN]
    BY <1>2, <2>1 DEF ScrollTyped
  <2>3. ScrollTyped'
    BY <1>1, <1>2, <2>1, <2>2 DEF ScrollTyped, Hook!CountAfterScroll
  <2>4. HookSound' /\ HoldsShown'
    BY <1>1, <2>1 DEF ScrollInv, HookSound, HoldsShown
  <2>5. NotLost'
    <3>1. (unseen => ~view.bottom)'
      BY <2>1, <2>2 DEF ScrollInv, NotLost
    <3>2. ASSUME mode' = "session", unseen' PROVE count' > 0 \/ away' \/ (dirty' /\ FindsOut')
      <4>1. mode = "session" /\ ~frame /\ unseen /\ ~view.bottom
        BY <1>1, <1>4, <2>1, <3>2 DEF ScrollInv, NotLost
      <4>2. count' = count
        BY <1>1, <4>1 DEF Hook!CountAfterScroll
      <4>3. FindsOut' <=> FindsOut
        BY <1>1 DEF FindsOut, Hook!TailOf
      <4> QED
        BY <1>1, <2>1, <4>1, <4>2, <4>3 DEF ScrollInv, NotLost
    <3> QED
      BY <3>1, <3>2 DEF NotLost
  <2> QED
    BY <2>3, <2>4, <2>5 DEF ScrollInv
<1> QED
  BY <1>3, <1>4

LEMMA UserStep ==
  ASSUME ScrollInv, (\E bottom \in BOOLEAN : Hook!Scroll(bottom)) \/ Hook!JumpTimelineToLatest
  PROVE  ScrollInv'
<1>1. CASE \E bottom \in BOOLEAN : Hook!Scroll(bottom)
  <2>1. PICK bottom \in BOOLEAN : Hook!Scroll(bottom)
    BY <1>1
  <2>2. /\ view' = [bottom |-> bottom, scrolled |-> TRUE]
        /\ UNCHANGED <<timelines, active, mode, last, stick, force, count, frame, dirty>>
        /\ IF bottom THEN unseen' = FALSE /\ away' = (away /\ last.thread # active)
           ELSE UNCHANGED <<unseen, away>>
    BY <2>1 DEF Hook!Scroll, Hook!AtEnd
  <2>3. ScrollTyped' /\ HookSound'
    BY <2>2 DEF ScrollInv, ScrollTyped, HookSound
  <2>4. FindsOut' <=> FindsOut
    BY <2>2 DEF FindsOut, Hook!TailOf
  <2>5. HoldsShown' /\ NotLost'
    BY <2>2, <2>4 DEF ScrollInv, HoldsShown, NotLost
  <2> QED
    BY <2>3, <2>5 DEF ScrollInv
<1>2. CASE Hook!JumpTimelineToLatest
  <2>1. /\ view' = [bottom |-> TRUE, scrolled |-> ~view.bottom]
        /\ force' = TRUE /\ stick' = TRUE /\ count' = 0
        /\ unseen' = FALSE /\ away' = (away /\ last.thread # active)
        /\ UNCHANGED <<timelines, active, mode, last, frame, dirty>>
    BY <1>2 DEF Hook!JumpTimelineToLatest, Hook!AtEnd
  <2>2. ScrollTyped' /\ HookSound'
    BY <2>1 DEF ScrollInv, ScrollTyped, HookSound
  <2>3. HoldsShown' /\ NotLost'
    BY <2>1 DEF ScrollInv, HoldsShown, NotLost
  <2> QED
    BY <2>2, <2>3 DEF ScrollInv
<1> QED
  BY <1>1, <1>2

LEMMA SubmitStep ==
  ASSUME ScrollInv, Hook!Submit
  PROVE  ScrollInv'
<1>1. /\ ~dirty /\ mode = "session" /\ Hook!Rendered(TRUE)
      /\ timelines' = [timelines EXCEPT ![active] = Hook!VisibleTimeline(timelines[active], "You", "none")]
      /\ force' = TRUE /\ stick' = TRUE /\ count' = 0
      /\ UNCHANGED <<active, mode, last, frame, away>>
  BY DEF Hook!Submit
<1>2. timelines \in [Threads -> Timeline] /\ last.thread \in Threads /\ last.tail \in Tails
      /\ Grown(last.tail, timelines[last.thread]) /\ active \in Threads
  BY DEF ScrollInv, ScrollTyped, HookSound
<1>3. timelines[active] \in Timeline
  BY <1>2
<1>4. Hook!VisibleTimeline(timelines[active], "You", "none") \in Timeline
  <2>1. TailIn(timelines[active]) \in Tails /\ Grown(TailIn(timelines[active]), timelines[active])
    BY <1>3 DEF Timeline, Tails, TailIn, Grown
  <2>2. "none" \in States /\ "You" \in {"Assistant", "You"}
    BY DEF States
  <2> QED
    BY <1>3, <2>1, <2>2, VisibleGrows
<1>5. timelines' \in [Threads -> Timeline]
  BY <1>1, <1>2, <1>4
<1>6. ScrollTyped'
  BY <1>1, <1>5 DEF ScrollInv, ScrollTyped, Hook!Rendered
<1>7. last.thread = active =>
        Grown(last.tail, timelines'[active]) /\ last.tail # TailIn(timelines'[active])
  <2>1. timelines'[active] = Hook!VisibleTimeline(timelines[active], "You", "none")
    BY <1>1, <1>2
  <2>2. "none" \in States /\ "You" \in {"Assistant", "You"}
    BY DEF States
  <2> QED
    BY <1>2, <1>3, <2>1, <2>2, VisibleGrows
<1>8. last.thread # active => timelines'[last.thread] = timelines[last.thread]
  BY <1>1, <1>2
<1>9. Grown(last.tail, timelines'[last.thread])
  BY <1>2, <1>7, <1>8
<1>10. FindsOut'
  <2>1. Hook!TailOf(active)' = TailIn(timelines'[active])
    BY <1>1 DEF Hook!TailOf, TailIn
  <2> QED
    BY <1>1, <1>7, <2>1 DEF FindsOut
<1> QED
  BY <1>1, <1>6, <1>9, <1>10, RenderedKeeps

LEMMA SwitchStep ==
  ASSUME ScrollInv, NEW t \in Threads, Hook!SwitchThread(t)
  PROVE  ScrollInv'
<1>1. /\ t # active /\ ~dirty /\ active' = t
      /\ UNCHANGED <<timelines, mode, last, stick, force, count, frame, away>>
  BY DEF Hook!SwitchThread
<1>2. CASE mode = "session"
  <2>1. Hook!Rendered(TRUE)
    BY <1>2 DEF Hook!SwitchThread
  <2>2. ScrollTyped'
    BY <1>1, <2>1 DEF ScrollInv, ScrollTyped, Hook!Rendered
  <2>3. Grown(last.tail, timelines'[last.thread])
    BY <1>1 DEF ScrollInv, HookSound
  <2>4. ~away => FindsOut'
    BY <1>1, <1>2 DEF ScrollInv, HoldsShown, FindsOut
  <2> QED
    BY <1>1, <1>2, <2>1, <2>2, <2>3, <2>4, RenderedKeeps
<1>3. CASE mode # "session"
  <2>1. UNCHANGED <<dirty, view, unseen>>
    BY <1>3 DEF Hook!SwitchThread
  <2>2. ScrollTyped' /\ HookSound'
    BY <1>1, <2>1 DEF ScrollInv, ScrollTyped, HookSound
  <2>3. HoldsShown' /\ NotLost'
    BY <1>1, <1>3, <2>1 DEF ScrollInv, HoldsShown, NotLost
  <2> QED
    BY <2>2, <2>3 DEF ScrollInv
<1> QED
  BY <1>2, <1>3

LEMMA ModeStep ==
  ASSUME ScrollInv, NEW t \in Threads, NEW m \in {"session", "ops"}, Hook!SwitchMode(m, t)
  PROVE  ScrollInv'
<1>1. /\ m # mode /\ ~dirty /\ mode' = m
      /\ UNCHANGED <<timelines, last, stick, force, count, frame>>
  BY DEF Hook!SwitchMode
<1>2. CASE m = "ops"
  <2>1. active' = active /\ UNCHANGED <<dirty, view, unseen, away>>
    BY <1>2 DEF Hook!SwitchMode
  <2>2. ScrollTyped' /\ HookSound'
    BY <1>1, <2>1 DEF ScrollInv, ScrollTyped, HookSound
  <2>3. HoldsShown' /\ NotLost'
    BY <1>1, <1>2, <2>1 DEF ScrollInv, HoldsShown, NotLost
  <2> QED
    BY <2>2, <2>3 DEF ScrollInv
<1>3. CASE m = "session"
  <2>1. /\ active' = t /\ dirty' = (t # active)
        /\ away' = (away \/ t \in {active, last.thread})
    BY <1>3 DEF Hook!SwitchMode
  <2>2. PICK bottom \in BOOLEAN :
          view' = [bottom |-> bottom, scrolled |-> FALSE] /\ unseen' = ~bottom
    BY <1>3 DEF Hook!SwitchMode
  <2>3. ScrollTyped' /\ HookSound'
    BY <1>1, <1>3, <2>1, <2>2 DEF ScrollInv, ScrollTyped, HookSound
  <2>4. HoldsShown'
    BY <1>1, <2>1 DEF HoldsShown
  <2>5. NotLost'
    <3>1. away' \/ (dirty' /\ FindsOut')
      BY <1>1, <2>1 DEF FindsOut
    <3> QED
      BY <2>2, <3>1 DEF NotLost
  <2> QED
    BY <2>3, <2>4, <2>5 DEF ScrollInv
<1> QED
  BY <1>2, <1>3

LEMMA ScrollInit ==
  ASSUME Hook!Init
  PROVE  ScrollInv
<1>1. /\ timelines = [t \in Threads |-> Hook!NewTimeline] /\ active \in Threads
      /\ last = [thread |-> active, signature |-> Hook!Signature, tail |-> Hook!TailOf(active)]
      /\ ~unseen /\ stick /\ ~dirty
  BY DEF Hook!Init
<1>2. Hook!NewTimeline \in Timeline
  BY DEF Hook!NewTimeline, Timeline, States
<1>3. timelines \in [Threads -> Timeline] /\ timelines[active] = Hook!NewTimeline
  BY <1>1, <1>2
<1>4. ScrollTyped
  BY <1>3 DEF Hook!Init, ScrollTyped
<1>5. Hook!TailOf(active) \in Tails /\ Grown(Hook!TailOf(active), timelines[active])
      /\ Hook!TailOf(active) = TailIn(timelines[active])
  BY <1>3 DEF Hook!NewTimeline, Tails, States, Hook!TailOf, TailIn, Grown
<1>6. last.thread = active /\ last.tail = Hook!TailOf(active) /\ last.signature.timeline = timelines[active]
  BY <1>1 DEF Hook!Signature
<1>7. HookSound
  BY <1>1, <1>5, <1>6 DEF HookSound
<1> QED
  BY <1>1, <1>4, <1>6, <1>7 DEF ScrollInv, HoldsShown, NotLost

LEMMA ScrollStep ==
  ASSUME CountCap \in Nat \ {0}, ScrollInv, [Hook!Next]_Hook!vars
  PROVE  ScrollInv'
<1>1. CASE Hook!Next
  BY <1>1, ArriveStep, EffectStep, FrameStep, UserStep, SubmitStep, SwitchStep, ModeStep DEF Hook!Next
<1>2. CASE UNCHANGED Hook!vars
  <2>1. FindsOut' <=> FindsOut
    BY <1>2 DEF Hook!vars, FindsOut, Hook!TailOf
  <2>2. HookSound' /\ ScrollTyped' /\ HoldsShown'
    BY <1>2 DEF Hook!vars, ScrollInv, HookSound, ScrollTyped, HoldsShown
  <2>3. NotLost'
    BY <1>2, <2>1 DEF Hook!vars, ScrollInv, NotLost
  <2> QED
    BY <2>2, <2>3 DEF ScrollInv
<1> QED
  BY <1>1, <1>2

(* For any sessions and whatever the user scrolls, switches and submits:   *)
(* a change of the timeline that is not on the screen, and will not be in  *)
(* the next frame, is counted by the button, except after a visit of the   *)
(* operations page of which the hook does not know                         *)
(* (useTimelineScrollController).                                          *)
THEOREM NothingPassesUnseen ==
  ASSUME CountCap \in Nat \ {0}
  PROVE  Hook!Spec => []Hook!SeenOrCounted
<1>1. Hook!Init => ScrollInv
  BY ScrollInit
<1>2. ScrollInv /\ [Hook!Next]_Hook!vars => ScrollInv'
  BY ScrollStep
<1>3. ScrollInv => Hook!SeenOrCounted
  BY DEF ScrollInv, NotLost, Hook!SeenOrCounted
<1> QED
  BY <1>1, <1>2, <1>3, PTL DEF Hook!Spec

(* The types of the hook and of what it sees (use-timeline-scroll.ts): the *)
(* button never counts beyond its cap.                                     *)
THEOREM ScrollTypeCorrect ==
  ASSUME CountCap \in Nat \ {0}, MaxMoves \in Nat
  PROVE  Hook!Spec => []Hook!TypeOK
<1> DEFINE Bounded == mode \in {"session", "ops"} /\ count <= CountCap /\ moves \in 0..MaxMoves
<1>1. Hook!Init => Bounded
  BY DEF Hook!Init
<1>2. ScrollInv /\ Bounded /\ [Hook!Next]_Hook!vars => Bounded'
  <2> SUFFICES ASSUME ScrollInv, Bounded, [Hook!Next]_Hook!vars PROVE Bounded'
    OBVIOUS
  <2>1. count \in Nat
    BY DEF ScrollInv, ScrollTyped
  <2>2. ASSUME NEW t \in Threads, NEW what, Hook!Arrive(t, what) PROVE Bounded'
    BY <2>2 DEF Hook!Arrive
  <2>3. ASSUME NEW t \in Threads, Hook!SwitchThread(t) PROVE Bounded'
    BY <2>3 DEF Hook!SwitchThread, Hook!Move
  <2>4. ASSUME NEW t \in Threads, NEW m \in {"session", "ops"}, Hook!SwitchMode(m, t) PROVE Bounded'
    BY <2>4 DEF Hook!SwitchMode, Hook!Move
  <2>5. CASE Hook!Effect
    <3>1. mode' = mode /\ moves' = moves
      BY <2>5 DEF Hook!Effect
    <3>2. count' \in {0, count, Hook!Min({CountCap, count + 1})}
      BY <2>5 DEF Hook!Effect
    <3>3. \A j, k \in Nat : Hook!Min({j, k}) <= j
      <4> SUFFICES ASSUME NEW j \in Nat, NEW k \in Nat PROVE Hook!Min({j, k}) <= j
        OBVIOUS
      <4>1. \E m \in {j, k} : \A n \in {j, k} : m <= n
        OBVIOUS
      <4> QED
        BY <4>1 DEF Hook!Min
    <3>4. Hook!Min({CountCap, count + 1}) <= CountCap
      BY <2>1, <3>3
    <3> QED
      BY <3>1, <3>2, <3>4
  <2>6. CASE Hook!BrowserFrame
    BY <2>6 DEF Hook!BrowserFrame, Hook!CountAfterScroll
  <2>7. ASSUME NEW bottom \in BOOLEAN, Hook!Scroll(bottom) PROVE Bounded'
    BY <2>7 DEF Hook!Scroll, Hook!Move
  <2>8. CASE Hook!JumpTimelineToLatest
    BY <2>8 DEF Hook!JumpTimelineToLatest, Hook!Move
  <2>9. CASE Hook!Submit
    BY <2>9 DEF Hook!Submit, Hook!Move
  <2>10. CASE UNCHANGED Hook!vars
    BY <2>10 DEF Hook!vars
  <2> QED
    BY <2>2, <2>3, <2>4, <2>5, <2>6, <2>7, <2>8, <2>9, <2>10 DEF Hook!Next
<1>3. ScrollInv /\ Bounded => Hook!TypeOK
  <2> SUFFICES ASSUME ScrollInv, Bounded PROVE Hook!TypeOK
    OBVIOUS
  <2>1. active \in Threads /\ count \in 0..CountCap
    BY DEF ScrollInv, ScrollTyped
  <2>2. {stick, force, frame, dirty, unseen, away} \subseteq BOOLEAN
    BY Zenon DEF ScrollInv, ScrollTyped
  <2> QED
    BY <2>1, <2>2 DEF Hook!TypeOK
<1> HIDE DEF Bounded
<1> QED
  BY <1>1, <1>2, <1>3, ScrollInit, ScrollStep, PTL DEF Hook!Spec

=============================================================================
