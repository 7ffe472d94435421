----------------------------- MODULE WebReview -----------------------------
(***************************************************************************)
(* The review of a session in the browser: what App.tsx takes for it from  *)
(* the timeline, the pane (components/SessionReviewPane.tsx) and the git    *)
(* state of the project (use-project-review-git.ts).  Each project has one *)
(* session here.  Of the server there is the repository of each project,   *)
(* and calls that are done and answered later.                             *)
(*                                                                         *)
(* A text is a sequence of words.  An entry of the timeline is             *)
(*   [id, type: "note" | "patch" | "diff" | "piece", title, parts, changes]*)
(* where the parts are the paragraphs of a note, the diff of a turn or a   *)
(* piece of one, and the changes of a patch are [path, diff].  A line of a *)
(* diff is [kind, text], its kind "header", "hunk", "add", "remove" or     *)
(* "context".                                                              *)
(***************************************************************************)
EXTENDS Naturals, Sequences, FiniteSets, SequencesExt

CONSTANTS
  Projects,
  Paths,
  BaseName,       (* the last name of a path                                *)
  SizeOf,         (* the length of each word, path and name                 *)
  Arrivals,       (* entries, without id, that may come                     *)
  MaxFindings,    (* entries with notes that the pane shows                 *)
  MaxPieces,      (* pieces of patches that the pane shows                  *)
  MaxEntries,     (* bound on the entries that come                         *)
  MaxOps          (* bound on what the user does                            *)

VARIABLES
  timelines,  (* the entries of each project's session                      *)
  busy,       (* projects whose session runs                                *)
  repo,       (* the server: [staged, edited] of each project               *)
  calls,      (* calls that are out                                         *)
  project,    (* the project that is shown                                  *)
  modes,      (* the mode of each session                                   *)
  git,        (* the state of the hook: [status, loading, action, tone]     *)
  pane,       (* the pane: [open, selected, dismissed, reviewed, message]   *)
  crossed,    (* ghost: the status may be of a call that met another        *)
  ops

vars == <<timelines, busy, repo, calls, project, modes, git, pane, crossed, ops>>

Op == ops < MaxOps /\ ops' = ops + 1

NoStatus == [project |-> "", changed |-> {}, staged |-> {}]

NoGit == [status |-> NoStatus, known |-> FALSE, loading |-> FALSE, action |-> "", tone |-> "idle"]

NoPane == [open |-> FALSE, selected |-> <<>>, dismissed |-> {}, reviewed |-> {},
           message |-> FALSE]

(* The elements of s that are in T, in the order of s (Array.filter).      *)
Those(s, T) ==
  LET upto[n \in 0..Len(s)] ==
        IF n = 0 THEN <<>>
        ELSE IF s[n] \in T THEN Append(upto[n - 1], s[n]) ELSE upto[n - 1]
  IN upto[Len(s)]

LastOnes(s, n) == SubSeq(s, IF Len(s) > n THEN Len(s) - n + 1 ELSE 1, Len(s))

-----------------------------------------------------------------------------
(* What the pane gets from the timeline.                                   *)

OfType(entries, type) == Those(entries, {e \in ToSet(entries) : e.type = type})

(* reviewFindings: the latest notes, newest first.                         *)
ReviewFindings(entries) == Reverse(LastOnes(OfType(entries, "note"), MaxFindings))

(* reviewTurnDiff: the latest diff of the turn.                            *)
ReviewTurnDiff(entries) ==
  LET diffs == OfType(entries, "diff")
  IN IF diffs = <<>> THEN <<>> ELSE Last(diffs).parts

(* reviewPatchDelta: the latest pieces of patches.                         *)
ReviewPatchDelta(entries) ==
  LET pieces == LastOnes(OfType(entries, "piece"), MaxPieces)
  IN FlattenSeq([k \in DOMAIN pieces |-> pieces[k].parts])

(* reviewChanges: the changes of all patches, the last one first.          *)
ReviewChanges(entries) ==
  LET patches == OfType(entries, "patch")
      Of(e) == [k \in DOMAIN e.changes |->
                  [id |-> <<e.id, k>>, path |-> e.changes[k].path, diff |-> e.changes[k].diff]]
  IN Reverse(FlattenSeq([k \in DOMAIN patches |-> Of(patches[k])]))

(* visibleReviewChanges: of them the ones that git knows of.               *)
VisibleReviewChanges(entries, g) ==
  LET all == ReviewChanges(entries)
  IN IF g.known THEN Those(all, {c \in ToSet(all) : c.path \in g.status.changed}) ELSE all

Changes == VisibleReviewChanges(timelines[project], git)

-----------------------------------------------------------------------------
(* Notes and where they are shown.                                         *)

Size(text) ==
  FoldLeft(LAMBDA n, w : n + SizeOf[w], IF text = <<>> THEN 0 ELSE Len(text) - 1, text)

(* reviewNotes: a finding of several paragraphs is a note for each.        *)
NotesOf(finding) ==
  IF Len(finding.parts) <= 1
  THEN <<[id |-> <<finding.id, 0>>, words |-> finding.title \o FlattenSeq(finding.parts)]>>
  ELSE [k \in DOMAIN finding.parts |->
          [id |-> <<finding.id, k>>, words |-> finding.title \o finding.parts[k]]]

ReviewNotes(findings) == FlattenSeq([k \in DOMAIN findings |-> NotesOf(findings[k])])

Notes == ReviewNotes(ReviewFindings(timelines[project]))

VisibleNotes == Those(Notes, {n \in ToSet(Notes) : n.id \notin pane.dismissed})

PathTokens(path) == {t \in {path, BaseName[path]} : SizeOf[t] >= 5}

(* Who names a path names its last name.                                   *)
Named(words) == ToSet(words) \cup {BaseName[w] : w \in ToSet(words) \cap Paths}

FindingMatchesChange(note, change) == PathTokens(change.path) \cap Named(note.words) # {}

GeneralFindings ==
  Those(VisibleNotes,
    {n \in ToSet(VisibleNotes) :
       \A k \in DOMAIN Changes : ~FindingMatchesChange(n, Changes[k])})

(* Mutation: the hunks are not counted.                                    *)
PlainLine(diff, k) ==
  LET starts == {j \in 1..k : diff[j].kind = "hunk"}
      body == {j \in 1..k : /\ diff[j].kind \notin {"hunk", "header"}
                            /\ \A i \in starts : i < j}
  IN IF diff[k].kind = "hunk" THEN <<1, 0>> ELSE <<1, Cardinality(body)>>

(* parseDiffLines: the key of each line is its hunk and its place in it;   *)
(* lines before the first hunk are counted in the first one.               *)
HunkLine(diff, k) ==
  LET starts == {j \in 1..k : diff[j].kind = "hunk"}
      hunk == Cardinality(starts)
      body == {j \in 1..k : /\ diff[j].kind \notin {"hunk", "header"}
                            /\ \A i \in starts : i < j}
  IN IF diff[k].kind = "hunk" THEN <<hunk, 0>>
     ELSE <<IF hunk = 0 THEN 1 ELSE hunk, Cardinality(body)>>

AnchorKey(diff, k) == IF diff[k].kind = "header" THEN <<>> ELSE HunkLine(diff, k)

(* How well a note fits to a line: the length of the line when the note    *)
(* has all of it, or else the words they share and that length.            *)
Includes(words, text) ==
  \E i \in 0..(Len(words) - Len(text)) : SubSeq(words, i + 1, i + Len(text)) = text

Score(note, text) ==
  LET shared == {k \in DOMAIN text : SizeOf[text[k]] >= 4 /\ text[k] \in ToSet(note.words)}
  IN IF Size(text) < 4 THEN 0
     ELSE IF Includes(note.words, text) THEN Size(text)
     ELSE IF shared = {} THEN 0
     ELSE Cardinality(shared) * 10 + Size(text)

(* pickInlineAnchorKey: the first of the lines that fit best, or else the  *)
(* first one that was changed.                                             *)
PickInlineAnchorKey(note, diff) ==
  LET lines == {k \in DOMAIN diff : diff[k].kind # "header"}
      First(S) == CHOOSE k \in S : \A j \in S : k <= j
      Best(k) == \A j \in lines : Score(note, diff[k].text) >= Score(note, diff[j].text)
      best == {k \in lines : Score(note, diff[k].text) > 0 /\ Best(k)}
      changed == {k \in lines : diff[k].kind \in {"add", "remove"}}
  IN IF lines = {} THEN <<>>
     ELSE AnchorKey(diff, First(IF best # {} THEN best
                                ELSE IF changed # {} THEN changed ELSE lines))

(* inlineAnchoredFindings: the key a note is kept under, or it floats.     *)
Floats(note, diff) == PickInlineAnchorKey(note, diff) = <<>>

(* Where a note is shown when the change it belongs to is selected: below  *)
(* lines of the diff, or in the discussion (0).                            *)
PlacesOf(note, diff) ==
  IF Floats(note, diff) THEN {0}
  ELSE {k \in DOMAIN diff : AnchorKey(diff, k) = PickInlineAnchorKey(note, diff)}

-----------------------------------------------------------------------------
(* The effects of the pane.                                                *)

IdsOf(seq) == {seq[k].id : k \in DOMAIN seq}

(* A change is selected if there is one; what was dismissed or reviewed is *)
(* forgotten when the finding or the change is gone.                       *)
Settled(p, changes, findings) ==
  [p EXCEPT !.selected = IF changes = <<>> THEN <<>>
                         ELSE IF @ \in IdsOf(changes) THEN @ ELSE changes[1].id,
            !.dismissed = {id \in @ : id[1] \in IdsOf(findings)},
            !.reviewed = @ \cap IdsOf(changes)]

Rendered(p) ==
  pane' = IF p.open
          THEN Settled(p, VisibleReviewChanges(timelines'[project'], git'),
                       ReviewFindings(timelines'[project']))
          ELSE NoPane

SelectedChange == Changes[SelectInSeq(Changes, LAMBDA c : c.id = pane.selected)]

-----------------------------------------------------------------------------
(* Calls to the server.  A call is mixed when another one was out at the   *)
(* same time and nothing in the browser keeps their answers in order.      *)

Call(p, kind, path, mixed) ==
  [p |-> p, kind |-> kind, path |-> path, mixed |-> mixed, done |-> FALSE, ok |-> TRUE,
   answer |-> NoStatus]

Send(out, call) == calls' = Append(out, call)

Mixed(out) == \E k \in DOMAIN out : out[k].mixed

AllMixed(out) == [k \in DOMAIN out |-> [out[k] EXCEPT !.mixed = TRUE]]

StatusOf(p, r) == [project |-> p, changed |-> r.staged \cup r.edited, staged |-> r.staged]

(* handleProjectGitAction: the files after a call; nothing to commit is an *)
(* error.                                                                  *)
After(c, r) ==
  CASE c.kind = "stage"  -> [staged |-> r.staged \cup ({c.path} \cap r.edited),
                             edited |-> r.edited \ {c.path}]
    [] c.kind = "revert" -> [staged |-> r.staged \ {c.path}, edited |-> r.edited \ {c.path}]
    [] c.kind = "commit" -> [r EXCEPT !.staged = {}]
    [] OTHER             -> r

(* The server does what was asked; it may fail to read the status then.    *)
Serve(k, fails) ==
  LET c == calls[k]
      ok == ~(c.kind = "commit" /\ repo[c.p].staged = {})
      now == IF ok THEN After(c, repo[c.p]) ELSE repo[c.p]
  IN /\ ~c.done
     /\ IF fails THEN Op ELSE UNCHANGED ops
     /\ repo' = [repo EXCEPT ![c.p] = now]
     /\ calls' = [calls EXCEPT ![k] = [@ EXCEPT !.done = TRUE, !.ok = ok /\ ~fails,
                                                !.answer = StatusOf(c.p, now)]]
     /\ UNCHANGED <<timelines, busy, project, modes, git, pane, crossed>>

(* The end of a call: its answer is taken whoever asked, and whichever     *)
(* project is shown now.                                                   *)
Landed(g, c) ==
  LET shown == IF c.ok THEN [g EXCEPT !.status = c.answer, !.known = TRUE,
                                      !.tone = IF c.kind = "refresh" THEN "idle" ELSE "success"]
               ELSE [g EXCEPT !.tone = "error"]
  IN IF c.kind = "refresh" THEN [shown EXCEPT !.loading = FALSE]
     ELSE [shown EXCEPT !.action = ""]

(* The field of the message is emptied after every commit, also after one  *)
(* that failed.                                                            *)
Answer(k) ==
  LET c == calls[k]
  IN /\ c.done
     /\ git' = Landed(git, c)
     /\ calls' = RemoveAt(calls, k)
     /\ crossed' = IF c.ok THEN c.mixed ELSE crossed \/ c.kind # "refresh"
     /\ UNCHANGED <<timelines, busy, repo, project, modes, ops>>
     /\ Rendered([pane EXCEPT !.message = @ /\ c.kind # "commit"])

(* refresh, when its button is not disabled.                               *)
Refresh ==
  /\ Op
  /\ pane.open /\ ~git.loading /\ git.action = ""
  /\ git' = [git EXCEPT !.loading = TRUE]
  /\ Send(calls, Call(project, "refresh", "", Mixed(calls)))
  /\ UNCHANGED <<timelines, busy, repo, project, modes, pane, crossed>>

(* Mutation: a file may be staged while the status is being read.          *)
MayChangeAny(g, working) == ~working /\ g.action = ""

(* The buttons to stage and to revert.                                     *)
MayChange(g, working) == ~working /\ g.action = "" /\ ~g.loading

Change(kind) ==
  /\ Op
  /\ kind \in {"stage", "revert"}
  /\ pane.open /\ Changes # <<>>
  /\ MayChange(git, project \in busy)
  /\ git' = [git EXCEPT !.action = kind]
  /\ Send(calls, Call(project, kind, SelectedChange.path, Mixed(calls)))
  /\ UNCHANGED <<timelines, busy, repo, project, modes, pane, crossed>>

(* The button to commit is not disabled while the status is read.          *)
Commit ==
  /\ Op
  /\ pane.open /\ pane.message
  /\ project \notin busy /\ git.action = "" /\ git.status.staged # {}
  /\ git' = [git EXCEPT !.action = "commit"]
  /\ Send(IF git.loading THEN AllMixed(calls) ELSE calls,
          Call(project, "commit", "", git.loading \/ Mixed(calls)))
  /\ UNCHANGED <<timelines, busy, repo, project, modes, pane, crossed>>

TypeMessage ==
  /\ Op
  /\ pane.open /\ ~pane.message /\ git.action = "" /\ project \notin busy
  /\ pane' = [pane EXCEPT !.message = TRUE]
  /\ UNCHANGED <<timelines, busy, repo, calls, project, modes, git, crossed>>

-----------------------------------------------------------------------------
(* The session.                                                            *)

Open(p) == [p EXCEPT !.open = TRUE]

(* Another project is shown: the state of git is forgotten and read anew,  *)
(* and the pane is opened for a session in review mode.                    *)
Show(p) ==
  /\ Op
  /\ p # project
  /\ project' = p
  /\ git' = [NoGit EXCEPT !.loading = TRUE]
  /\ Send(AllMixed(calls), Call(p, "refresh", "", calls # <<>>))
  /\ crossed' = FALSE
  /\ UNCHANGED <<timelines, busy, repo, modes>>
  /\ Rendered(IF modes[p] = "review" THEN Open(pane) ELSE pane)

SetMode(m) ==
  /\ Op
  /\ modes[project] # m /\ pane.open /\ project \notin busy
  /\ modes' = [modes EXCEPT ![project] = m]
  /\ UNCHANGED <<timelines, busy, repo, calls, project, git, crossed>>
  /\ Rendered(IF m = "review" THEN Open(pane) ELSE pane)

(* onToggleReviewPane: a pane that is closed forgets what it kept.         *)
TogglePane ==
  /\ Op
  /\ UNCHANGED <<timelines, busy, repo, calls, project, modes, git, crossed>>
  /\ Rendered([pane EXCEPT !.open = ~@])

RunStarts ==
  /\ Op
  /\ busy' = busy \cup {project} /\ busy' # busy
  /\ UNCHANGED <<timelines, repo, calls, project, modes, git, pane, crossed>>

RunEnds(p) ==
  /\ p \in busy
  /\ busy' = busy \ {p}
  /\ UNCHANGED <<timelines, repo, calls, project, modes, git, pane, crossed, ops>>

Entries(p) == {timelines[p][k] : k \in DOMAIN timelines[p]}

(* An entry of a session that runs; a patch has been applied by then, and  *)
(* nothing reads the status of git again.                                  *)
Arrive(p, e) ==
  /\ p \in busy /\ Len(timelines[p]) < MaxEntries
  /\ timelines' = [timelines EXCEPT
       ![p] = Append(@, [id |-> <<p, Len(@) + 1>>, type |-> e.type, title |-> e.title,
                         parts |-> e.parts, changes |-> e.changes])]
  /\ repo' = [repo EXCEPT
       ![p].edited = @ \cup {e.changes[k].path : k \in DOMAIN e.changes}]
  /\ UNCHANGED <<busy, calls, project, modes, git, crossed, ops>>
  /\ Rendered(pane)

(* The reply that is written gets another paragraph.                       *)
Grow(p, text) ==
  /\ p \in busy
  /\ timelines[p] # <<>> /\ Last(timelines[p]).type = "note"
  /\ Len(Last(timelines[p]).parts) < 2
  /\ timelines' = [timelines EXCEPT ![p][Len(timelines[p])].parts = Append(@, text)]
  /\ UNCHANGED <<busy, repo, calls, project, modes, git, crossed, ops>>
  /\ Rendered(pane)

-----------------------------------------------------------------------------
(* The pane.                                                               *)

Pane(p) ==
  /\ Op
  /\ pane.open
  /\ UNCHANGED <<timelines, busy, repo, calls, project, modes, git, crossed>>
  /\ Rendered(p)

Select(k) == Pane([pane EXCEPT !.selected = Changes[k].id])

DismissFinding(k) == Pane([pane EXCEPT !.dismissed = @ \cup {VisibleNotes[k].id}])

RestoreDismissed == pane.dismissed # {} /\ Pane([pane EXCEPT !.dismissed = {}])

(* toggleSelectedChangeReviewed.                                           *)
ToggleReviewed ==
  /\ Changes # <<>>
  /\ Pane([pane EXCEPT !.reviewed =
             IF SelectedChange.id \in @ THEN @ \ {SelectedChange.id}
             ELSE @ \cup {SelectedChange.id}])

-----------------------------------------------------------------------------

Init ==
  /\ timelines = [p \in Projects |-> <<>>]
  /\ busy = {}
  /\ repo = [p \in Projects |-> [staged |-> {}, edited |-> {}]]
  /\ project \in Projects
  /\ calls = <<Call(project, "refresh", "", FALSE)>>
  /\ modes = [p \in Projects |-> "exec"]
  /\ git = [NoGit EXCEPT !.loading = TRUE]
  /\ pane = NoPane
  /\ crossed = FALSE
  /\ ops = 0

Next ==
  \/ \E k \in DOMAIN calls : Answer(k) \/ \E fails \in BOOLEAN : Serve(k, fails)
  \/ Refresh
  \/ \E kind \in {"stage", "revert"} : Change(kind)
  \/ Commit
  \/ TypeMessage
  \/ \E p \in Projects : Show(p) \/ RunEnds(p)
  \/ \E m \in {"exec", "review"} : SetMode(m)
  \/ TogglePane
  \/ RunStarts
  \/ \E p \in Projects, e \in Arrivals : Arrive(p, e)
  \/ \E p \in Projects, e \in Arrivals : e.type = "note" /\ Grow(p, e.title)
  \/ \E k \in DOMAIN Changes : Select(k)
  \/ \E k \in DOMAIN VisibleNotes : DismissFinding(k)
  \/ RestoreDismissed
  \/ ToggleReviewed

Spec == Init /\ [][Next]_vars

-----------------------------------------------------------------------------
(* Properties.                                                             *)

(* What was dismissed, reviewed or selected is what the pane can show.     *)
TypeOK ==
  /\ busy \subseteq Projects
  /\ \A p \in Projects : repo[p].staged \cup repo[p].edited \subseteq Paths
  /\ \A k \in DOMAIN calls : calls[k].p \in Projects
  /\ project \in Projects
  /\ git.action \in {"", "stage", "revert", "commit"}
  /\ git.known \/ git.status = NoStatus
  /\ pane.selected \in IdsOf(Changes) \cup {<<>>}
  /\ pane.reviewed \subseteq IdsOf(Changes)
  /\ {id[1] : id \in pane.dismissed} \subseteq IdsOf(ReviewFindings(timelines[project]))
  /\ ~pane.open => pane = NoPane

(* A note that was not dismissed is shown: among the general ones, or, if  *)
(* it names files that were changed, with each of them in exactly one      *)
(* place.  A diff with lines before its first hunk (the "diff --git" and   *)
(* "index" of git) may show it twice, since those lines have the keys of   *)
(* the first hunk (parseDiffLines, pickInlineAnchorKey).                   *)
Plain(diff) ==
  \A k \in DOMAIN diff :
    diff[k].kind \notin {"hunk", "header"} => \E j \in 1..k : diff[j].kind = "hunk"

NoteOnce ==
  pane.open =>
    \A k \in DOMAIN VisibleNotes :
      LET note == VisibleNotes[k]
          own == {c \in ToSet(Changes) : FindingMatchesChange(note, c)}
      IN /\ own = {} <=> note \in ToSet(GeneralFindings)
         /\ \A c \in own : /\ PlacesOf(note, c.diff) # {}
                           /\ Plain(c.diff) => Cardinality(PlacesOf(note, c.diff)) = 1

(* When every call has been answered, the pane shows what is staged in the *)
(* repository of its own project, so that its button commits what it says, *)
(* unless a call of the project shown before was still out, a commit was   *)
(* sent while the status was read, or a call was done but its answer lost  *)
(* (use-project-review-git.ts and the conditions that disable the buttons).*)
StagedShown ==
  calls = <<>> /\ git.known /\ ~crossed =>
    git.status.project = project /\ git.status.staged = repo[project].staged
=============================================================================
