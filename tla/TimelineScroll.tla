--------------------------- MODULE TimelineScroll ---------------------------
(***************************************************************************)
(* Whether the timeline on the screen follows what is added to it          *)
(* (src/web/src/features/session/use-timeline-scroll.ts, SessionTimeline). *)
(*                                                                         *)
(* A change of the timeline is rendered first and the effect of the hook   *)
(* runs after it.  The browser then makes a frame: it tells of scrolling   *)
(* that has happened, and runs the scroll the effect has asked for.        *)
(***************************************************************************)
EXTENDS Naturals, Sequences, FiniteSetsExt

CONSTANTS
  Threads,        (* the sessions                                           *)
  CountCap,       (* TIMELINE_JUMP_COUNT_CAP                                *)
  MaxChanges,     (* bound on the changes of a timeline                     *)
  MaxMoves        (* bound on what the user does                            *)

SecondaryTitles ==
  {"Command Started", "Command Completed", "Command Failed", "Patch Started", "Patch Applied",
   "Patch Failed", "Command Output Delta", "Terminal Interaction", "Review Diff Updated",
   "Patch Diff Delta"}

VARIABLES
  timelines,  (* of each session, what the effect looks at: the number of   *)
              (* visible entries, the state and the size of the last one    *)
  active,     (* the session that is shown                                  *)
  mode,       (* "session", or "ops" when the timeline is not mounted       *)
  last,       (* what the effect has seen: thread, signature and tail       *)
  stick,      (* the timeline sticks to its end; force: until the next      *)
  force,      (* frame, wherever the user is                                *)
  count,      (* how many changes the button for the latest counts          *)
  frame,      (* a frame is asked for that scrolls to the end               *)
  dirty,      (* something was rendered and the effect has not run          *)
  view,       (* the end is on the screen; the user's scrolling is not told *)
  moves,      (* what the user has done so far                              *)
  unseen,     (* ghost: a change was not on the screen yet                  *)
  away        (* ghost: the timeline was mounted again with nothing changed *)

vars == <<timelines, active, mode, last, stick, force, count, frame, dirty, view, moves, unseen,
          away>>

NewTimeline == [len |-> 0, state |-> "none", size |-> 0]

TailOf(t) == [len |-> timelines[t].len, state |-> timelines[t].state]

-----------------------------------------------------------------------------
(* The timelines change.                                                   *)

(* Cards are entries of the terminal and review panes and not visible.     *)
VisibleTimeline(timeline, title, state) ==
  IF title \in SecondaryTitles THEN timeline
  ELSE [timeline EXCEPT !.len = @ + 1, !.state = state, !.size = 0]

Changed(timeline, what) ==
  CASE what = "reply" -> VisibleTimeline(timeline, "Assistant", "running")
    [] what = "card"  -> VisibleTimeline(timeline, "Command Started", "running")
    [] what = "text"  -> [timeline EXCEPT !.size = @ + 1]
    [] what = "end"   -> [timeline EXCEPT !.state = "success"]

Changes == timelines[active].len + timelines[active].size

(* What is rendered may push the end of the timeline off the screen.       *)
Rendered(structural) ==
  /\ dirty' = TRUE
  /\ \E bottom \in {FALSE, view.bottom} :
       /\ view' = [view EXCEPT !.bottom = bottom]
       /\ unseen' = (~bottom /\ (unseen \/ structural))

Arrive(t, what) ==
  /\ ~dirty
  /\ timelines[t].len + timelines[t].size < MaxChanges
  /\ what \in {"text", "end"} => timelines[t].state = "running"
  /\ timelines' = [timelines EXCEPT ![t] = Changed(@, what)]
  /\ IF t = active /\ mode = "session" /\ timelines' # timelines
     THEN Rendered(what # "text")
     ELSE UNCHANGED <<dirty, view, unseen>>
  /\ UNCHANGED <<active, mode, last, stick, force, count, frame, moves, away>>

-----------------------------------------------------------------------------
(* The hook.                                                               *)

Signature == [thread |-> active, timeline |-> timelines[active]]

(* The effect; without a timeline on the screen it does nothing.           *)
Effect ==
  LET threadChanged == last.thread # active
      shouldStick == force \/ stick \/ threadChanged
      structural == last.tail # TailOf(active)
  IN /\ dirty /\ mode = "session"
     /\ dirty' = FALSE
     /\ last' = [thread |-> active, signature |-> Signature, tail |-> TailOf(active)]
     /\ force' = (force \/ threadChanged)
     /\ count' = IF threadChanged THEN 0
                 ELSE IF ~shouldStick /\ last.signature # Signature /\ structural
                 THEN Min({CountCap, count + 1})
                 ELSE count
     /\ frame' = shouldStick
     /\ UNCHANGED <<timelines, active, mode, stick, view, moves, unseen, away>>

(* The end is on the screen; the hook may still hold another session.      *)
AtEnd == unseen' = FALSE /\ away' = (away /\ last.thread # active)

(* Mutation: the count starts anew wherever the user scrolls to.           *)
CountAfterAnyScroll == 0

(* onTimelineScroll.                                                       *)
CountAfterScroll == IF view.bottom THEN 0 ELSE count

(* A frame of the browser: the scroll event comes before the callback.     *)
BrowserFrame ==
  /\ view.scrolled \/ frame
  /\ stick' = IF view.scrolled /\ mode = "session" THEN view.bottom ELSE stick
  /\ count' = IF frame THEN 0
              ELSE IF mode = "session" THEN CountAfterScroll ELSE count
  /\ force' = (force /\ ~frame)
  /\ frame' = FALSE
  /\ IF frame /\ mode = "session"
     THEN /\ view' = [bottom |-> TRUE, scrolled |-> ~view.bottom]
          /\ AtEnd
     ELSE /\ view' = [view EXCEPT !.scrolled = FALSE]
          /\ UNCHANGED <<unseen, away>>
  /\ UNCHANGED <<timelines, active, mode, last, dirty, moves>>

-----------------------------------------------------------------------------
(* The user.                                                               *)

Move == moves < MaxMoves /\ moves' = moves + 1


Scroll(bottom) ==
  /\ mode = "session" /\ Move
  /\ view' = [bottom |-> bottom, scrolled |-> TRUE]
  /\ IF bottom THEN AtEnd ELSE UNCHANGED <<unseen, away>>
  /\ UNCHANGED <<timelines, active, mode, last, stick, force, count, frame, dirty>>

JumpTimelineToLatest ==
  /\ mode = "session" /\ count > 0 /\ Move
  /\ force' = TRUE /\ stick' = TRUE /\ count' = 0
  /\ view' = [bottom |-> TRUE, scrolled |-> ~view.bottom]
  /\ AtEnd
  /\ UNCHANGED <<timelines, active, mode, last, frame, dirty>>

(* A prompt is submitted: its entry comes with forceStickToBottom.         *)
Submit ==
  /\ mode = "session" /\ ~dirty /\ Move
  /\ Changes < MaxChanges
  /\ timelines' = [timelines EXCEPT ![active] = VisibleTimeline(@, "You", "none")]
  /\ force' = TRUE /\ stick' = TRUE /\ count' = 0
  /\ Rendered(TRUE)
  /\ UNCHANGED <<active, mode, last, frame, away>>

SwitchThread(t) ==
  /\ t # active /\ ~dirty /\ Move
  /\ active' = t
  /\ IF mode = "session" THEN Rendered(TRUE) ELSE UNCHANGED <<dirty, view, unseen>>
  /\ UNCHANGED <<timelines, mode, last, stick, force, count, frame, away>>

(* The operations page takes the place of the timeline.  Back again, it is *)
(* at its top, and the effect runs only for another session.               *)
SwitchMode(m, t) ==
  /\ m # mode /\ ~dirty /\ Move
  /\ mode' = m
  /\ active' = IF m = "ops" THEN active ELSE t
  /\ IF m = "ops" THEN UNCHANGED <<dirty, view, unseen, away>>
     ELSE /\ \E bottom \in BOOLEAN :
               /\ view' = [bottom |-> bottom, scrolled |-> FALSE]
               /\ unseen' = ~bottom
          /\ dirty' = (t # active)
          /\ away' = (away \/ t \in {active, last.thread})
  /\ UNCHANGED <<timelines, last, stick, force, count, frame>>

Init ==
  /\ timelines = [t \in Threads |-> NewTimeline]
  /\ active \in Threads
  /\ mode = "session"
  /\ last = [thread |-> active, signature |-> Signature, tail |-> TailOf(active)]
  /\ stick = TRUE
  /\ force = TRUE
  /\ count = 0
  /\ frame = TRUE
  /\ dirty = FALSE
  /\ view = [bottom |-> TRUE, scrolled |-> FALSE]
  /\ moves = 0
  /\ unseen = FALSE
  /\ away = FALSE

Next ==
  \/ \E t \in Threads :
       \/ \E what \in {"reply", "card", "text", "end"} : Arrive(t, what)
       \/ SwitchThread(t)
       \/ \E m \in {"session", "ops"} : SwitchMode(m, t)
  \/ Effect
  \/ BrowserFrame
  \/ \E bottom \in BOOLEAN : Scroll(bottom)
  \/ JumpTimelineToLatest
  \/ Submit

Spec == Init /\ [][Next]_vars

-----------------------------------------------------------------------------
(* Properties.                                                             *)

TypeOK ==
  /\ active \in Threads
  /\ mode \in {"session", "ops"}
  /\ count \in 0..CountCap
  /\ moves \in 0..MaxMoves
  /\ {stick, force, frame, dirty, unseen, away} \subseteq BOOLEAN

(* An entry that was added, or a reply that has ended, is on the screen or *)
(* will be in the next frame, or else the button counts it: whatever the   *)
(* user scrolls, switches and submits meanwhile.  Only after the user came *)
(* back from the operations page is the end off the screen and not counted:*)
(* the effect does not run then, and where the session was changed there,  *)
(* the hook goes on holding another one than is shown, and takes a change  *)
(* back to that one for none.                                              *)
SeenOrCounted ==
  mode = "session" /\ unseen /\ ~frame /\ ~dirty => count > 0 \/ away
=============================================================================
