----------------------------- MODULE RunOutput -----------------------------
(***************************************************************************)
(* How the browser reads the output of a run while it arrives              *)
(* (src/web/src/features/session/session-run-events.ts and                 *)
(* codex-parsing.ts): pieces of any size are joined, the joined text is cut*)
(* at its front when it is too long, every line that is complete is read   *)
(* once, and the cards of its events are put into the timeline, from which *)
(* the panes of the terminal and of the review are made (App.tsx).         *)
(*                                                                         *)
(* The output is a sequence of tokens <<k, part>>: each line k has a head, *)
(* a tail and an end, its line break.  A line can be read only when its    *)
(* head and its tail stand between two breaks.                             *)
(***************************************************************************)
EXTENDS CodexParsing, FiniteSets

CONSTANTS
  Scripts,        (* the lines a run may write: sequences of lines          *)
  Notices,        (* events of the app-server                               *)
  MaxOut,         (* tokens of output that are kept (220000 characters)     *)
  MaxChunk        (* bound on the tokens of a piece                         *)

VARIABLES
  lines,    (* everything that was or will be written                       *)
  sent,     (* tokens of it that have arrived                               *)
  run,      (* the run state: its id, what is kept of the output, where the *)
            (* reading goes on, the keys of the cards that were made        *)
  surface,  (* cards are shown: what is replayed at the first time is not   *)
  cards,    (* the cards in the timeline                                    *)
  cutoff,   (* cards before the terminal pane was cleared                   *)
  title,    (* the session's title                                          *)
  read,     (* ghost: the lines that were read, in their order              *)
  whole     (* ghost: no break came alone and nothing unread was cut        *)

vars == <<lines, sent, run, surface, cards, cutoff, title, read, whole>>

NewRun(id) == [id |-> id, out |-> <<>>, offset |-> 0, keys |-> {}]

Parts == <<"head", "tail", "end">>

Token(n) == <<((n - 1) \div 3) + 1, Parts[((n - 1) % 3) + 1]>>

IsEnd(token) == token[2] = "end"

(* Mutation: the place to go on from stays when the front is cut.          *)
AppendAtOldOffset(state, chunk) ==
  LET out == state.out \o chunk
      trim == IF Len(out) > MaxOut THEN Len(out) - MaxOut ELSE 0
  IN [state EXCEPT !.out = SubSeq(out, trim + 1, Len(out))]

(* appendCodexStdoutChunk.                                                 *)
AppendCodexStdoutChunk(state, chunk) ==
  LET out == state.out \o chunk
      trim == IF Len(out) > MaxOut THEN Len(out) - MaxOut ELSE 0
  IN [state EXCEPT !.out = SubSeq(out, trim + 1, Len(out)),
                   !.offset = IF @ > trim THEN @ - trim ELSE 0]

(* The line that ends at n, when it stands between two breaks.             *)
WholeAt(out, n) ==
  /\ n >= 3 /\ IsEnd(out[n])
  /\ out[n - 2] = <<out[n][1], "head">> /\ out[n - 1] = <<out[n][1], "tail">>
  /\ n = 3 \/ IsEnd(out[n - 3])

(* The lines that are complete after from, in their order.                 *)
LinesAfter(out, from) ==
  LET upto[n \in 0..Len(out)] ==
        IF n = 0 THEN <<>>
        ELSE IF n > from /\ WholeAt(out, n) THEN Append(upto[n - 1], out[n][1])
        ELSE upto[n - 1]
  IN upto[Len(out)]

(* parseCodexEventsIncremental: where to go on, and the lines that are     *)
(* complete.  An offset within a line goes on after its break.             *)
ParseIncremental(out, offset) ==
  LET cursor == IF offset > Len(out) THEN Len(out) ELSE offset
      rest == SelectInSeq(SubSeq(out, cursor + 1, Len(out)), IsEnd)
      within == cursor > 0 /\ ~IsEnd(out[cursor])
      from == IF within THEN cursor + rest ELSE cursor
      last == SelectLastInSeq(out, IsEnd)
  IN IF within /\ rest = 0 THEN [next |-> cursor, lines |-> <<>>]
     ELSE [next |-> IF last > from THEN last ELSE from, lines |-> LinesAfter(out, from)]

(* surfaceRuntimeCardsFromRunState: the new cards of the lines that were   *)
(* read; a card is made once, and shown if it may be.                      *)
Surfaced(state, shown, events) ==
  LET Add(made, e) ==
        LET c == RuntimeCard(e)
        IN IF c = NoCard \/ c.key \in made.keys THEN made
           ELSE [keys |-> made.keys \cup {c.key}, cards |-> Append(made.cards, c)]
      made == FoldLeft(Add, [keys |-> state.keys, cards |-> <<>>], events)
  IN [keys |-> made.keys, cards |-> IF shown THEN made.cards ELSE <<>>]

(* A piece of blanks is not handled.                                       *)
IsBlankChunk(chunk) == \A k \in DOMAIN chunk : IsEnd(chunk[k])

EnsureRun(id) == IF run.id = id THEN run ELSE NewRun(id)

Chunk(id, chunk) ==
  LET state == EnsureRun(id)
      appended == AppendCodexStdoutChunk(state, chunk)
      parsed == ParseIncremental(appended.out, appended.offset)
      made == Surfaced(state, surface, [k \in DOMAIN parsed.lines |-> lines[parsed.lines[k]]])
      kept == LinesAfter(appended.out, 0)
      named == SessionTitle([k \in DOMAIN kept |-> lines[kept[k]]])
      unread == IF id = run.id THEN Len(state.out) - state.offset ELSE 0
  IN IF IsBlankChunk(chunk)
     THEN /\ run' = state
          /\ whole' = FALSE
          /\ UNCHANGED <<cards, title, read>>
     ELSE /\ run' = [appended EXCEPT !.offset = parsed.next, !.keys = made.keys]
          /\ cards' = cards \o made.cards
          /\ title' = IF named = <<>> THEN title ELSE named
          /\ read' = read \o parsed.lines
          /\ whole' = (whole /\ (id = run.id \/ sent % 3 = 0) /\ unread + Len(chunk) <= MaxOut)

(* A piece of the output of a job, its next n tokens.                      *)
Receive(n) ==
  /\ sent + n <= 3 * Len(lines)
  /\ sent' = sent + n
  /\ Chunk("job", [k \in 1..n |-> Token(sent + k)])
  /\ UNCHANGED <<lines, surface, cutoff>>

(* An event of the app-server: a title, a line of output, or the start or  *)
(* the end of a run.  Events that mean nothing are dropped.                *)
Notified(e) ==
  LET type == NormalizedType(e)
      id == SessionEventRunID(e)
  IN \/ /\ type = "session.title.updated"
        /\ title' = e.title
        /\ UNCHANGED <<lines, sent, run, surface, cards, cutoff, read, whole>>
     \/ /\ type = "assistant.delta" /\ id # ""
        /\ sent % 3 = 0 /\ sent < 3 * Len(lines)
        /\ e.line = lines[(sent \div 3) + 1]
        /\ sent' = sent + 3
        /\ Chunk(id, [k \in 1..3 |-> Token(sent + k)])
        /\ UNCHANGED <<lines, surface, cutoff>>
     \/ /\ type \in {"run.started", "run.completed", "run.failed", "run.canceled"} /\ id # ""
        /\ run' = IF type = "run.started" THEN EnsureRun(id) ELSE NewRun("")
        /\ UNCHANGED <<lines, sent, surface, cards, cutoff, title, read, whole>>

(* session.ready: from now on cards are shown.                             *)
Ready ==
  /\ ~surface
  /\ surface' = TRUE
  /\ UNCHANGED <<lines, sent, run, cards, cutoff, title, read, whole>>

(* The user clears the terminal pane.                                      *)
ClearTerminal ==
  /\ cutoff < Len(cards)
  /\ cutoff' = Len(cards)
  /\ UNCHANGED <<lines, sent, run, surface, cards, title, read, whole>>

Init ==
  /\ lines \in Scripts
  /\ surface \in BOOLEAN
  /\ sent = 0
  /\ run = NewRun("")
  /\ cards = <<>>
  /\ cutoff = 0
  /\ title = <<>>
  /\ read = <<>>
  /\ whole = TRUE

Next ==
  \/ \E n \in 1..MaxChunk : Receive(n)
  \/ \E e \in Notices : Notified(e)
  \/ Ready
  \/ ClearTerminal

Spec == Init /\ [][Next]_vars

-----------------------------------------------------------------------------
(* What the panes show.                                                    *)

TerminalPane == TerminalCommands(SubSeq(cards, cutoff + 1, Len(cards)))

(* The text of the reply that is written while the output arrives.         *)
ReplyText ==
  LET kept == LinesAfter(run.out, 0)
  IN AssistantText([k \in DOMAIN kept |-> lines[kept[k]]], FALSE)

(* A job that is over has its whole output in its record.                  *)
RecordText == AssistantText(lines, TRUE)

-----------------------------------------------------------------------------
(* Properties.                                                             *)

TypeOK ==
  /\ sent \in 0..(3 * Len(lines))
  /\ Len(run.out) <= MaxOut
  /\ run.offset \in 0..Len(run.out)
  /\ ToSet(read) \subseteq DOMAIN lines
  /\ cutoff \in 0..Len(cards)
  /\ whole \in BOOLEAN

(* Every line that is complete is read once and in order, however it is    *)
(* cut into pieces and however much of the front is cut off, unless a piece*)
(* was nothing but its break, or was cut off before it was read.  In any   *)
(* case no line is read twice (parseCodexEventsIncremental with the offset *)
(* that appendCodexStdoutChunk moves).                                     *)
EveryLineRead ==
  /\ \A j, k \in DOMAIN read : j < k => read[j] < read[k]
  /\ whole => read = [k \in 1..(sent \div 3) |-> k]

(* The terminal pane shows a command that is over with its whole output    *)
(* and its outcome, whatever pieces of it were shown before, were hidden in*)
(* a replay or were cleared from the pane.                                 *)
CommandShown ==
  \A k \in DOMAIN TerminalPane :
    LET command == TerminalPane[k]
        ends == {j \in DOMAIN read :
                   LET e == lines[read[j]]
                   IN e.item = command.item /\ e.kind = "command_execution"
                      /\ e.type = "item.completed" /\ e.text # <<>>}
    IN ends # {} /\ command.state # "running" =>
         \E j \in ends : /\ command.output = lines[read[j]].text
                         /\ command.state = RuntimeStateFromStatus(EffectiveStatus(lines[read[j]]))
=============================================================================
