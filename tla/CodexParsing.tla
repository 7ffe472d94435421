---------------------------- MODULE CodexParsing ----------------------------
(***************************************************************************)
(* What the browser reads in the output of a run and in the events of the  *)
(* app-server (src/web/src/features/session/codex-parsing.ts,              *)
(* session-events.ts and domains/timeline-noise.ts).                       *)
(*                                                                         *)
(* A line of output is a record: its type (a type of event, or "text" for  *)
(* a line that is no JSON), the id, kind and status of the item it is      *)
(* about, the role of its author, and its text.  A text is a sequence of   *)
(* words; <<>> is the empty one, and a text of blanks is Blank.            *)
(***************************************************************************)
EXTENDS Naturals, Sequences, SequencesExt

CONSTANTS
  NoiseTexts,     (* texts of lines that report progress of the protocol    *)
  ApprovalTexts,  (* texts that speak of an approval                        *)
  MaxCommands     (* commands the terminal pane shows                       *)

Blank == <<" ">>

Line(type, item, kind, status, role, text) ==
  [type |-> type, item |-> item, kind |-> kind, status |-> status, role |-> role, text |-> text]

FirstNonEmpty(candidates, empty) ==
  LET i == SelectInSeq(candidates, LAMBDA c : c # empty)
  IN IF i = 0 THEN empty ELSE candidates[i]

-----------------------------------------------------------------------------
(* The text of the assistant.                                              *)

AgentKinds == {"", "agent_message", "agentmessage", "assistant_message", "message"}

(* pickAssistantTextFromEvent.                                             *)
MessageOf(e) ==
  CASE e.type = "item.completed"     -> IF e.kind \in AgentKinds \/ e.role = "assistant"
                                        THEN e.text ELSE <<>>
    [] e.type = "response.completed" -> e.text
    [] e.type = "response_item"      -> IF e.kind = "message" /\ e.role = "assistant"
                                        THEN e.text ELSE <<>>
    [] e.type = "event_msg"          -> IF e.kind \in {"agent_message", "task_complete"}
                                        THEN e.text ELSE <<>>
    [] OTHER                         -> <<>>

DeltaTypes == {"item.agent_message.delta", "agent_message_delta", "agent.message.delta"}

IsCodexProtocolNoiseLine(text) == text \in NoiseTexts

(* A text that was a message before is no new message.                     *)
Messages(lines) ==
  FoldLeft(LAMBDA out, e : IF MessageOf(e) = <<>> \/ Contains(out, MessageOf(e)) THEN out
                           ELSE Append(out, MessageOf(e)), <<>>, lines)

TextsOf(lines, Picked(_)) ==
  LET picked == SelectSeq(lines, Picked) IN [k \in DOMAIN picked |-> picked[k].text]

(* parseCodexAssistantTextFromStdout: the last message, or else the pieces *)
(* of one, or else the plain lines.                                        *)
AssistantText(lines, allowPlainText) ==
  LET messages == Messages(lines)
      deltas == TextsOf(lines, LAMBDA e : e.type \in DeltaTypes /\ e.text \notin {<<>>, Blank})
      plain == TextsOf(lines, LAMBDA e : e.type = "text" /\ ~IsCodexProtocolNoiseLine(e.text))
  IN IF messages # <<>> THEN Last(messages)
     ELSE IF deltas # <<>> THEN FlattenSeq(deltas)
     ELSE IF allowPlainText THEN FlattenSeq(plain)
     ELSE <<>>

(* parseCodexSessionTitleFromStdout: the latest title.                     *)
SessionTitle(lines) ==
  LET titled == TextsOf(lines, LAMBDA e :
        e.type \in {"thread.title.updated", "thread.started", "session.started"} /\ e.text # <<>>)
  IN IF titled = <<>> THEN <<>> ELSE Last(titled)

-----------------------------------------------------------------------------
(* The cards: entries of the system about commands, patches and tools.     *)

NoCard == [title |-> "", key |-> <<>>, state |-> "", item |-> "", phase |-> "", text |-> <<>>]

Card(title, key, state, e, phase) ==
  [title |-> title, key |-> key, state |-> state, item |-> e.item, phase |-> phase,
   text |-> e.text]

RuntimeStateFromStatus(status) ==
  CASE status \in {"failed", "error", "declined"} -> "error"
    [] status \in {"completed", "succeeded"}      -> "success"
    [] OTHER                                      -> "running"

EffectiveStatus(e) ==
  IF e.status # "" THEN e.status
  ELSE IF e.type = "item.completed" THEN "completed" ELSE "in_progress"

ApprovalCard(e, key) ==
  IF e.text \in ApprovalTexts THEN Card("Approval Required", key, "error", e, "") ELSE NoCard

(* A piece of a diff or of an output: pieces of one item with the same     *)
(* text have the same key (the code's key has its length and its first 80  *)
(* characters).                                                            *)
PieceCard(title, e, phase) ==
  IF e.text \in {<<>>, Blank} THEN NoCard
  ELSE Card(title, <<e.type, e.item, e.text>>, "running", e, phase)

CommandCard(e) ==
  LET status == EffectiveStatus(e)
      title == CASE status = "failed"    -> "Command Failed"
                 [] status = "completed" -> "Command Completed"
                 [] OTHER                -> "Command Started"
  IN IF status = "declined"
     THEN Card("Approval Required", <<"approval", e.item, status>>, "error", e, "")
     ELSE Card(title, <<"command", e.item, status>>, RuntimeStateFromStatus(status), e,
               "lifecycle")

PatchCard(e) ==
  LET status == EffectiveStatus(e)
      title == CASE status = "failed"    -> "Patch Failed"
                 [] status = "completed" -> "Patch Applied"
                 [] OTHER                -> "Patch Started"
  IN Card(title, <<"patch", e.item, status>>, RuntimeStateFromStatus(status), e, "")

(* A search on the web has no card for its failure.                        *)
ToolCard(e) ==
  LET status == EffectiveStatus(e)
      title == CASE status = "failed" /\ e.kind # "web_search" -> "Tool Failed"
                 [] status = "completed"                       -> "Tool Completed"
                 [] OTHER                                      -> "Tool Started"
  IN Card(title, <<e.kind, e.item, status>>, RuntimeStateFromStatus(status), e, "")

ItemTypes == {"item.started", "item.updated", "item.completed"}

(* buildCodexRuntimeCardFromEvent; the run is the same in all the keys of  *)
(* one run state and left out of them.                                     *)
RuntimeCard(e) ==
  CASE e.type \in {"error", "turn.failed"} -> ApprovalCard(e, <<"approval", e.type, e.text>>)
    [] e.type = "turn.diff.updated"        -> PieceCard("Review Diff Updated", e, "")
    [] e.type = "item.filechange.outputdelta" -> PieceCard("Patch Diff Delta", e, "")
    [] e.type = "item.commandexecution.outputdelta" ->
         PieceCard("Command Output Delta", e, "delta")
    [] e.type = "item.commandexecution.terminalinteraction" ->
         PieceCard("Terminal Interaction", e, "interaction")
    [] e.type \in ItemTypes ->
         (CASE e.kind = "command_execution" -> CommandCard(e)
            [] e.kind = "file_change"       -> PatchCard(e)
            [] e.kind \in {"mcp_tool_call", "web_search", "collab_tool_call"} -> ToolCard(e)
            [] e.kind = "error"             -> ApprovalCard(e, <<"approval", e.item>>)
            [] OTHER                        -> NoCard)
    [] OTHER -> NoCard

-----------------------------------------------------------------------------
(* What the terminal pane shows of the cards (src/web/src/App.tsx).        *)

(* terminalCommands: the commands by item, in the order of their first     *)
(* card; the pieces of output are joined until the whole output arrives.   *)
(* The pane shows the last ones.                                           *)
NewCommand(c) == [item |-> c.item, state |-> c.state, output |-> <<>>, inputs |-> <<>>]

(* Mutation: the whole output is joined to the pieces.                     *)
WithCardJoined(command, c) ==
  CASE c.phase = "delta"       -> [command EXCEPT !.output = @ \o c.text]
    [] c.phase = "interaction" -> [command EXCEPT !.inputs = Append(@, c.text)]
    [] OTHER                   -> [command EXCEPT !.state = c.state, !.output = @ \o c.text]

WithCard(command, c) ==
  CASE c.phase = "delta"       -> [command EXCEPT !.output = @ \o c.text]
    [] c.phase = "interaction" -> [command EXCEPT !.inputs = Append(@, c.text)]
    [] OTHER                   -> [command EXCEPT !.state = c.state,
                                                  !.output = IF c.text = <<>> THEN @ ELSE c.text]

TerminalCommands(cards) ==
  LET Show(shown, c) ==
        LET i == SelectInSeq(shown, LAMBDA x : x.item = c.item)
        IN IF c.phase = "" THEN shown
           ELSE IF i = 0 THEN Append(shown, WithCard(NewCommand(c), c))
           ELSE [shown EXCEPT ![i] = WithCard(@, c)]
      all == FoldLeft(Show, <<>>, cards)
      n == Len(all)
  IN SubSeq(all, IF n > MaxCommands THEN n - MaxCommands + 1 ELSE 1, n)

-----------------------------------------------------------------------------
(* normalizeSessionEvent: what an event of a session means for its run.    *)
(* An event is [type, method, run, turn, job, title, line]; events of the  *)
(* app-server have the type "codexrpc" and a method, and those that carry  *)
(* output are read as one line of it.                                      *)

RunMethods ==
  [turn_started |-> "run.started", turn_completed |-> "run.completed",
   turn_failed |-> "run.failed", error |-> "run.failed",
   turn_canceled |-> "run.canceled", turn_interrupted |-> "run.canceled"]

TitleMethods == {"thread_updated", "thread_started", "thread_named"}

ChunkMethods ==
  {"turn_diff_updated", "item_filechange_outputdelta", "item_commandexecution_outputdelta",
   "item_commandexecution_terminalinteraction", "item_started", "item_updated",
   "item_completed"}

SessionEventRunID(e) ==
  IF e.type = "codexrpc" THEN FirstNonEmpty(<<e.run, e.turn, e.job>>, "")
  ELSE FirstNonEmpty(<<e.run, e.job>>, "")

(* "" for an event that means nothing.                                     *)
NormalizedType(e) ==
  CASE e.type # "codexrpc"            -> e.type
    [] e.method \in TitleMethods      -> IF e.title = <<>> THEN "" ELSE "session.title.updated"
    [] e.method \in DOMAIN RunMethods -> RunMethods[e.method]
    [] e.method = "item_agentmessage_delta" -> IF e.line.text = <<>> THEN "" ELSE "assistant.delta"
    [] e.method \in ChunkMethods      -> "assistant.delta"
    [] OTHER                          -> ""
=============================================================================
