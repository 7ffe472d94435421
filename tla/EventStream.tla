----------------------------- MODULE EventStream -----------------------------
(***************************************************************************)
(* The server-sent events of a session as the browser reads them           *)
(* (streamSessionEventsViaSSE of src/web/src/api.ts): the server writes    *)
(* frames of lines, the network brings them in chunks that end anywhere,   *)
(* and the reader puts lines and frames together again.                    *)
(*                                                                         *)
(* A line that is not blank is two pieces: the first has its field and the *)
(* beginning of its value.  Carriage returns and comments, which the       *)
(* server does not write, are left out.                                    *)
(***************************************************************************)
EXTENDS Naturals, Sequences, SequencesExt

CONSTANTS
  Types,          (* the types of frames                                    *)
  Numbered,       (* the types whose frames have an id                      *)
  MaxFrames,      (* bound on the frames of a stream                        *)
  MaxChunk        (* bound on the pieces of a chunk                         *)

VARIABLES
  sent,     (* the frames the server has written                            *)
  wire,     (* pieces of lines on their way                                 *)
  reader,   (* the loop that reads: the line it has begun, the frame it     *)
            (* has begun, and the frames it has handed on                   *)
  phase     (* "open", "done" or "broken"                                   *)

vars == <<sent, wire, reader, phase>>

Frame(type, id, data) == [type |-> type, id |-> id, data |-> data]
Blank == Frame("message", 0, <<>>)

-----------------------------------------------------------------------------
(* The server.                                                             *)

Newline == [field |-> "", value |-> "", n |-> 0, part |-> 0]

Line(field, value, n) ==
  << [field |-> field, value |-> value, n |-> n, part |-> 1],
     [field |-> field, value |-> value, n |-> n, part |-> 2], Newline >>

(* writeSSEEvent.                                                          *)
Written(f) ==
  (IF f.id = 0 THEN <<>> ELSE Line("id", "", f.id)) \o
  Line("event", f.type, 0) \o Line("data", "", f.data[1]) \o <<Newline>>

Write(type) ==
  /\ phase = "open" /\ Len(sent) < MaxFrames
  /\ LET n == Len(sent) + 1
         f == Frame(type, IF type \in Numbered THEN n ELSE 0, <<n>>)
     IN sent' = Append(sent, f) /\ wire' = wire \o Written(f)
  /\ UNCHANGED <<reader, phase>>

-----------------------------------------------------------------------------
(* The browser.                                                            *)

(* A blank line that follows nothing hands nothing on.                     *)
EmitFrame(r) ==
  IF r.frame = Blank THEN r
  ELSE [r EXCEPT !.got = Append(@, r.frame), !.frame = Blank]

(* What is left of a line whose beginning is lost has no known field.      *)
ConsumeLine(r, line) ==
  IF line = <<>> THEN EmitFrame(r)
  ELSE LET piece == Head(line)
       IN IF piece.part = 2 THEN r
          ELSE CASE piece.field = "event" -> [r EXCEPT !.frame.type = piece.value]
                 [] piece.field = "id"    -> [r EXCEPT !.frame.id = piece.n]
                 [] piece.field = "data"  -> [r EXCEPT !.frame.data = Append(@, piece.n)]

Consumed(r, pieces) ==
  FoldLeft(LAMBDA s, piece :
             IF piece = Newline THEN ConsumeLine([s EXCEPT !.line = <<>>], s.line)
             ELSE [s EXCEPT !.line = Append(@, piece)],
           r, pieces)

(* Mutation: the line that has begun is forgotten between two chunks.      *)
ChunkAlone(r, pieces) == Consumed([r EXCEPT !.line = <<>>], pieces)

(* A chunk is appended to the line that has begun, and every line that is  *)
(* ended by it is consumed.                                                *)
Chunk(r, pieces) == Consumed(r, pieces)

Read(n) ==
  /\ phase = "open" /\ n <= Len(wire)
  /\ reader' = Chunk(reader, SubSeq(wire, 1, n))
  /\ wire' = SubSeq(wire, n + 1, Len(wire))
  /\ UNCHANGED <<sent, phase>>

(* The server ends the stream: what is left is taken for a line and for a  *)
(* frame.                                                                  *)
Finish ==
  /\ phase = "open" /\ wire = <<>>
  /\ LET tail == IF reader.line = <<>> THEN reader
                 ELSE ConsumeLine([reader EXCEPT !.line = <<>>], reader.line)
     IN reader' = EmitFrame(tail)
  /\ phase' = "done"
  /\ UNCHANGED <<sent, wire>>

(* The connection breaks: what was read of a frame is dropped.             *)
Break ==
  /\ phase = "open"
  /\ phase' = "broken"
  /\ UNCHANGED <<sent, wire, reader>>

-----------------------------------------------------------------------------

Init ==
  /\ sent = <<>>
  /\ wire = <<>>
  /\ reader = [line |-> <<>>, frame |-> Blank, got |-> <<>>]
  /\ phase = "open"

Next ==
  \/ \E type \in Types : Write(type)
  \/ \E n \in 1..MaxChunk : Read(n)
  \/ Finish
  \/ Break

Spec == Init /\ [][Next]_vars

-----------------------------------------------------------------------------

TypeOK ==
  /\ phase \in {"open", "done", "broken"}
  /\ Len(sent) <= MaxFrames
  /\ reader.frame.type \in Types \cup {"message"}
  /\ Len(reader.line) <= 2

(* The frames that are handed on are the server's, whole and in order,     *)
(* wherever the chunks end; nothing that has arrived is kept back.         *)
FramesWhole ==
  /\ IsPrefix(reader.got, sent)
  /\ wire = <<>> => reader.got = sent
=============================================================================
