------------------------------ MODULE Timeline ------------------------------
(***************************************************************************)
(* The timeline of a session in the browser: the entries the user sees.    *)
(* A reply of the assistant is written while it streams; the entry that is *)
(* being written is found by its kind and state, not by an id              *)
(* (src/web/src/domains/session.ts).                                       *)
(***************************************************************************)
EXTENDS Naturals, Sequences, SequencesExt

CONSTANT NoBody       \* an empty text

RunningReply(timeline) ==
  SelectLastInSeq(timeline, LAMBDA e : e.kind = "assistant" /\ e.state = "running")

Entry(n, kind, state, body) == [id |-> n, kind |-> kind, state |-> state, body |-> body]

(* upsertAssistantStreamEntry on one timeline, n the number of a new entry.*)
Upserted(timeline, n, body) ==
  LET i == RunningReply(timeline)
  IN IF i > 0
     THEN [timeline EXCEPT ![i].body = body]
     ELSE Append(timeline, Entry(n, "assistant", "running", body))

(* finalizeAssistantStreamEntry; without a text the entry keeps its own.   *)
Finalized(timeline, n, state, body) ==
  LET i == RunningReply(timeline)
  IN IF i > 0
     THEN [timeline EXCEPT ![i].state = state,
                           ![i].body = IF body = NoBody THEN @ ELSE body]
     ELSE IF body = NoBody THEN timeline
     ELSE Append(timeline, Entry(n, "assistant", state, body))

(* setThreadJobState on a session with a job and the status of its last    *)
(* run; without a status a job runs and no job keeps it.                   *)
JobState(x, job, status) ==
  [x EXCEPT !.job = job,
            !.last = IF status # "" THEN status ELSE IF job # "" THEN "running" ELSE @]
=============================================================================
