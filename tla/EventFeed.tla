----------------------------- MODULE EventFeed -----------------------------
(***************************************************************************)
(* What the session event API promises to a client: the events of a        *)
(* session are numbered 1, 2, 3, ... and every stream of that session      *)
(* shows them in that order, each exactly once, with no gap, whatever      *)
(* connections are lost, reset for backpressure or cut by a server restart *)
(* on the way (docs/codex-v2-session-contract.md, "Reliability             *)
(* Guarantees").  SessionStream implements it for the environments its     *)
(* runs name.                                                              *)
(***************************************************************************)
EXTENDS Naturals, Sequences

CONSTANTS
  Sessions,   (* session ids                                  *)
  Streams,    (* client streams, each watching one session    *)
  SessionOf   (* the session each stream watches              *)

VARIABLES
  top,        (* top[s]: the number of the newest event of s  *)
  seen        (* seen[c]: the numbers stream c has shown      *)

feedVars == <<top, seen>>

Init ==
  /\ top = [s \in Sessions |-> 0]
  /\ seen = [c \in Streams |-> <<>>]

Append1(s) ==
  /\ top' = [top EXCEPT ![s] = @ + 1]
  /\ UNCHANGED seen

Show(c) ==
  /\ Len(seen[c]) < top[SessionOf[c]]
  /\ seen' = [seen EXCEPT ![c] = Append(@, Len(@) + 1)]
  /\ UNCHANGED top

Next ==
  \/ \E s \in Sessions : Append1(s)
  \/ \E c \in Streams : Show(c)

Fairness == \A c \in Streams : WF_feedVars(Show(c))

Spec == Init /\ [][Next]_feedVars

FairSpec == Spec /\ Fairness
=============================================================================
