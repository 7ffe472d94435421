---------------------------- MODULE ProjectSync ----------------------------
(***************************************************************************)
(* What the browser makes of the lists it loads: the projects and sessions *)
(* the server has records of, or the sessions a discovery found on the     *)
(* hosts (src/web/src/features/session/project-sync.ts).                   *)
(*                                                                         *)
(* A place is <<host, path>>; a project is [id, place, sessions].  Titles, *)
(* host names and the time of the last update are left out: the sessions   *)
(* of a project come in the order of the answer.                           *)
(***************************************************************************)
EXTENDS Naturals, Sequences, FiniteSets, SequencesExt

CONSTANTS
  Hosts,          (* the hosts the browser knows, in order                  *)
  Home            (* the place of a host's workspace                        *)

NoID == <<"none", 0>>

Project(id, place, sessions) == [id |-> id, place |-> place, sessions |-> sessions]

At(projects, place) == SelectInSeq(projects, LAMBDA p : p.place = place)

(* ensureProjectBucket: one project per place, of hosts that are known; the*)
(* first id given for the place is its id.                                 *)
Ensured(projects, place, id) ==
  LET i == At(projects, place)
  IN IF ~Contains(Hosts, place[1]) THEN projects
     ELSE IF i = 0 THEN Append(projects, Project(id, place, <<>>))
     ELSE IF projects[i].id = NoID THEN [projects EXCEPT ![i].id = id]
     ELSE projects

(* A session belongs to the project of its record when that is listed,     *)
(* otherwise to the place of its record.                                   *)
PlaceOf(records, session) ==
  LET i == SelectInSeq(records, LAMBDA p : p.id = session.project /\ Contains(Hosts, p.place[1]))
  IN IF i > 0 THEN records[i].place ELSE session.place

WithSession(projects, place, id) ==
  LET i == At(projects, place)
  IN IF i = 0 \/ Contains(projects[i].sessions, id) THEN projects
     ELSE [projects EXCEPT ![i].sessions = Append(@, id)]

WithHomes(projects) ==
  FoldLeft(LAMBDA ps, h : IF \E i \in DOMAIN ps : ps[i].place[1] = h THEN ps
                          ELSE Ensured(ps, Home[h], NoID), projects, Hosts)

BuildProjectsFromRecords(records, sessions) ==
  LET listed == FoldLeft(LAMBDA ps, r : Ensured(ps, r.place, r.id), <<>>, records)
      Add(ps, s) == LET place == PlaceOf(records, s)
                    IN WithSession(Ensured(ps, place, NoID), place, s.id)
  IN WithHomes(FoldLeft(Add, listed, sessions))

(* buildDiscoveredProjects: targets are [host, sessions], what a host has  *)
(* answered; a session is [id, place], with the workspace of the host for  *)
(* one whose directory is not known.                                       *)
BuildDiscoveredProjects(targets) ==
  LET Ensure(ps, place) == IF At(ps, place) > 0 THEN ps ELSE Append(ps, Project(NoID, place, <<>>))
      Found(ps, s) == [Ensure(ps, s.place) EXCEPT
                         ![At(Ensure(ps, s.place), s.place)].sessions = Append(@, s.id)]
      OfTarget(ps, t) == IF t.sessions = <<>> THEN Ensure(ps, Home[t.host])
                         ELSE FoldLeft(Found, ps, t.sessions)
      found == FoldLeft(OfTarget, <<>>, targets)
  IN IF found # <<>> THEN found
     ELSE [i \in DOMAIN Hosts |-> Project(NoID, Home[Hosts[i]], <<>>)]
=============================================================================
