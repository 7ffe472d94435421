-------------------------- MODULE WebProjectProofs --------------------------
(***************************************************************************)
(* Proofs about what the web client shows of a project: its terminal       *)
(* (WebTerminal), where what is typed keeps its order and what is shown is *)
(* what the shell wrote; what git has staged in it, where its notes are    *)
(* shown and what of them the pane holds (WebReview); which lines it reads *)
(* of a run's output (RunOutput); and the hosts, projects and sessions     *)
(* that are administered in the browser (WebOps); for every set of         *)
(* projects and any number of frames, inputs, calls, notes, operations,    *)
(* handlers, lines and pieces.                                             *)
(***************************************************************************)
EXTENDS WebTerminal, FiniteSetTheorems, SequenceTheorems, WellFoundedInduction, TLAPS

Message == Projects \X Nat

(* A socket has its fields; which values the other fields have is of no    *)
(* account here.                                                           *)
IsSocket(s) == DOMAIN s = {"phase", "project", "gen", "ready", "upto", "sent", "queue"}

(* The messages of a list were typed in its order and by now.              *)
Typed(list) ==
  /\ list \in Seq(Message)
  /\ \A k \in DOMAIN list : list[k][2] <= typed
  /\ \A j, k \in DOMAIN list : j < k => list[j][2] < list[k][2]

(* What waits for the connection was typed after all that was heard, and   *)
(* nothing waits once it stands: this keeps input that is sent at once     *)
(* from overtaking input that was not.                                     *)
InputInv ==
  /\ typed \in Nat
  /\ project \in Projects
  /\ IsSocket(socket)
  /\ Typed(heard)
  /\ Typed(socket.queue)
  /\ socket.phase # "connecting" => socket.queue = <<>>
  /\ \A j \in DOMAIN heard, k \in DOMAIN socket.queue : heard[j][2] < socket.queue[k][2]

-----------------------------------------------------------------------------

LEMMA EmptyTyped == Typed(<<>>)
  BY DEF Typed

LEMMA NewSockets ==
  ASSUME NEW p, NEW after
  PROVE  /\ IsSocket(NoSocket) /\ NoSocket.queue = <<>>
         /\ IsSocket(NewSocket(p, after)) /\ NewSocket(p, after).queue = <<>>
  BY DEF IsSocket, NoSocket, NewSocket

(* A step that types nothing, sends nothing and lets nothing wait that did *)
(* not wait before.                                                        *)
LEMMA NothingTyped ==
  ASSUME InputInv, UNCHANGED <<heard, typed>>, project' \in Projects, IsSocket(socket'),
         \/ socket'.queue = <<>>
         \/ socket'.queue = socket.queue /\ socket'.phase = socket.phase
  PROVE  InputInv'
<1>1. CASE socket'.queue = <<>>
  <2>1. Typed(socket.queue)'
    BY <1>1, EmptyTyped DEF Typed
  <2> QED
    BY <1>1, <2>1 DEF InputInv, Typed
<1>2. CASE socket'.queue = socket.queue /\ socket'.phase = socket.phase
  <2>1. Typed(socket.queue)'
    BY <1>2 DEF InputInv, Typed
  <2> QED
    BY <1>2, <2>1 DEF InputInv, Typed
<1> QED
  BY <1>1, <1>2

(* Messages after messages: those of the second list were typed later.     *)
LEMMA TypedConcat ==
  ASSUME NEW a \in Seq(Message), NEW b \in Seq(Message), typed \in Nat, Typed(a), Typed(b),
         \A j \in DOMAIN a, k \in DOMAIN b : a[j][2] < b[k][2]
  PROVE  Typed(a \o b)
<1> DEFINE c == a \o b
<1>1. c \in Seq(Message) /\ Len(c) = Len(a) + Len(b)
  OBVIOUS
<1>2. \A k \in 1..Len(c) : c[k] = IF k <= Len(a) THEN a[k] ELSE b[k - Len(a)]
  OBVIOUS
<1>3. DOMAIN c = 1..Len(c) /\ DOMAIN a = 1..Len(a) /\ DOMAIN b = 1..Len(b)
  BY <1>1
<1>4. Len(a) \in Nat /\ Len(b) \in Nat
  OBVIOUS
<1> HIDE DEF c
<1>5. \A k \in DOMAIN c : c[k][2] <= typed
  <2> TAKE k \in DOMAIN c
  <2>1. CASE k <= Len(a)
    BY <1>1, <1>2, <1>3, <1>4, <2>1 DEF Typed
  <2>2. CASE k > Len(a)
    <3>1. k - Len(a) \in DOMAIN b
      BY <1>1, <1>3, <1>4, <2>2
    <3> QED
      BY <1>2, <1>3, <1>4, <2>2, <3>1 DEF Typed
  <2> QED
    BY <1>1, <1>3, <1>4, <2>1, <2>2
<1>6. ASSUME NEW j \in DOMAIN c, NEW k \in DOMAIN c, j < k
      PROVE  c[j][2] < c[k][2]
  <2>1. CASE k <= Len(a)
    BY <1>1, <1>2, <1>3, <1>4, <1>6, <2>1 DEF Typed
  <2>2. CASE k > Len(a)
    <3>1. k - Len(a) \in DOMAIN b
      BY <1>1, <1>3, <1>4, <2>2
    <3>2. CASE j <= Len(a)
      BY <1>1, <1>2, <1>3, <1>4, <2>2, <3>1, <3>2
    <3>3. CASE j > Len(a)
      <4>1. j - Len(a) \in DOMAIN b /\ j - Len(a) < k - Len(a)
        BY <1>1, <1>3, <1>4, <1>6, <3>3
      <4>2. c[j] = b[j - Len(a)] /\ c[k] = b[k - Len(a)]
        BY <1>2, <1>3, <1>4, <2>2, <3>3, SMTT(30)
      <4> QED
        BY <3>1, <4>1, <4>2 DEF Typed
    <3> QED
      BY <1>1, <1>3, <1>4, <3>2, <3>3
  <2> QED
    BY <1>1, <1>3, <1>4, <2>1, <2>2
<1> QED
  BY <1>1, <1>5, <1>6 DEF Typed, c

(* What is typed comes after every list of what was typed before.          *)
LEMMA TypedAppend ==
  ASSUME NEW a \in Seq(Message), NEW m \in Message, typed \in Nat, Typed(a),
         m[2] = typed + 1, typed' = typed + 1
  PROVE  /\ Append(a, m) \in Seq(Message)
         /\ \A k \in DOMAIN Append(a, m) : Append(a, m)[k][2] <= typed'
         /\ \A j, k \in DOMAIN Append(a, m) : j < k => Append(a, m)[j][2] < Append(a, m)[k][2]
<1> DEFINE c == Append(a, m)
<1>1. c \in Seq(Message) /\ DOMAIN c = 1..(Len(a) + 1) /\ DOMAIN a = 1..Len(a)
  OBVIOUS
<1>2. /\ \A k \in DOMAIN a : c[k] = a[k]
      /\ c[Len(a) + 1] = m
  OBVIOUS
<1>3. Len(a) \in Nat /\ \A k \in DOMAIN a : a[k][2] \in Nat
  BY DEF Message
<1> HIDE DEF c
<1>4. \A k \in DOMAIN c : c[k][2] <= typed'
  BY <1>1, <1>2, <1>3 DEF Typed
<1>5. \A j, k \in DOMAIN c : j < k => c[j][2] < c[k][2]
  BY <1>1, <1>2, <1>3 DEF Typed
<1> QED
  BY <1>1, <1>4, <1>5 DEF c

LEMMA SendInputStep ==
  ASSUME InputInv, SendInput
  PROVE  InputInv'
<1>1. PICK m : m = <<project, typed + 1>>
  OBVIOUS
<1>2. m \in Message /\ m[2] = typed + 1 /\ typed' = typed + 1 /\ project' = project
  BY <1>1 DEF InputInv, SendInput, Message
<1>3. typed \in Nat /\ heard \in Seq(Message) /\ socket.queue \in Seq(Message)
  BY DEF InputInv, Typed
<1>4. /\ \A k \in DOMAIN heard : heard[k][2] \in Nat
      /\ \A k \in DOMAIN socket.queue : socket.queue[k][2] \in Nat
  BY <1>3 DEF Message
<1>5. CASE socket.phase = "connecting"
  <2>1. heard' = heard /\ socket'.queue = Append(socket.queue, m) /\ IsSocket(socket')
        /\ socket'.phase = "connecting"
    BY <1>1, <1>5 DEF SendInput, InputInv, IsSocket
  <2>2. Typed(socket.queue)'
    BY <1>2, <1>3, <2>1, TypedAppend DEF InputInv, Typed
  <2>3. Typed(heard)'
    BY <1>2, <1>3, <1>4, <2>1 DEF InputInv, Typed
  <2>4. \A j \in DOMAIN heard, k \in DOMAIN Append(socket.queue, m) :
          heard[j][2] < Append(socket.queue, m)[k][2]
    <3> TAKE j \in DOMAIN heard, k \in DOMAIN Append(socket.queue, m)
    <3>1. CASE k \in DOMAIN socket.queue
      BY <1>3, <3>1 DEF InputInv
    <3>2. CASE k = Len(socket.queue) + 1
      <4>1. heard[j][2] <= typed
        BY DEF InputInv, Typed
      <4>2. Append(socket.queue, m)[k] = m
        BY <1>2, <1>3, <3>2
      <4> QED
        BY <1>2, <1>3, <1>4, <4>1, <4>2
    <3> QED
      BY <1>3, <3>1, <3>2
  <2> QED
    BY <1>2, <1>3, <2>1, <2>2, <2>3, <2>4 DEF InputInv
<1>6. CASE socket.phase = "open"
  <2>1. heard' = Append(heard, m) /\ socket' = socket /\ socket.queue = <<>>
    BY <1>1, <1>6 DEF SendInput, InputInv
  <2>2. Typed(heard)'
    BY <1>2, <1>3, <2>1, TypedAppend DEF InputInv, Typed
  <2>3. Typed(socket.queue)'
    BY <2>1, EmptyTyped DEF Typed
  <2> QED
    BY <1>2, <1>3, <2>1, <2>2, <2>3 DEF InputInv
<1>7. CASE socket.phase \notin {"connecting", "open"}
  <2>1. heard' = heard /\ socket' = socket
    BY <1>7 DEF SendInput
  <2>2. Typed(heard)' /\ Typed(socket.queue)'
    BY <1>2, <1>3, <1>4, <2>1 DEF InputInv, Typed
  <2> QED
    BY <1>2, <1>3, <2>1, <2>2 DEF InputInv
<1> QED
  BY <1>5, <1>6, <1>7

LEMMA InputStep ==
  ASSUME InputInv, [Next]_vars
  PROVE  InputInv'
<1>1. CASE Open
  BY <1>1, NothingTyped, NewSockets DEF Open, server, InputInv
<1>2. ASSUME NEW p \in Projects, SwitchProject(p)
      PROVE  InputInv'
  BY <1>2, NothingTyped, NewSockets DEF SwitchProject, server, InputInv
<1>3. CASE Reconnect
  BY <1>3, NothingTyped, NewSockets DEF Reconnect, server, InputInv
<1>4. CASE SocketFails
  BY <1>4, NothingTyped DEF SocketFails, server, InputInv, IsSocket
<1>5. CASE SocketCloses
  BY <1>5, NothingTyped DEF SocketCloses, server, InputInv, IsSocket
<1>6. CASE Frame
  BY <1>6, NothingTyped DEF Frame, server, InputInv, IsSocket
<1>7. CASE Ready
  BY <1>7, NothingTyped DEF Ready, server, InputInv, IsSocket
<1>8. CASE Connected
  <2>1. Typed(heard \o socket.queue)
    BY TypedConcat DEF InputInv, Typed
  <2>2. IsSocket(socket') /\ socket'.queue = <<>>
    BY <1>8 DEF Connected, InputInv, IsSocket
  <2>3. heard' = heard \o socket.queue /\ typed' = typed /\ project' = project
    BY <1>8 DEF Connected, Flushed
  <2> QED
    BY <2>1, <2>2, <2>3, EmptyTyped DEF InputInv, Typed
<1>9. CASE SendInput
  BY <1>9, SendInputStep
<1>10. CASE Load \/ OldSocketFails \/ Clear \/ UNCHANGED vars
  BY <1>10, NothingTyped DEF Load, OldSocketFails, Clear, server, vars, InputInv
<1>11. ASSUME NEW p \in Projects, Emit(p)
       PROVE  InputInv'
  BY <1>11, NothingTyped DEF Emit, InputInv
<1> QED
  BY <1>1, <1>2, <1>3, <1>4, <1>5, <1>6, <1>7, <1>8, <1>9, <1>10, <1>11 DEF Next

(* Whatever connects, fails and is reopened while the user types: the      *)
(* shells hear what was typed in its order and each piece once (sendInput  *)
(* and the queue of openProjectTerminalSocket).                            *)
THEOREM InputKeepsOrder == Spec => []InputOrdered
<1>1. Init => InputInv
  BY EmptyTyped, NewSockets DEF Init, InputInv
<1>2. InputInv /\ [Next]_vars => InputInv'
  BY InputStep
<1>3. InputInv => InputOrdered
  BY DEF InputInv, Typed, InputOrdered
<1> QED
  BY <1>1, <1>2, <1>3, PTL DEF Spec

-----------------------------------------------------------------------------
(* What is shown.                                                          *)

Frames == Projects \X Nat \X Nat

ShellType == [gen : Nat, n : Nat, over : BOOLEAN]

(* The frames of a shell after one and up to another.                      *)
Between(p, g, b, m) == [k \in 1..(IF m > b THEN m - b ELSE 0) |-> <<p, g, b + k>>]

(* The last frame with output that was received.                           *)
LastOutput ==
  IF cursor > 0 /\ IsExit(project, shells[project].gen, cursor) THEN cursor - 1 ELSE cursor

ShownTyped ==
  /\ shells \in [Projects -> ShellType]
  /\ project \in Projects
  /\ cursor \in Nat /\ base \in Nat /\ base <= cursor
  /\ output \in Seq(Frames)
  /\ DOMAIN socket = {"phase", "project", "gen", "ready", "upto", "sent", "queue"}
  /\ socket.gen \in Nat /\ socket.upto \in Nat /\ socket.sent \in Nat

(* The socket in use is one for the project that is shown, asks for what   *)
(* comes after the cursor, and belongs to the shell that the project has.  *)
SocketCurrent ==
  /\ socket.phase \in {"connecting", "open"} => socket.project = project /\ socket.sent = cursor
  /\ socket.phase = "open" =>
       socket.gen = shells[project].gen /\ socket.upto <= shells[project].n

(* While no frame was skipped, the output is all there was and no frame is *)
(* known that the shell does not have.                                     *)
OutputWhole ==
  same => /\ cursor <= shells[project].n
          /\ output = Between(project, shells[project].gen, base, LastOutput)

OutputInv == ShownTyped /\ SocketCurrent /\ OutputWhole

(* What the surface has drawn of an output.                                *)
Draws(s, out) ==
  /\ s \in [mounted : BOOLEAN, loaded : BOOLEAN, fresh : BOOLEAN, written : Nat,
            screen : Seq(Frames)]
  /\ s.fresh => s.loaded
  /\ s.written = IF s.fresh THEN Len(out) ELSE 0
  /\ s.screen = IF s.fresh THEN out ELSE <<>>

ShownInv == OutputInv /\ Draws(surface, output)

-----------------------------------------------------------------------------

LEMMA Appended ==
  ASSUME NEW p, NEW g, NEW b \in Nat, NEW m \in Nat, b <= m
  PROVE  Append(Between(p, g, b, m), <<p, g, m + 1>>) = Between(p, g, b, m + 1)
<1>1. PICK d \in Nat : d = m - b
  <2>1. m - b \in Nat
    OBVIOUS
  <2> QED
    BY <2>1
<1>2. m = b + d /\ (m > b <=> d > 0) /\ m + 1 > b /\ m + 1 - b = d + 1
  BY <1>1
<1>3. Between(p, g, b, m) = [k \in 1..d |-> <<p, g, b + k>>]
  <2>1. (IF m > b THEN m - b ELSE 0) = d
    BY <1>1, <1>2
  <2> QED
    BY <2>1 DEF Between
<1>4. Between(p, g, b, m + 1) = [k \in 1..(d + 1) |-> <<p, g, b + k>>]
  <2>1. (IF m + 1 > b THEN m + 1 - b ELSE 0) = d + 1
    BY <1>1, <1>2
  <2> QED
    BY <2>1 DEF Between
<1>5. Append([k \in 1..d |-> <<p, g, b + k>>], <<p, g, b + (d + 1)>>)
        = [k \in 1..(d + 1) |-> <<p, g, b + k>>]
  <2>1. PICK s : s = [k \in 1..d |-> <<p, g, b + k>>]
    OBVIOUS
  <2>2. PICK x : x = <<p, g, b + (d + 1)>>
    OBVIOUS
  <2>3. PICK T : T = {s[k] : k \in 1..d} \cup {x}
    OBVIOUS
  <2>4. s \in Seq(T) /\ Len(s) = d /\ x \in T
    <3>1. s \in [1..d -> T]
      BY <2>1, <2>3
    <3> QED
      BY <2>3, <3>1
  <2>5. PICK r : r = Append(s, x)
    OBVIOUS
  <2>6. r \in Seq(T) /\ Len(r) = d + 1 /\ (\A k \in 1..d : r[k] = s[k]) /\ r[d + 1] = x
    BY <2>4, <2>5, AppendProperties
  <2>7. DOMAIN r = 1..(d + 1)
    BY <2>6
  <2>8. \A k \in 1..(d + 1) : r[k] = <<p, g, b + k>>
    <3> TAKE k \in 1..(d + 1)
    <3>1. CASE k \in 1..d
      BY <2>1, <2>6, <3>1
    <3>2. CASE k = d + 1
      BY <2>2, <2>6, <3>2
    <3> QED
      BY <3>1, <3>2
  <2>9. r = [k \in 1..(d + 1) |-> r[k]]
    BY <2>6, <2>7
  <2> QED
    BY <2>1, <2>2, <2>5, <2>8, <2>9
<1>6. m + 1 = b + (d + 1)
  BY <1>2
<1>7. <<p, g, m + 1>> = <<p, g, b + (d + 1)>>
  BY <1>6, Zenon
<1> QED
  BY <1>3, <1>4, <1>5, <1>7, Zenon

LEMMA NothingBetween ==
  ASSUME NEW p, NEW g, NEW b \in Nat, NEW m \in Nat, m <= b
  PROVE  Between(p, g, b, m) = <<>>
<1>1. ~(m > b)
  OBVIOUS
<1>2. Between(p, g, b, m) = [k \in 1..0 |-> <<p, g, b + k>>]
  BY <1>1 DEF Between
<1> QED
  BY <1>2

(* The surface writes what has come since, or all anew.                    *)
LEMMA WrittenDraws ==
  ASSUME NEW s, NEW before \in Seq(Frames), NEW out \in Seq(Frames), Draws(s, before), s.loaded,
         out = <<>> \/ \E f \in Frames : out = Append(before, f)
  PROVE  Draws(Written(s, out), out)
<1>1. Len(out) \in Nat /\ Len(before) \in Nat
  OBVIOUS
<1>2. CASE Len(out) < s.written
  <2>1. s.fresh /\ Len(out) < Len(before)
    BY <1>1, <1>2 DEF Draws
  <2>2. out = <<>>
    <3>1. ASSUME NEW f \in Frames, out = Append(before, f) PROVE FALSE
      <4>1. Len(out) = Len(before) + 1
        BY <3>1, AppendProperties
      <4> QED
        BY <1>1, <2>1, <4>1
    <3> QED
      BY <3>1
  <2>3. PICK t : t = [s EXCEPT !.screen = <<>>, !.written = 0]
    OBVIOUS
  <2>4. t \in [mounted : BOOLEAN, loaded : BOOLEAN, fresh : BOOLEAN, written : Nat,
               screen : Seq(Frames)] /\ t.screen = <<>> /\ t.written = 0 /\ t.loaded
    <3>1. <<>> \in Seq(Frames)
      OBVIOUS
    <3>2. t = [mounted |-> s.mounted, loaded |-> s.loaded, fresh |-> s.fresh, written |-> 0,
               screen |-> <<>>]
      BY <2>3 DEF Draws
    <3> QED
      BY <3>1, <3>2 DEF Draws
  <2>5. t.screen \o SubSeq(out, t.written + 1, Len(out)) = <<>>
    <3>1. SubSeq(<<>>, 1, 0) = <<>>
      BY SubSeqEmpty
    <3>2. Len(<<>>) = 0 /\ <<>> \o <<>> = <<>> /\ 0 + 1 = 1
      OBVIOUS
    <3> QED
      BY <2>2, <2>4, <3>1, <3>2
  <2>6. Written(s, out) = [t EXCEPT !.screen = <<>>, !.written = 0, !.fresh = TRUE]
    BY <1>2, <2>2, <2>3, <2>4, <2>5 DEF Written
  <2>7. Written(s, out) = [mounted |-> t.mounted, loaded |-> t.loaded, fresh |-> TRUE, written |-> 0,
                           screen |-> <<>>]
    BY <2>4, <2>6
  <2>8. <<>> \in Seq(Frames) /\ Len(<<>>) = 0
    OBVIOUS
  <2> QED
    <3>1. Written(s, out) \in [mounted : BOOLEAN, loaded : BOOLEAN, fresh : BOOLEAN,
                               written : Nat, screen : Seq(Frames)]
      BY <2>4, <2>7, <2>8
    <3>2. /\ Written(s, out).fresh /\ Written(s, out).loaded = t.loaded
          /\ Written(s, out).written = 0 /\ Written(s, out).screen = <<>>
      BY <2>7
    <3> QED
      BY <2>2, <2>4, <2>8, <3>1, <3>2 DEF Draws
<1>3. CASE ~(Len(out) < s.written)
  <2>1. Written(s, out) = [s EXCEPT !.screen = s.screen \o SubSeq(out, s.written + 1, Len(out)),
                                    !.written = Len(out), !.fresh = TRUE]
    BY <1>3 DEF Written
  <2>2. s.screen \o SubSeq(out, s.written + 1, Len(out)) = out
    <3>1. CASE ~s.fresh
      <4>1. s.screen = <<>> /\ s.written = 0
        BY <3>1 DEF Draws
      <4>2. SubSeq(out, 1, Len(out)) = out
        BY SubSeqFull
      <4>3. <<>> \o out = out
        BY ConcatEmptySeq
      <4> QED
        <5>1. s.written + 1 = 1
          BY <4>1
        <5> QED
          BY <4>1, <4>2, <4>3, <5>1
    <3>2. CASE s.fresh /\ out = <<>>
      <4>1. s.written = Len(before) /\ s.screen = before
        BY <3>2 DEF Draws
      <4>2. Len(before) = 0
        BY <1>1, <1>3, <3>2, <4>1
      <4>3. before = <<>>
        BY <4>2, EmptySeq
      <4>4. SubSeq(<<>>, 1, 0) = <<>> /\ <<>> \o <<>> = <<>> /\ 0 + 1 = 1 /\ Len(<<>>) = 0
        BY SubSeqEmpty
      <4> QED
        BY <3>2, <4>1, <4>2, <4>3, <4>4
    <3>3. CASE s.fresh /\ out # <<>>
      <4>1. PICK f \in Frames : out = Append(before, f)
        BY <3>3
      <4>2. s.written = Len(before) /\ s.screen = before
        BY <3>3 DEF Draws
      <4>3. Len(out) = Len(before) + 1 /\ out[Len(out)] = f
        BY <4>1, AppendProperties
      <4>4. SubSeq(out, Len(out), Len(out)) = <<f>>
        <5>1. Len(out) \in 1..Len(out)
          BY <1>1, <4>3
        <5>2. SubSeq(out, Len(out), Len(out)) = <<out[Len(out)]>> \o SubSeq(out, Len(out) + 1, Len(out))
          BY <5>1, SubSeqRecursiveFirst
        <5>3. SubSeq(out, Len(out) + 1, Len(out)) = <<>>
          <6>1. Len(out) + 1 \in Int /\ Len(out) \in Int /\ Len(out) < Len(out) + 1
            BY <1>1
          <6> QED
            BY <6>1, SubSeqEmpty
        <5>4. <<f>> \in Seq(Frames)
          OBVIOUS
        <5>5. <<f>> \o <<>> = <<f>>
          BY <5>4, ConcatEmptySeq
        <5> QED
          BY <4>3, <5>2, <5>3, <5>5
      <4>5. out = before \o <<f>>
        BY <4>1, AppendIsConcat
      <4> QED
        BY <4>2, <4>3, <4>4, <4>5
    <3> QED
      BY <3>1, <3>2, <3>3
  <2>3. Written(s, out) = [s EXCEPT !.screen = out, !.written = Len(out), !.fresh = TRUE]
    BY <2>1, <2>2
  <2>4. Written(s, out) = [mounted |-> s.mounted, loaded |-> s.loaded, fresh |-> TRUE,
                           written |-> Len(out), screen |-> out]
    BY <2>3 DEF Draws
  <2> QED
    BY <1>1, <2>4 DEF Draws
<1> QED
  BY <1>2, <1>3

LEMMA DrawnDraws ==
  ASSUME NEW s, NEW shows \in BOOLEAN, NEW before \in Seq(Frames), NEW out \in Seq(Frames),
         Draws(s, before), out = before \/ out = <<>> \/ \E f \in Frames : out = Append(before, f)
  PROVE  Draws(Drawn(s, shows, before, out), out)
<1>1. CASE ~shows
  <2>1. <<>> \in Seq(Frames)
    OBVIOUS
  <2>2. Drawn(s, shows, before, out) = NoSurface
    BY <1>1 DEF Drawn
  <2> QED
    BY <2>1, <2>2 DEF NoSurface, Draws
<1>2. CASE shows /\ s.loaded /\ out # before
  <2>1. Draws(Written(s, out), out)
    BY <1>2, WrittenDraws
  <2> QED
    BY <1>2, <2>1 DEF Drawn
<1>3. CASE shows /\ ~(s.loaded /\ out # before)
  <2>1. PICK t : t = [s EXCEPT !.mounted = TRUE]
    OBVIOUS
  <2>2. t = [mounted |-> TRUE, loaded |-> s.loaded, fresh |-> s.fresh, written |-> s.written,
             screen |-> s.screen]
    BY <2>1 DEF Draws
  <2>3. ~s.loaded => ~s.fresh
    BY DEF Draws
  <2>4. Draws(t, out)
    BY <1>3, <2>2, <2>3 DEF Draws
  <2> QED
    BY <1>3, <2>1, <2>4 DEF Drawn
<1> QED
  BY <1>1, <1>2, <1>3

(* A step that renders what changes of the output.                         *)
LEMMA RenderDraws ==
  ASSUME ShownInv, Render, output' \in Seq(Frames),
         output' = output \/ output' = <<>> \/ \E f \in Frames : output' = Append(output, f)
  PROVE  Draws(surface', output')
<1>1. PICK shows \in BOOLEAN : shows = ShowsShell(enabled', status', terminal')
  <2>1. ShowsShell(enabled', status', terminal') \in BOOLEAN
    BY DEF ShowsShell
  <2> QED
    BY <2>1
<1>2. surface' = Drawn(surface, shows, output, output')
  BY <1>1 DEF Render
<1>3. Draws(surface, output) /\ output \in Seq(Frames)
  BY DEF ShownInv, OutputInv, ShownTyped
<1>4. Draws(Drawn(surface, shows, output, output'), output')
  BY <1>3, DrawnDraws
<1> QED
  BY <1>2, <1>4

LEMMA SocketsMade ==
  ASSUME NEW p, NEW after \in Nat
  PROVE  /\ DOMAIN NoSocket = {"phase", "project", "gen", "ready", "upto", "sent", "queue"}
         /\ NoSocket.phase = "none" /\ NoSocket.gen = 0 /\ NoSocket.upto = 0 /\ NoSocket.sent = 0
         /\ DOMAIN NewSocket(p, after) = {"phase", "project", "gen", "ready", "upto", "sent", "queue"}
         /\ NewSocket(p, after).phase = "connecting" /\ NewSocket(p, after).project = p
         /\ NewSocket(p, after).gen = 0 /\ NewSocket(p, after).upto = 0
         /\ NewSocket(p, after).sent = after
  BY DEF NoSocket, NewSocket

(* Neither the shells nor what was received changes.                       *)
LEMMA OutputLeft ==
  ASSUME OutputInv, UNCHANGED <<shells, project, output, cursor, base, same>>,
         DOMAIN socket' = {"phase", "project", "gen", "ready", "upto", "sent", "queue"},
         socket'.gen \in Nat, socket'.upto \in Nat, socket'.sent \in Nat, SocketCurrent'
  PROVE  OutputInv'
BY DEF OutputInv, ShownTyped, OutputWhole, LastOutput, IsExit

LEMMA SocketLeft ==
  ASSUME OutputInv, UNCHANGED <<shells, project, output, cursor, base, same>>,
         DOMAIN socket' = {"phase", "project", "gen", "ready", "upto", "sent", "queue"},
         UNCHANGED <<socket.gen, socket.upto, socket.sent, socket.project>>,
         socket'.phase \in {socket.phase, "closed"}
  PROVE  OutputInv'
<1>1. SocketCurrent'
  BY DEF OutputInv, SocketCurrent
<1> QED
  BY <1>1, OutputLeft DEF OutputInv, ShownTyped

LEMMA UserShows ==
  ASSUME ShownInv,
         Open \/ Reconnect \/ Clear \/ OldSocketFails \/ SocketFails \/ SocketCloses
  PROVE  ShownInv'
<1> USE DEF server, drawn
<1>0. cursor \in Nat /\ output \in Seq(Frames) /\ <<>> \in Seq(Frames)
  BY DEF ShownInv, OutputInv, ShownTyped
<1>1. CASE Open \/ Reconnect
  <2>1. /\ UNCHANGED <<shells, project, output, cursor, base, same>> /\ Render
        /\ socket' \in {NoSocket, NewSocket(project, cursor)}
    BY <1>1 DEF Open, Reconnect
  <2>2. SocketCurrent'
    <3>1. CASE socket' = NoSocket
      <4>1. socket'.phase = "none"
        BY <1>0, <3>1, SocketsMade
      <4> QED
        BY <4>1 DEF SocketCurrent
    <3>2. CASE socket' = NewSocket(project, cursor)
      <4>1. socket'.phase = "connecting" /\ socket'.project = project /\ socket'.sent = cursor
        BY <1>0, <3>2, SocketsMade
      <4> QED
        BY <2>1, <4>1 DEF SocketCurrent
    <3> QED
      BY <2>1, <3>1, <3>2
  <2>3. OutputInv'
    BY <1>0, <2>1, <2>2, SocketsMade, OutputLeft DEF ShownInv
  <2> QED
    BY <1>0, <2>1, <2>3, RenderDraws DEF ShownInv
<1>2. CASE Clear
  <2>1. /\ UNCHANGED <<shells, project, cursor, socket, same>> /\ Render
        /\ output' = <<>> /\ base' = cursor
    BY <1>2 DEF Clear
  <2>2. ShownTyped' /\ SocketCurrent'
    BY <1>0, <2>1 DEF ShownInv, OutputInv, ShownTyped, SocketCurrent
  <2>3. OutputWhole'
    <3>1. LastOutput' \in Nat /\ LastOutput' <= base'
      <4>1. cursor > 0 => cursor - 1 \in Nat /\ cursor - 1 <= cursor
        BY <1>0
      <4> QED
        BY <1>0, <2>1, <4>1 DEF LastOutput
    <3>2. Between(project', shells'[project'].gen, base', LastOutput') = <<>>
      BY <1>0, <2>1, <3>1, NothingBetween
    <3> QED
      BY <2>1, <3>2 DEF ShownInv, OutputInv, OutputWhole
  <2>4. Draws(surface', output')
    BY <1>0, <2>1, RenderDraws
  <2> QED
    BY <2>2, <2>3, <2>4 DEF ShownInv, OutputInv
<1>3. CASE OldSocketFails \/ SocketFails \/ SocketCloses
  <2>1. UNCHANGED <<shells, project, output, cursor, base, same>> /\ Render
    BY <1>3 DEF OldSocketFails, SocketFails, SocketCloses
  <2>2. /\ DOMAIN socket' = {"phase", "project", "gen", "ready", "upto", "sent", "queue"}
        /\ UNCHANGED <<socket.gen, socket.upto, socket.sent, socket.project>>
        /\ socket'.phase \in {socket.phase, "closed"}
    <3>1. DOMAIN socket = {"phase", "project", "gen", "ready", "upto", "sent", "queue"}
      BY DEF ShownInv, OutputInv, ShownTyped
    <3> QED
      BY <1>3, <3>1 DEF OldSocketFails, SocketFails, SocketCloses
  <2>3. OutputInv'
    BY <2>1, <2>2, SocketLeft DEF ShownInv
  <2> QED
    BY <1>0, <2>1, <2>3, RenderDraws DEF ShownInv
<1> QED
  BY <1>1, <1>2, <1>3

LEMMA OthersShow ==
  ASSUME ShownInv, Load \/ SendInput
  PROVE  ShownInv'
<1> USE DEF server, drawn
<1>1. CASE Load
  <2>1. UNCHANGED <<shells, project, output, cursor, base, same, socket>>
        /\ surface' = [surface EXCEPT !.loaded = TRUE]
    BY <1>1 DEF Load
  <2>2. OutputInv'
    BY <2>1, SocketLeft DEF ShownInv, OutputInv, ShownTyped
  <2>3. surface' = [mounted |-> surface.mounted, loaded |-> TRUE, fresh |-> surface.fresh,
                    written |-> surface.written, screen |-> surface.screen]
    BY <2>1 DEF ShownInv, Draws
  <2>4. Draws(surface', output')
    BY <2>1, <2>3 DEF ShownInv, Draws
  <2> QED
    BY <2>2, <2>4 DEF ShownInv
<1>2. CASE SendInput
  <2>1. UNCHANGED <<shells, project, output, cursor, base, same, surface>>
    BY <1>2 DEF SendInput
  <2>2. /\ DOMAIN socket' = {"phase", "project", "gen", "ready", "upto", "sent", "queue"}
        /\ UNCHANGED <<socket.gen, socket.upto, socket.sent, socket.project>>
        /\ socket'.phase \in {socket.phase, "closed"}
    <3>1. DOMAIN socket = {"phase", "project", "gen", "ready", "upto", "sent", "queue"}
      BY DEF ShownInv, OutputInv, ShownTyped
    <3> QED
      BY <1>2, <3>1 DEF SendInput
  <2>3. OutputInv'
    BY <2>1, <2>2, SocketLeft DEF ShownInv
  <2> QED
    BY <2>1, <2>3 DEF ShownInv
<1> QED
  BY <1>1, <1>2

LEMMA SwitchShows ==
  ASSUME ShownInv, NEW p \in Projects, SwitchProject(p)
  PROVE  ShownInv'
<1>0. shells[p] \in ShellType /\ <<>> \in Seq(Frames)
  BY DEF ShownInv, OutputInv, ShownTyped
<1>1. /\ project' = p /\ cursor' = 0 /\ base' = 0 /\ output' = <<>> /\ Render
      /\ socket' \in {NoSocket, NewSocket(p, 0)}
      /\ UNCHANGED <<shells, same>>
  BY DEF SwitchProject, NextCursor, server
<1>2. ShownTyped' /\ SocketCurrent'
  BY <1>0, <1>1, SocketsMade, SMTT(30) DEF ShownInv, OutputInv, ShownTyped, SocketCurrent
<1>3. OutputWhole'
  <2>1. LastOutput' = 0
    BY <1>1 DEF LastOutput
  <2>2. Between(p, shells[p].gen, 0, 0) = <<>>
    BY NothingBetween
  <2>3. 0 <= shells[p].n
    BY <1>0 DEF ShellType
  <2> QED
    BY <1>1, <2>1, <2>2, <2>3 DEF OutputWhole
<1>4. Draws(surface', output')
  BY <1>0, <1>1, RenderDraws
<1> QED
  BY <1>2, <1>3, <1>4 DEF ShownInv, OutputInv

LEMMA EmitShows ==
  ASSUME ShownInv, NEW p \in Projects, Emit(p)
  PROVE  ShownInv'
<1>1. /\ ~shells[p].over
      /\ UNCHANGED <<project, output, cursor, base, same, socket, surface>>
  BY DEF Emit, drawn
<1>2. PICK over \in BOOLEAN :
        shells' = [shells EXCEPT ![p] = [shells[p] EXCEPT !.n = shells[p].n + 1, !.over = over]]
  BY DEF Emit
<1>3. shells \in [Projects -> ShellType] /\ project \in Projects /\ cursor \in Nat
  BY DEF ShownInv, OutputInv, ShownTyped
<1>4. PICK s : s = [shells[p] EXCEPT !.n = shells[p].n + 1, !.over = over]
  OBVIOUS
<1>5. shells[p] \in ShellType
  BY <1>3
<1>6. /\ s \in ShellType /\ s.gen = shells[p].gen /\ s.n = shells[p].n + 1
      /\ shells' = [shells EXCEPT ![p] = s]
  <2>1. PICK x \in ShellType : x = shells[p]
    BY <1>5
  <2>2. s = [x EXCEPT !.n = x.n + 1, !.over = over]
    BY <1>4, <2>1
  <2>3. x.n + 1 \in Nat
    BY DEF ShellType
  <2>4. s \in ShellType /\ s.gen = x.gen /\ s.n = x.n + 1
    BY <2>2, <2>3 DEF ShellType
  <2>5. shells' = [shells EXCEPT ![p] = s]
    BY <1>2, <1>4, Zenon
  <2> QED
    BY <2>1, <2>4, <2>5
<1>7. shells' \in [Projects -> ShellType]
  BY <1>3, <1>6
<1>8. /\ shells'[project].gen = shells[project].gen
      /\ shells[project].n \in Nat /\ shells'[project].n \in Nat
      /\ shells[project].n <= shells'[project].n
  <2>1. CASE project = p
    BY <1>3, <1>4, <1>5, <1>6, <2>1 DEF ShellType
  <2>2. CASE project # p
    BY <1>3, <1>6, <2>2 DEF ShellType
  <2> QED
    BY <2>1, <2>2
<1>9. ShownTyped'
  BY <1>1, <1>7 DEF ShownInv, OutputInv, ShownTyped
<1>10. SocketCurrent'
  <2>1. socket.upto \in Nat
    BY DEF ShownInv, OutputInv, ShownTyped
  <2> QED
    BY <1>1, <1>8, <2>1 DEF ShownInv, OutputInv, SocketCurrent
<1>11. OutputWhole'
  <2> SUFFICES ASSUME same PROVE cursor <= shells'[project].n /\ output = Between(project, shells'[project].gen, base, LastOutput')
    BY <1>1 DEF OutputWhole
  <2>1. cursor <= shells[project].n /\ output = Between(project, shells[project].gen, base, LastOutput)
    BY DEF ShownInv, OutputInv, OutputWhole
  <2>2. LastOutput' = LastOutput
    <3>1. CASE project = p
      <4>1. shells'[project].n = shells[project].n + 1
        BY <1>3, <1>4, <1>6, <3>1
      <4>2. cursor # shells'[project].n
        BY <1>3, <1>8, <2>1, <4>1
      <4> QED
        BY <1>1, <3>1, <4>2 DEF LastOutput, IsExit
    <3>2. CASE project # p
      BY <1>1, <1>3, <1>6, <3>2 DEF LastOutput, IsExit
    <3> QED
      BY <3>1, <3>2
  <2> QED
    BY <1>3, <1>8, <2>1, <2>2
<1> QED
  BY <1>1, <1>9, <1>10, <1>11 DEF ShownInv, OutputInv

LEMMA ConnectedShows ==
  ASSUME ShownInv, Connected
  PROVE  ShownInv'
<1> DEFINE s == shells[project]
           fresh == s.gen = 0 \/ s.over
<1>0. /\ shells \in [Projects -> ShellType] /\ project \in Projects /\ cursor \in Nat
      /\ base \in Nat /\ base <= cursor
      /\ socket.phase = "connecting" /\ socket.project = project /\ socket.sent = cursor
  BY DEF ShownInv, OutputInv, ShownTyped, SocketCurrent, Connected
<1>1. s \in ShellType
  BY <1>0
<1>2. PICK shell \in ShellType :
        shell = IF fresh THEN [gen |-> s.gen + 1, n |-> 0, over |-> FALSE] ELSE s
  <2>1. (IF fresh THEN [gen |-> s.gen + 1, n |-> 0, over |-> FALSE] ELSE s) \in ShellType
    BY <1>1 DEF ShellType
  <2> QED
    BY <2>1
<1>3. /\ shells' = [shells EXCEPT ![project] = shell]
      /\ socket' = [socket EXCEPT !.phase = "open", !.gen = shell.gen, !.upto = shell.n,
                                  !.queue = <<>>]
      /\ same' = (same /\ (fresh => socket.sent = 0)
                       /\ \A k \in DOMAIN output : output[k][2] = shell.gen)
      /\ UNCHANGED <<project, output, cursor, base, surface>>
  BY <1>0, <1>2 DEF Connected, drawn
<1>4. shells' \in [Projects -> ShellType] /\ shells'[project] = shell
      /\ shell.n \in Nat /\ shell.gen \in Nat
  BY <1>0, <1>3 DEF ShellType
<1>5. /\ DOMAIN socket' = {"phase", "project", "gen", "ready", "upto", "sent", "queue"}
      /\ socket'.phase = "open" /\ socket'.gen = shell.gen /\ socket'.upto = shell.n
      /\ socket'.sent = socket.sent /\ socket'.project = socket.project
  <2>1. DOMAIN socket = {"phase", "project", "gen", "ready", "upto", "sent", "queue"}
    BY DEF ShownInv, OutputInv, ShownTyped
  <2> QED
    BY <1>3, <2>1
<1>6. ShownTyped'
  BY <1>0, <1>3, <1>4, <1>5 DEF ShownInv, OutputInv, ShownTyped
<1>7. SocketCurrent'
  BY <1>0, <1>3, <1>4, <1>5 DEF SocketCurrent
<1>8. OutputWhole'
  <2> SUFFICES ASSUME same' PROVE cursor <= shell.n /\ output = Between(project, shell.gen, base, LastOutput')
    BY <1>3, <1>4 DEF OutputWhole
  <2>1. same /\ (fresh => cursor = 0) /\ \A k \in DOMAIN output : output[k][2] = shell.gen
    BY <1>0, <1>3
  <2>2. cursor <= s.n /\ output = Between(project, s.gen, base, LastOutput)
    BY <2>1 DEF ShownInv, OutputInv, OutputWhole
  <2>3. CASE fresh
    <3>1. cursor = 0 /\ base = 0 /\ LastOutput = 0 /\ LastOutput' = 0
      BY <1>0, <1>3, <2>1, <2>3 DEF LastOutput
    <3>2. Between(project, s.gen, 0, 0) = <<>> /\ Between(project, shell.gen, 0, 0) = <<>>
      BY NothingBetween
    <3> QED
      BY <1>4, <2>2, <3>1, <3>2
  <2>4. CASE ~fresh
    <3>1. shell = s
      BY <1>2, <2>4
    <3>2. LastOutput' = LastOutput
      BY <1>3, <1>4, <3>1 DEF LastOutput, IsExit
    <3> QED
      BY <2>2, <3>1, <3>2
  <2> QED
    BY <2>3, <2>4
<1> QED
  BY <1>3, <1>6, <1>7, <1>8 DEF ShownInv, OutputInv

(* A frame is the next of the shell after the cursor.                      *)
LEMMA FrameShows ==
  ASSUME ShownInv, Frame
  PROVE  ShownInv'
<1>0. /\ shells \in [Projects -> ShellType] /\ project \in Projects /\ cursor \in Nat
      /\ base \in Nat /\ base <= cursor /\ output \in Seq(Frames)
      /\ socket.phase = "open" /\ socket.project = project /\ socket.sent = cursor
      /\ socket.gen = shells[project].gen /\ socket.upto <= shells[project].n
      /\ socket.upto \in Nat
      /\ DOMAIN socket = {"phase", "project", "gen", "ready", "upto", "sent", "queue"}
  BY DEF ShownInv, OutputInv, ShownTyped, SocketCurrent, Frame
<1>1. shells[project].n \in Nat /\ shells[project].gen \in Nat
  BY <1>0 DEF ShellType
<1>2. PICK g \in Nat : g = shells[project].gen
  BY <1>1
<1>3. Max2(cursor, cursor + 1) = cursor + 1
  BY <1>0 DEF Max2
<1>4. /\ cursor + 1 <= (IF socket.ready THEN shells[project].n ELSE socket.upto)
      /\ socket' = [socket EXCEPT !.sent = cursor + 1]
      /\ cursor' = cursor + 1
      /\ UNCHANGED <<shells, project, base, same>> /\ Render
      /\ output' = IF IsExit(project, g, cursor + 1) THEN output
                   ELSE Append(output, <<project, g, cursor + 1>>)
  BY <1>0, <1>2, <1>3 DEF Frame, server
<1>5. cursor + 1 <= shells[project].n
  BY <1>0, <1>1, <1>4
<1>6. <<project, g, cursor + 1>> \in Frames
  BY <1>0 DEF Frames
<1>7. output' \in Seq(Frames)
  BY <1>0, <1>4, <1>6
<1>8. /\ DOMAIN socket' = {"phase", "project", "gen", "ready", "upto", "sent", "queue"}
      /\ socket'.phase = "open" /\ socket'.gen = socket.gen /\ socket'.upto = socket.upto
      /\ socket'.sent = cursor + 1 /\ socket'.project = project
  BY <1>0, <1>4
<1>9. cursor + 1 \in Nat /\ base <= cursor + 1
  BY <1>0
<1>10. ShownTyped'
  BY <1>0, <1>4, <1>7, <1>8, <1>9 DEF ShownInv, OutputInv, ShownTyped
<1>11. SocketCurrent'
  BY <1>0, <1>4, <1>8 DEF SocketCurrent
<1>12. OutputWhole'
  <2> SUFFICES ASSUME same PROVE output' = Between(project, g, base, LastOutput')
    BY <1>2, <1>4, <1>5 DEF OutputWhole
  <2>1. ~IsExit(project, g, cursor)
    BY <1>0, <1>1, <1>5 DEF IsExit
  <2>2. LastOutput = cursor
    BY <1>2, <2>1 DEF LastOutput
  <2>3. output = Between(project, g, base, cursor)
    BY <1>2, <2>2 DEF ShownInv, OutputInv, OutputWhole
  <2>4. cursor + 1 > 0 /\ cursor + 1 - 1 = cursor
    BY <1>0
  <2>5. LastOutput' = IF IsExit(project, g, cursor + 1) THEN cursor ELSE cursor + 1
    <3>1. cursor' = cursor + 1 /\ shells' = shells /\ project' = project
      BY <1>4
    <3>2. cursor' > 0 /\ cursor' - 1 = cursor
      BY <1>0, <3>1
    <3> QED
      BY <1>2, <3>1, <3>2 DEF LastOutput, IsExit
  <2>6. CASE IsExit(project, g, cursor + 1)
    BY <1>4, <2>3, <2>5, <2>6
  <2>7. CASE ~IsExit(project, g, cursor + 1)
    <3>1. Append(Between(project, g, base, cursor), <<project, g, cursor + 1>>)
            = Between(project, g, base, cursor + 1)
      <4>1. \A b, m \in Nat : b <= m =>
              Append(Between(project, g, b, m), <<project, g, m + 1>>) = Between(project, g, b, m + 1)
        BY Appended
      <4> QED
        BY <1>0, <4>1
    <3> QED
      BY <1>4, <2>3, <2>5, <2>7, <3>1
  <2> QED
    BY <2>6, <2>7
<1>13. Draws(surface', output')
  BY <1>4, <1>6, <1>7, RenderDraws
<1> QED
  BY <1>10, <1>11, <1>12, <1>13 DEF ShownInv, OutputInv

LEMMA ReadyShows ==
  ASSUME ShownInv, Ready
  PROVE  ShownInv'
<1>0. /\ shells \in [Projects -> ShellType] /\ project \in Projects /\ cursor \in Nat
      /\ base \in Nat /\ base <= cursor /\ output \in Seq(Frames)
      /\ socket.phase = "open" /\ socket.project = project /\ socket.sent = cursor
      /\ DOMAIN socket = {"phase", "project", "gen", "ready", "upto", "sent", "queue"}
  BY DEF ShownInv, OutputInv, ShownTyped, SocketCurrent, Ready
<1>1. PICK n \in Nat : n = shells[project].n
  <2>1. shells[project].n \in Nat
    BY <1>0 DEF ShellType
  <2> QED
    BY <2>1
<1>2. Max2(cursor, n) \in Nat /\ cursor <= Max2(cursor, n) /\ (n = cursor => Max2(cursor, n) = cursor)
  BY <1>0 DEF Max2
<1>3. /\ socket' = [socket EXCEPT !.ready = TRUE, !.sent = Max2(cursor, n)]
      /\ cursor' = Max2(cursor, n)
      /\ same' = (same /\ n = cursor)
      /\ UNCHANGED <<shells, project, output, base>> /\ Render
  BY <1>0, <1>1 DEF Ready, server
<1>4. /\ DOMAIN socket' = {"phase", "project", "gen", "ready", "upto", "sent", "queue"}
      /\ socket'.phase = "open" /\ socket'.gen = socket.gen /\ socket'.upto = socket.upto
      /\ socket'.sent = Max2(cursor, n) /\ socket'.project = project
  BY <1>0, <1>3
<1>5. base <= Max2(cursor, n)
  BY <1>0, <1>2
<1>6. ShownTyped'
  BY <1>0, <1>2, <1>3, <1>4, <1>5 DEF ShownInv, OutputInv, ShownTyped
<1>7. SocketCurrent'
  BY <1>0, <1>3, <1>4 DEF ShownInv, OutputInv, SocketCurrent
<1>8. OutputWhole'
  <2>1. same' => same /\ cursor' = cursor
    BY <1>2, <1>3
  <2>2. cursor' = cursor => LastOutput' = LastOutput
    BY <1>3 DEF LastOutput, IsExit
  <2> QED
    BY <1>3, <2>1, <2>2 DEF ShownInv, OutputInv, OutputWhole
<1>9. Draws(surface', output')
  BY <1>0, <1>3, RenderDraws
<1> QED
  BY <1>6, <1>7, <1>8, <1>9 DEF ShownInv, OutputInv

LEMMA ShownInit ==
  ASSUME Init
  PROVE  ShownInv
<1>1. /\ shells = [p \in Projects |-> [gen |-> 0, n |-> 0, over |-> FALSE]] /\ project \in Projects
      /\ output = <<>> /\ cursor = 0 /\ base = 0 /\ socket = NoSocket /\ surface = NoSurface
  BY DEF Init
<1>2. <<>> \in Seq(Frames)
  OBVIOUS
<1>3. shells \in [Projects -> ShellType] /\ shells[project].n = 0 /\ 0 <= 0
  BY <1>1 DEF ShellType
<1>4. ShownTyped /\ SocketCurrent
  BY <1>1, <1>2, <1>3, SocketsMade DEF ShownTyped, SocketCurrent
<1>5. OutputWhole
  <2>1. LastOutput = 0
    BY <1>1 DEF LastOutput
  <2>2. Between(project, shells[project].gen, 0, 0) = <<>>
    BY NothingBetween
  <2> QED
    BY <1>1, <1>3, <2>1, <2>2 DEF OutputWhole
<1>6. Draws(surface, output)
  BY <1>1, <1>2 DEF NoSurface, Draws
<1> QED
  BY <1>4, <1>5, <1>6 DEF ShownInv, OutputInv

LEMMA ShownStep ==
  ASSUME ShownInv, [Next]_vars
  PROVE  ShownInv'
<1>1. CASE Next
  BY <1>1, UserShows, OthersShow, SwitchShows, EmitShows, ConnectedShows, FrameShows, ReadyShows
     DEF Next
<1>2. CASE UNCHANGED vars
  <2>1. UNCHANGED <<shells, project, output, cursor, base, same, socket, surface>>
    BY <1>2 DEF vars
  <2>2. OutputInv'
    BY <2>1, SocketLeft DEF ShownInv, OutputInv, ShownTyped
  <2> QED
    BY <2>1, <2>2 DEF ShownInv
<1> QED
  BY <1>1, <1>2

(* Whatever is opened, closed, cleared and switched: the output is the     *)
(* frames of the shell of the project that is shown, each once, in order   *)
(* and with none missing unless the server skipped some, and the surface   *)
(* shows that output (useProjectTerminalSession, LiveTerminalSurface).     *)
THEOREM TerminalShowsItsShell == Spec => [](OutputFaithful /\ ScreenFaithful)
<1>1. Init => ShownInv
  BY ShownInit
<1>2. ShownInv /\ [Next]_vars => ShownInv'
  BY ShownStep
<1>3. ShownInv => OutputFaithful /\ ScreenFaithful
  <2> SUFFICES ASSUME ShownInv PROVE OutputFaithful /\ ScreenFaithful
    OBVIOUS
  <2>1. ScreenFaithful
    BY DEF ShownInv, Draws, ScreenFaithful
  <2>2. OutputFaithful
    BY DEF ShownInv, OutputInv, OutputWhole, LastOutput, Between, OutputFaithful
  <2> QED
    BY <2>1, <2>2
<1> QED
  BY <1>1, <1>2, <1>3, PTL DEF Spec

(* How much is kept and drawn of a shell.                                  *)
OutputBounded ==
  /\ \A p \in Projects : shells[p].n <= MaxFrames
  /\ cursor <= MaxFrames
  /\ Len(output) + base <= cursor

LEMMA TerminalBounds ==
  ASSUME ShownInv, TypeOK, OutputBounded, MaxFrames \in Nat, MaxTyped \in Nat, [Next]_vars
  PROVE  /\ OutputBounded'
         /\ status' \in {"idle", "connecting", "live", "closed", "error"}
         /\ terminal' \in {"none", "running", "exited"}
         /\ socket'.phase \in {"none", "connecting", "open", "closed"}
         /\ typed' \in 0..MaxTyped
<1>1. /\ shells \in [Projects -> ShellType] /\ project \in Projects /\ output \in Seq(Frames)
      /\ cursor \in Nat /\ base \in Nat /\ base <= cursor /\ typed \in Nat
      /\ DOMAIN socket = {"phase", "project", "gen", "ready", "upto", "sent", "queue"}
  BY DEF ShownInv, OutputInv, ShownTyped, TypeOK
<1>2. /\ status \in {"idle", "connecting", "live", "closed", "error"}
      /\ terminal \in {"none", "running", "exited"}
      /\ socket.phase \in {"none", "connecting", "open", "closed"}
      /\ typed \in 0..MaxTyped
  BY DEF TypeOK
<1>3. \A p, after : NewSocket(p, after).phase = "connecting" /\ NoSocket.phase = "none"
  BY DEF NewSocket, NoSocket
<1>4. CASE Load \/ OldSocketFails \/ UNCHANGED vars
  BY <1>2, <1>4 DEF Load, OldSocketFails, vars, OutputBounded, server, drawn
<1>5. CASE Open
  BY <1>2, <1>3, <1>5 DEF Open, OutputBounded, server
<1>6. ASSUME NEW p \in Projects, SwitchProject(p)
      PROVE  /\ OutputBounded' /\ status' \in {"idle", "connecting"} /\ terminal' = "none"
             /\ socket'.phase \in {"none", "connecting"} /\ typed' = typed
  BY <1>2, <1>3, <1>6 DEF SwitchProject, OutputBounded, server, NextCursor
<1>7. CASE Reconnect
  BY <1>2, <1>3, <1>7 DEF Reconnect, OutputBounded, server, drawn
<1>8. CASE Clear
  BY <1>1, <1>2, <1>8 DEF Clear, OutputBounded, server
<1>9. CASE SocketFails
  BY <1>1, <1>2, <1>9 DEF SocketFails, OutputBounded, server, drawn
<1>10. CASE SocketCloses
  BY <1>1, <1>2, <1>10 DEF SocketCloses, OutputBounded, server, drawn
<1>11. CASE Connected
  <2>1. PICK p, shell : /\ shells' = [shells EXCEPT ![p] = shell]
                        /\ shell.n \in {0, shells[p].n} /\ socket'.phase = "open"
    BY <1>1, <1>11 DEF Connected
  <2>2. \A q \in Projects : shells'[q].n <= MaxFrames
    BY <1>1, <2>1 DEF OutputBounded
  <2> QED
    BY <1>2, <1>11, <2>1, <2>2 DEF Connected, OutputBounded, drawn
<1>12. ASSUME NEW p \in Projects, Emit(p)
       PROVE  OutputBounded' /\ UNCHANGED <<status, terminal, socket, typed>>
  <2>1. PICK over \in BOOLEAN : shells' = [shells EXCEPT ![p].n = @ + 1, ![p].over = over]
    BY <1>12 DEF Emit
  <2>2. shells[p] \in ShellType /\ shells[p].n < MaxFrames
    BY <1>1, <1>12 DEF Emit
  <2>3. shells'[p].n = shells[p].n + 1 /\ \A q \in Projects : q # p => shells'[q] = shells[q]
    BY <1>1, <2>1, <2>2 DEF ShellType
  <2>4. \A q \in Projects : shells'[q].n <= MaxFrames
    BY <2>2, <2>3 DEF OutputBounded, ShellType
  <2> QED
    BY <1>12, <2>4 DEF Emit, OutputBounded, drawn
<1>13. CASE Frame
  <2>1. PICK k : k = socket.sent + 1
    OBVIOUS
  <2>2. socket.sent = cursor /\ socket.project = project /\ socket.upto <= shells[project].n
        /\ socket.upto \in Nat /\ shells[project].n \in Nat
    BY <1>1, <1>13 DEF Frame, ShownInv, OutputInv, SocketCurrent, ShownTyped, ShellType
  <2>3. /\ k <= shells[project].n /\ cursor' = Max2(cursor, k) /\ base' = base
        /\ shells' = shells /\ typed' = typed
    <3>1. k <= IF socket.ready THEN shells[project].n ELSE socket.upto
      BY <1>13, <2>1, <2>2 DEF Frame
    <3>2. k \in Nat
      BY <1>1, <2>1, <2>2
    <3>3. k <= shells[project].n
      BY <2>2, <3>1, <3>2
    <3> QED
      BY <1>13, <2>1, <3>3 DEF Frame, server
  <2>4. k <= MaxFrames /\ cursor' = cursor + 1 /\ cursor' <= MaxFrames
    BY <1>1, <2>1, <2>2, <2>3 DEF OutputBounded, Max2
  <2>5. PICK f \in Frames : output' \in {output, Append(output, f)}
    <3>1. <<project, socket.gen, k>> \in Frames
      BY <1>1, <2>1, <2>2 DEF Frames, ShownInv, OutputInv, ShownTyped
    <3> QED
      BY <1>13, <2>1, <2>2, <3>1 DEF Frame
  <2>6. Len(output') <= Len(output) + 1
    BY <1>1, <2>5
  <2>7. OutputBounded'
    <3>1. Len(output') \in Nat /\ Len(output) \in Nat
      BY <1>1, <2>5
    <3> QED
      BY <1>1, <2>3, <2>4, <2>6, <3>1 DEF OutputBounded
  <2>8. status' \in {"closed", "live"} /\ terminal' \in {"none", "exited", terminal}
    BY <1>13 DEF Frame
  <2>9. socket'.phase = socket.phase
    BY <1>1, <1>13 DEF Frame
  <2> QED
    BY <1>2, <2>3, <2>7, <2>8, <2>9
<1>14. CASE Ready
  <2>1. socket.project = project
    BY <1>14 DEF Ready, ShownInv, OutputInv, SocketCurrent
  <2>2. shells[project].n \in Nat /\ shells[project].n <= MaxFrames
    BY <1>1 DEF OutputBounded, ShellType
  <2>3. cursor' = Max2(cursor, shells[project].n) /\ UNCHANGED <<shells, output, base, typed>>
    BY <1>14, <2>1 DEF Ready, server
  <2>4. cursor' <= MaxFrames /\ cursor <= cursor'
    BY <1>1, <2>2, <2>3 DEF Max2, OutputBounded
  <2>5. cursor' \in Nat /\ Len(output) \in Nat
    BY <1>1, <2>2, <2>3 DEF Max2
  <2>6. OutputBounded'
    BY <1>1, <2>3, <2>4, <2>5 DEF OutputBounded
  <2>7. /\ status' \in {"closed", "live"} /\ terminal' \in {"exited", "running"}
        /\ socket'.phase = socket.phase
    BY <1>1, <1>14 DEF Ready
  <2> QED
    BY <1>2, <2>3, <2>6, <2>7
<1>15. CASE SendInput
  <2>1. socket'.phase = socket.phase
    BY <1>1, <1>15 DEF SendInput
  <2> QED
    BY <1>1, <1>2, <1>15, <2>1 DEF SendInput, OutputBounded, drawn
<1> QED
  BY <1>2, <1>4, <1>5, <1>6, <1>7, <1>8, <1>9, <1>10, <1>11, <1>12, <1>13, <1>14, <1>15 DEF Next

(* The types of the drawer: what is kept and drawn of a shell is never     *)
(* more than the frames it wrote, however often the page connects again    *)
(* (use-project-terminal-session.ts).                                      *)
THEOREM DrawerTypeCorrect ==
  ASSUME MaxFrames \in Nat, MaxTyped \in Nat
  PROVE  Spec => []TypeOK
<1> DEFINE Inv == ShownInv /\ TypeOK /\ OutputBounded
<1>1. Init => Inv
  <2> SUFFICES ASSUME Init PROVE Inv
    OBVIOUS
  <2>1. /\ NoSocket.phase = "none" /\ NoSurface.written = 0
    BY DEF NoSocket, NoSurface
  <2>2. TypeOK
    BY <2>1 DEF Init, TypeOK
  <2>3. \A p \in Projects : shells[p].n = 0
    BY DEF Init
  <2>4. OutputBounded
    BY <2>3 DEF Init, OutputBounded
  <2> QED
    BY <2>2, <2>4, ShownInit
<1>2. Inv /\ [Next]_vars => Inv'
  <2> SUFFICES ASSUME ShownInv, TypeOK, OutputBounded, [Next]_vars PROVE Inv'
    OBVIOUS
  <2>1. ShownInv'
    BY ShownStep
  <2>2. /\ OutputBounded'
        /\ status' \in {"idle", "connecting", "live", "closed", "error"}
        /\ terminal' \in {"none", "running", "exited"}
        /\ socket'.phase \in {"none", "connecting", "open", "closed"}
        /\ typed' \in 0..MaxTyped
    BY TerminalBounds
  <2>3. PICK c, b, out, s : c = cursor' /\ b = base' /\ out = output' /\ s = surface'
    OBVIOUS
  <2>4. c \in Nat /\ b \in Nat /\ b <= c /\ out \in Seq(Frames) /\ Draws(s, out)
    BY <2>1, <2>3 DEF ShownInv, OutputInv, ShownTyped
  <2>5. c <= MaxFrames /\ Len(out) + b <= c
    BY <2>2, <2>3 DEF OutputBounded
  <2>6. s.written \in 0..MaxFrames
    BY <2>4, <2>5 DEF Draws
  <2>7. c \in 0..MaxFrames /\ b \in 0..c
    BY <2>4, <2>5
  <2> QED
    BY <2>1, <2>2, <2>3, <2>6, <2>7 DEF TypeOK
<1>3. Inv => TypeOK
  OBVIOUS
<1> HIDE DEF Inv
<1> QED
  BY <1>1, <1>2, <1>3, PTL DEF Spec

-----------------------------------------------------------------------------
(* The review of a project's session (WebReview).                          *)

CONSTANTS Paths, BaseName, SizeOf, Arrivals, MaxFindings, MaxPieces, MaxEntries, MaxReviewOps

VARIABLES timelines, busy, repo, calls, modes, git, pane, crossed, reviewOps

Review == INSTANCE WebReview WITH MaxOps <- MaxReviewOps, ops <- reviewOps

(* Lists of calls.                                                         *)

IsList(s) == s \in Seq({s[k] : k \in DOMAIN s})

IsCall(c) == DOMAIN c = {"p", "kind", "path", "mixed", "done", "ok", "answer"}

LEMMA ListFacts ==
  ASSUME NEW s, IsList(s)
  PROVE  Len(s) \in Nat /\ DOMAIN s = 1..Len(s)
  BY LenProperties DEF IsList

LEMMA MadeList ==
  ASSUME NEW S, NEW s \in Seq(S)
  PROVE  IsList(s)
<1>1. /\ Len(s) \in Nat /\ DOMAIN s = 1..Len(s)
      /\ s = [k \in 1..Len(s) |-> s[k]]
  BY LenProperties
<1> DEFINE T == {s[j] : j \in DOMAIN s}
<1>2. \A k \in 1..Len(s) : s[k] \in T
  BY <1>1
<1> HIDE DEF T
<1>3. [k \in 1..Len(s) |-> s[k]] \in [1..Len(s) -> T]
  BY <1>2
<1>4. s \in [1..Len(s) -> T]
  BY <1>1, <1>3, Zenon
<1>5. s \in Seq(T)
  BY <1>1, <1>4, SeqDef
<1> USE DEF T
<1> QED
  BY <1>5 DEF IsList

LEMMA EmptyList ==
  ASSUME NEW s, s = <<>>
  PROVE  /\ \A k \in DOMAIN s : FALSE
         /\ \A x : Len(Append(s, x)) = 1
<1>1. DOMAIN s = {}
  OBVIOUS
<1>2. ASSUME NEW x PROVE Len(Append(s, x)) = 1
  <2>1. s \in Seq({x}) /\ Len(s) = 0
    OBVIOUS
  <2> QED
    BY <2>1, AppendProperties
<1> QED
  BY <1>1, <1>2

LEMMA NoElement ==
  ASSUME NEW s, IsList(s), \A k \in DOMAIN s : FALSE
  PROVE  s = <<>>
<1>1. Len(s) \in Nat /\ DOMAIN s = 1..Len(s) /\ s \in Seq({s[k] : k \in DOMAIN s})
  BY ListFacts DEF IsList
<1>2. Len(s) = 0
  <2> SUFFICES ASSUME Len(s) # 0 PROVE FALSE
    OBVIOUS
  <2>1. 1 \in DOMAIN s
    BY <1>1
  <2> QED
    BY <2>1
<1> QED
  BY <1>1, <1>2, EmptySeq

LEMMA AppendedList ==
  ASSUME NEW s, IsList(s), NEW x
  PROVE  LET t == Append(s, x)
         IN /\ IsList(t) /\ Len(t) = Len(s) + 1
            /\ t[Len(t)] = x
            /\ \A k \in DOMAIN s : k \in DOMAIN t /\ t[k] = s[k]
            /\ \A k \in DOMAIN t : k \in DOMAIN s \/ k = Len(t)
<1> DEFINE S == {s[k] : k \in DOMAIN s} \cup {x}
<1>1. s \in Seq(S) /\ x \in S
  <2>1. s \in Seq({s[k] : k \in DOMAIN s})
    BY DEF IsList
  <2> QED
    BY <2>1, SeqMonotonic
<1>2. /\ Append(s, x) \in Seq(S)
      /\ Len(Append(s, x)) = Len(s) + 1
      /\ \A i \in 1..Len(s) : Append(s, x)[i] = s[i]
      /\ Append(s, x)[Len(s) + 1] = x
  BY <1>1, AppendProperties
<1>3. IsList(Append(s, x))
  BY <1>2, MadeList
<1>4. Len(s) \in Nat /\ DOMAIN s = 1..Len(s) /\ DOMAIN Append(s, x) = 1..(Len(s) + 1)
  BY <1>2, <1>3, ListFacts
<1> QED
  BY <1>2, <1>3, <1>4

LEMMA ShorterList ==
  ASSUME NEW s, IsList(s), NEW k \in DOMAIN s
  PROVE  LET t == Review!RemoveAt(s, k)
         IN /\ IsList(t) /\ Len(t) = Len(s) - 1
            /\ \A j \in DOMAIN t : \E i \in DOMAIN s : t[j] = s[i]
            /\ \A i \in DOMAIN s : i # k => \E j \in DOMAIN t : t[j] = s[i]
<1> DEFINE S == {s[i] : i \in DOMAIN s}
           a == SubSeq(s, 1, k - 1)
           b == SubSeq(s, k + 1, Len(s))
<1>1. s \in Seq(S) /\ Len(s) \in Nat /\ DOMAIN s = 1..Len(s) /\ k \in 1..Len(s)
  BY ListFacts DEF IsList
<1>2. a \in Seq(S) /\ Len(a) = k - 1 /\ \A i \in 1..(k - 1) : a[i] = s[i]
  BY <1>1, SubSeqProperties
<1>3. b \in Seq(S) /\ Len(b) = Len(s) - k /\ \A i \in 1..(Len(s) - k) : b[i] = s[k + i]
  <2>1. k + 1 \in Int /\ Len(s) \in Int /\ \A i \in (k + 1)..Len(s) : s[i] \in S
    BY <1>1
  <2>2. /\ b \in Seq(S)
        /\ Len(b) = IF k + 1 <= Len(s) THEN Len(s) - (k + 1) + 1 ELSE 0
        /\ \A i \in 1..(Len(s) - (k + 1) + 1) : b[i] = s[(k + 1) + i - 1]
    BY <2>1, SubSeqProperties, SMTT(60)
  <2>3. Len(s) - (k + 1) + 1 = Len(s) - k /\ (~(k + 1 <= Len(s)) => Len(s) - k = 0)
    BY <1>1
  <2>4. \A i \in 1..(Len(s) - k) : (k + 1) + i - 1 = k + i
    BY <1>1
  <2> QED
    BY <2>2, <2>3, <2>4
<1>4. PICK t : t = Review!RemoveAt(s, k)
  OBVIOUS
<1>5. /\ t \in Seq(S) /\ Len(t) = Len(a) + Len(b)
      /\ \A i \in 1..Len(t) : t[i] = IF i <= Len(a) THEN a[i] ELSE b[i - Len(a)]
  <2>1. t = a \o b
    BY <1>4 DEF Review!RemoveAt
  <2> HIDE DEF a, b, S
  <2>2. a \in Seq(S) /\ b \in Seq(S)
    BY <1>2, <1>3
  <2>3. /\ a \o b \in Seq(S)
        /\ Len(a \o b) = Len(a) + Len(b)
        /\ \A i \in 1..(Len(a) + Len(b)) :
             (a \o b)[i] = IF i <= Len(a) THEN a[i] ELSE b[i - Len(a)]
    BY <2>2, ConcatProperties, Zenon
  <2> QED
    BY <2>1, <2>3
<1>6. Len(t) = Len(s) - 1
  <2>1. Len(t) = Len(a) + Len(b)
    BY <1>5
  <2>2. Len(a) = k - 1 /\ Len(b) = Len(s) - k
    BY <1>2, <1>3
  <2> HIDE DEF a, b
  <2> QED
    BY <1>1, <2>1, <2>2
<1>7. \A i \in 1..Len(t) : t[i] = IF i <= k - 1 THEN s[i] ELSE s[i + 1]
  <2> SUFFICES ASSUME NEW i \in 1..Len(t) PROVE t[i] = IF i <= k - 1 THEN s[i] ELSE s[i + 1]
    OBVIOUS
  <2>1. CASE i <= k - 1
    <3>1. i \in 1..(k - 1)
      BY <1>1, <2>1
    <3>2. t[i] = a[i]
      BY <1>2, <1>5, <2>1
    <3> QED
      BY <1>2, <2>1, <3>1, <3>2
  <2>2. CASE ~(i <= k - 1)
    <3>1. t[i] = b[i - (k - 1)]
      BY <1>1, <1>2, <1>5, <2>2
    <3>2. i - (k - 1) \in 1..(Len(s) - k) /\ k + (i - (k - 1)) = i + 1
      BY <1>1, <1>6, <2>2
    <3> QED
      BY <1>3, <2>2, <3>1, <3>2
  <2> QED
    BY <2>1, <2>2
<1>8. IsList(t) /\ DOMAIN t = 1..Len(t)
  BY <1>5, MadeList, LenProperties
<1>9. \A j \in DOMAIN t : \E i \in DOMAIN s : t[j] = s[i]
  BY <1>1, <1>6, <1>7, <1>8
<1>10. ASSUME NEW i \in DOMAIN s, i # k PROVE \E j \in DOMAIN t : t[j] = s[i]
  <2>1. CASE i < k
    <3>1. i \in DOMAIN t /\ i <= k - 1
      BY <1>1, <1>6, <1>8, <2>1
    <3> QED
      BY <1>7, <1>8, <3>1
  <2>2. CASE i > k
    <3>1. i - 1 \in DOMAIN t /\ ~(i - 1 <= k - 1) /\ (i - 1) + 1 = i
      BY <1>1, <1>6, <1>8, <2>2
    <3> QED
      BY <1>7, <1>8, <3>1
  <2> QED
    BY <1>1, <1>10, <2>1, <2>2
<1> QED
  BY <1>4, <1>6, <1>8, <1>9, <1>10

-----------------------------------------------------------------------------
(* What is staged.                                                         *)

IsRepo(r) == DOMAIN r = {"staged", "edited"}

IsGit(g) == DOMAIN g = {"status", "known", "loading", "action", "tone"}

ReviewTyped ==
  /\ project \in Projects
  /\ DOMAIN repo = Projects /\ \A p \in Projects : IsRepo(repo[p])
  /\ IsGit(git)
  /\ IsList(calls) /\ \A k \in DOMAIN calls : IsCall(calls[k])

(* A call that met no other one is the only one, of the project that is    *)
(* shown, and keeps the buttons disabled that would send another; what it  *)
(* answers is in the repository still.                                     *)
Alone(c) ==
  /\ Len(calls) = 1
  /\ c.p = project
  /\ IF c.kind = "refresh" THEN git.loading ELSE git.action # ""
  /\ c.done /\ c.ok => c.answer.project = project /\ c.answer.staged = repo[project].staged

AloneOrMixed == \A k \in DOMAIN calls : calls[k].mixed \/ Alone(calls[k])

(* A call is out that may change, or has changed, what is staged in the    *)
(* project that is shown: its answer will set the status, or crossed.      *)
Changing == \E k \in DOMAIN calls : calls[k].p = project /\ calls[k].kind # "refresh"

Agrees == git.status.project = project /\ git.status.staged = repo[project].staged

StatusAgrees == git.known /\ ~crossed => Agrees \/ Changing

ReviewInv == ReviewTyped /\ AloneOrMixed /\ StatusAgrees

(* Steps that send and change nothing of git.                              *)
LEMMA ReviewLeft ==
  ASSUME ReviewInv, UNCHANGED <<calls, project, git, crossed, repo>>
  PROVE  ReviewInv'
  BY DEF ReviewInv, ReviewTyped, AloneOrMixed, Alone, StatusAgrees, Changing, Agrees

LEMMA AllMixedFacts ==
  ASSUME NEW s, IsList(s), \A k \in DOMAIN s : IsCall(s[k])
  PROVE  LET t == Review!AllMixed(s)
         IN /\ IsList(t) /\ DOMAIN t = DOMAIN s /\ Len(t) = Len(s)
            /\ \A k \in DOMAIN s : /\ IsCall(t[k]) /\ t[k].mixed
                                   /\ t[k].p = s[k].p /\ t[k].kind = s[k].kind
<1>1. PICK t : t = Review!AllMixed(s)
  OBVIOUS
<1>2. Len(s) \in Nat /\ DOMAIN s = 1..Len(s)
  BY ListFacts
<1>3. t = [k \in 1..Len(s) |-> [s[k] EXCEPT !.mixed = TRUE]]
  BY <1>1, <1>2 DEF Review!AllMixed
<1> DEFINE S == {t[k] : k \in 1..Len(s)}
<1>4. t \in [1..Len(s) -> S]
  BY <1>3
<1>5. t \in Seq(S)
  BY <1>2, <1>4, SeqDef
<1>6. IsList(t) /\ DOMAIN t = DOMAIN s /\ Len(t) = Len(s)
  BY <1>2, <1>4, <1>5, MadeList, LenProperties
<1>7. ASSUME NEW k \in DOMAIN s
      PROVE  IsCall(t[k]) /\ t[k].mixed /\ t[k].p = s[k].p /\ t[k].kind = s[k].kind
  <2>1. t[k] = [s[k] EXCEPT !.mixed = TRUE]
    BY <1>2, <1>3
  <2> QED
    BY <2>1 DEF IsCall
<1> QED
  BY <1>1, <1>6, <1>7

(* A call is sent after others that are mixed from now on, or to nothing.  *)
LEMMA SentStep ==
  ASSUME ReviewInv, NEW out, IsList(out), NEW c, IsCall(c), calls' = Append(out, c),
         \A k \in DOMAIN out : IsCall(out[k]) /\ out[k].mixed,
         \/ c.mixed
         \/ /\ out = <<>> /\ c.p = project' /\ ~c.done
            /\ IF c.kind = "refresh" THEN git'.loading ELSE git'.action # "",
         project' \in Projects, IsGit(git'), repo' = repo
  PROVE  ReviewTyped' /\ AloneOrMixed'
<1>1. /\ IsList(calls') /\ Len(calls') = Len(out) + 1 /\ calls'[Len(calls')] = c
      /\ \A k \in DOMAIN out : k \in DOMAIN calls' /\ calls'[k] = out[k]
      /\ \A k \in DOMAIN calls' : k \in DOMAIN out \/ k = Len(calls')
  BY AppendedList
<1>2. \A k \in DOMAIN calls' : IsCall(calls'[k])
  BY <1>1
<1>3. ReviewTyped'
  BY <1>1, <1>2 DEF ReviewInv, ReviewTyped
<1>4. ASSUME NEW k \in DOMAIN calls', ~calls'[k].mixed
      PROVE  Alone(calls[k])'
  <2>1. k = Len(calls') /\ calls'[k] = c
    BY <1>1, <1>4
  <2>2. ~c.mixed
    BY <1>4, <2>1
  <2>3. out = <<>>
    BY <2>2
  <2>5. Len(calls') = 1
    BY <2>3, EmptyList
  <2> QED
    BY <2>1, <2>2, <2>5 DEF Alone
<1> QED
  BY <1>3, <1>4 DEF AloneOrMixed

(* A call for which nothing was out, when there is no mixed one.           *)
LEMMA NoneMixed ==
  ASSUME ReviewInv, \A k \in DOMAIN calls : ~calls[k].mixed,
         ~git.loading, git.action = ""
  PROVE  calls = <<>>
<1>1. \A k \in DOMAIN calls : Alone(calls[k])
  BY DEF ReviewInv, AloneOrMixed
<1>2. \A k \in DOMAIN calls : FALSE
  BY <1>1 DEF Alone
<1>3. IsList(calls)
  BY DEF ReviewInv, ReviewTyped
<1> QED
  BY <1>2, <1>3, NoElement

(* What is out is all mixed, if one of it is.                              *)
LEMMA MixedAll ==
  ASSUME ReviewInv, NEW j \in DOMAIN calls, calls[j].mixed
  PROVE  \A k \in DOMAIN calls : calls[k].mixed
<1> SUFFICES ASSUME NEW k \in DOMAIN calls, ~calls[k].mixed PROVE FALSE
  OBVIOUS
<1>1. Len(calls) = 1
  BY DEF ReviewInv, AloneOrMixed, Alone
<1>2. DOMAIN calls = 1..1
  BY <1>1, ListFacts DEF ReviewInv, ReviewTyped
<1>3. j = k
  BY <1>2
<1> QED
  BY <1>3

(* A call is sent of the project that is shown.                            *)
LEMMA AskStep ==
  ASSUME ReviewInv, ~git.loading, git.action = "",
         NEW c, IsCall(c), c.p = project, ~c.done, calls' = Append(calls, c),
         c.mixed <=> \E k \in DOMAIN calls : calls[k].mixed,
         IsGit(git'), git'.status = git.status, git'.known = git.known,
         IF c.kind = "refresh" THEN git'.loading ELSE git'.action # "",
         UNCHANGED <<project, repo, crossed>>
  PROVE  ReviewInv'
<1>1. IsList(calls) /\ project \in Projects /\ \A k \in DOMAIN calls : IsCall(calls[k])
  BY DEF ReviewInv, ReviewTyped
<1>2. ReviewTyped' /\ AloneOrMixed'
  <2>1. CASE \E k \in DOMAIN calls : calls[k].mixed
    <3>1. \A k \in DOMAIN calls : calls[k].mixed
      BY <2>1, MixedAll
    <3> QED
      BY <1>1, <2>1, <3>1, SentStep
  <2>2. CASE ~\E k \in DOMAIN calls : calls[k].mixed
    <3>1. calls = <<>>
      BY <2>2, NoneMixed
    <3>2. \A k \in DOMAIN calls : FALSE
      BY <3>1, EmptyList
    <3> QED
      BY <1>1, <3>1, <3>2, SentStep
  <2> QED
    BY <2>1, <2>2
<1>3. StatusAgrees'
  <2>1. \A k \in DOMAIN calls : k \in DOMAIN calls' /\ calls'[k] = calls[k]
    BY <1>1, AppendedList
  <2> QED
    BY <2>1 DEF ReviewInv, StatusAgrees, Changing, Agrees
<1> QED
  BY <1>2, <1>3 DEF ReviewInv

LEMMA RefreshStep ==
  ASSUME ReviewInv, Review!Refresh
  PROVE  ReviewInv'
<1> DEFINE mixed == \E k \in DOMAIN calls : calls[k].mixed
           call == [p |-> project, kind |-> "refresh", path |-> "", mixed |-> mixed,
                    done |-> FALSE, ok |-> TRUE, answer |-> Review!NoStatus]
<1>1. /\ IsGit(git') /\ git'.status = git.status /\ git'.known = git.known /\ git'.loading
      /\ ~git.loading /\ git.action = "" /\ UNCHANGED <<project, repo, crossed>>
  BY DEF Review!Refresh, ReviewInv, ReviewTyped, IsGit
<1>2. calls' = Append(calls, call)
  BY DEF Review!Refresh, Review!Send, Review!Call, Review!Mixed
<1>3. /\ IsCall(call) /\ call.p = project /\ ~call.done /\ call.kind = "refresh"
      /\ call.mixed <=> mixed
  BY DEF IsCall
<1> HIDE DEF call
<1> QED
  BY <1>1, <1>2, <1>3, AskStep

LEMMA ChangeStep ==
  ASSUME ReviewInv, NEW kind, Review!Change(kind)
  PROVE  ReviewInv'
<1> DEFINE mixed == \E k \in DOMAIN calls : calls[k].mixed
           call == [p |-> project, kind |-> kind, path |-> Review!SelectedChange.path, mixed |-> mixed,
                    done |-> FALSE, ok |-> TRUE, answer |-> Review!NoStatus]
<1>1. /\ IsGit(git') /\ git'.status = git.status /\ git'.known = git.known
      /\ git'.action = kind
      /\ ~git.loading /\ git.action = "" /\ UNCHANGED <<project, repo, crossed>>
  BY DEF Review!Change, Review!MayChange, ReviewInv, ReviewTyped, IsGit
<1>2. kind # "refresh" /\ kind # ""
  BY DEF Review!Change
<1>3. calls' = Append(calls, call)
  BY DEF Review!Change, Review!Send, Review!Call, Review!Mixed
<1>4. /\ IsCall(call) /\ call.p = project /\ ~call.done /\ call.kind = kind
      /\ call.mixed <=> mixed
  BY DEF IsCall
<1> HIDE DEF call
<1> QED
  BY <1>1, <1>2, <1>3, <1>4, AskStep

LEMMA CommitStep ==
  ASSUME ReviewInv, Review!Commit
  PROVE  ReviewInv'
<1> DEFINE mixed == git.loading \/ \E k \in DOMAIN calls : calls[k].mixed
           call == [p |-> project, kind |-> "commit", path |-> "", mixed |-> mixed,
                    done |-> FALSE, ok |-> TRUE, answer |-> Review!NoStatus]
<1>1. /\ IsGit(git') /\ git'.status = git.status /\ git'.known = git.known
      /\ git'.action = "commit" /\ git.action = ""
      /\ UNCHANGED <<project, repo, crossed>>
  BY DEF Review!Commit, ReviewInv, ReviewTyped, IsGit
<1>2. IF git.loading THEN calls' = Append(Review!AllMixed(calls), call) ELSE calls' = Append(calls, call)
  BY DEF Review!Commit, Review!Send, Review!Call, Review!Mixed
<1>3. /\ IsCall(call) /\ call.p = project /\ ~call.done /\ call.kind = "commit"
      /\ call.mixed <=> mixed
  BY DEF IsCall
<1> HIDE DEF call
<1>4. CASE ~git.loading
  <2>1. calls' = Append(calls, call)
    BY <1>2, <1>4
  <2>2. call.mixed <=> \E k \in DOMAIN calls : calls[k].mixed
    BY <1>3, <1>4
  <2> QED
    BY <1>1, <1>3, <1>4, <2>1, <2>2, AskStep
<1>5. CASE git.loading
  <2>1. PICK out : out = Review!AllMixed(calls)
    OBVIOUS
  <2>2. calls' = Append(out, call) /\ call.mixed
    BY <1>2, <1>3, <1>5, <2>1
  <2>3. IsList(calls) /\ project \in Projects /\ \A k \in DOMAIN calls : IsCall(calls[k])
    BY DEF ReviewInv, ReviewTyped
  <2>4. /\ IsList(out)
        /\ \A k \in DOMAIN out : IsCall(out[k]) /\ out[k].mixed
    BY <2>1, <2>3, AllMixedFacts
  <2>5. ReviewTyped' /\ AloneOrMixed'
    BY <1>1, <1>3, <2>2, <2>3, <2>4, SentStep
  <2>6. calls'[Len(calls')] = call /\ Len(calls') \in DOMAIN calls'
    <3>1. IsList(calls') /\ Len(calls') = Len(out) + 1 /\ calls'[Len(calls')] = call
      BY <2>2, <2>4, AppendedList
    <3>2. Len(out) \in Nat /\ DOMAIN calls' = 1..Len(calls')
      BY <2>4, <3>1, ListFacts
    <3> QED
      BY <3>1, <3>2
  <2>7. Changing'
    BY <1>1, <1>3, <2>6 DEF Changing
  <2> QED
    BY <2>5, <2>7 DEF ReviewInv, StatusAgrees
<1> QED
  BY <1>4, <1>5

LEMMA ShowStep ==
  ASSUME ReviewInv, NEW p \in Projects, Review!Show(p)
  PROVE  ReviewInv'
<1>1. /\ IsGit(git') /\ ~git'.known /\ git'.loading /\ project' = p /\ repo' = repo
  BY DEF Review!Show, Review!NoGit, IsGit
<1>2. IsList(calls) /\ \A k \in DOMAIN calls : IsCall(calls[k])
  BY DEF ReviewInv, ReviewTyped
<1>3. PICK out : out = Review!AllMixed(calls)
  OBVIOUS
<1>4. /\ IsList(out) /\ Len(out) = Len(calls)
      /\ \A k \in DOMAIN out : IsCall(out[k]) /\ out[k].mixed
  BY <1>2, <1>3, AllMixedFacts
<1> DEFINE c == [p |-> p, kind |-> "refresh", path |-> "", mixed |-> calls # <<>>,
                 done |-> FALSE, ok |-> TRUE, answer |-> Review!NoStatus]
<1>6. IsCall(c) /\ c.p = p /\ c.kind = "refresh" /\ (c.mixed <=> calls # <<>>) /\ ~c.done
  BY DEF IsCall
<1>7. calls' = Append(out, c)
  BY <1>3 DEF Review!Show, Review!Send, Review!Call
<1> HIDE DEF c
<1>8. c.mixed \/ out = <<>>
  <2> SUFFICES ASSUME calls = <<>> PROVE out = <<>>
    BY <1>6
  <2>1. Len(out) = 0 /\ out \in Seq({out[k] : k \in DOMAIN out})
    BY <1>4 DEF IsList
  <2> QED
    BY <2>1, EmptySeq
<1>9. ReviewTyped' /\ AloneOrMixed'
  BY <1>1, <1>4, <1>6, <1>7, <1>8, SentStep
<1> QED
  BY <1>1, <1>9 DEF ReviewInv, StatusAgrees

(* The server works on a call; what is staged in a project changes only    *)
(* with a call for it that is no refresh.                                  *)
LEMMA ServeStep ==
  ASSUME ReviewInv, NEW k \in DOMAIN calls, NEW fails \in BOOLEAN, Review!Serve(k, fails)
  PROVE  ReviewInv'
<1>0. /\ IsList(calls) /\ \A j \in DOMAIN calls : IsCall(calls[j])
      /\ DOMAIN repo = Projects /\ \A p \in Projects : IsRepo(repo[p])
      /\ project \in Projects
  BY DEF ReviewInv, ReviewTyped
<1>1. PICK c : c = calls[k]
  OBVIOUS
<1>2. PICK now, ok :
        /\ repo' = [repo EXCEPT ![c.p] = now]
        /\ calls' = [calls EXCEPT ![k] = [c EXCEPT !.done = TRUE, !.ok = ok /\ ~fails,
                                                   !.answer = Review!StatusOf(c.p, now)]]
        /\ now = IF ok THEN Review!After(c, repo[c.p]) ELSE repo[c.p]
  BY <1>1 DEF Review!Serve
<1>3. UNCHANGED <<project, git, crossed>>
  BY DEF Review!Serve
<1>4. PICK d : d = [c EXCEPT !.done = TRUE, !.ok = ok /\ ~fails, !.answer = Review!StatusOf(c.p, now)]
  OBVIOUS
<1>5. /\ IsCall(d) /\ d.p = c.p /\ d.kind = c.kind /\ d.mixed = c.mixed
      /\ d.answer.project = c.p /\ d.answer.staged = now.staged
  <2>1. IsCall(c)
    BY <1>0, <1>1
  <2>2. d.answer = Review!StatusOf(c.p, now)
    BY <1>4, <2>1 DEF IsCall
  <2> QED
    BY <1>4, <2>1, <2>2 DEF IsCall, Review!StatusOf
<1>6. calls' = [calls EXCEPT ![k] = d]
  BY <1>2, <1>4, Zenon
<1>7. /\ DOMAIN calls' = DOMAIN calls /\ calls'[k] = d
      /\ \A j \in DOMAIN calls : j # k => calls'[j] = calls[j]
  BY <1>6
<1>8. IsList(calls') /\ Len(calls') = Len(calls)
  <2> DEFINE S == {calls'[j] : j \in DOMAIN calls}
  <2>1. Len(calls) \in Nat /\ DOMAIN calls = 1..Len(calls)
    BY <1>0, ListFacts
  <2>2. calls' \in [1..Len(calls) -> S]
    BY <1>6, <2>1
  <2>3. calls' \in Seq(S)
    BY <2>1, <2>2, SeqDef
  <2> QED
    BY <2>1, <2>2, <2>3, MadeList, LenProperties
<1>9. /\ DOMAIN repo' = Projects /\ \A p \in Projects : IsRepo(repo'[p])
      /\ c.p # project => repo'[project] = repo[project]
      /\ c.p = project => repo'[project] = now
  <2>1. c.p \in Projects => IsRepo(now)
    BY <1>0, <1>2 DEF Review!After, IsRepo
  <2> QED
    BY <1>0, <1>2, <2>1
<1>10. c.kind = "refresh" => (c.p = project => now.staged = repo[project].staged)
  BY <1>2 DEF Review!After
<1>11. ReviewTyped'
  BY <1>0, <1>3, <1>5, <1>7, <1>8, <1>9 DEF ReviewInv, ReviewTyped
<1>12. ASSUME NEW j \in DOMAIN calls', ~calls'[j].mixed PROVE Alone(calls[j])'
  <2>1. j \in DOMAIN calls /\ ~calls[j].mixed
    BY <1>1, <1>5, <1>7, <1>12
  <2>2. Alone(calls[j])
    BY <2>1 DEF ReviewInv, AloneOrMixed
  <2>3. j = k
    <3>1. DOMAIN calls = 1..1
      BY <1>0, <2>2, ListFacts DEF Alone
    <3> QED
      BY <2>1, <3>1
  <2> QED
    BY <1>1, <1>3, <1>5, <1>7, <1>8, <1>9, <2>2, <2>3 DEF Alone
<1>13. StatusAgrees'
  <2>1. CASE c.p = project /\ c.kind # "refresh"
    <3>1. Changing'
      BY <1>3, <1>5, <1>7, <2>1 DEF Changing
    <3> QED
      BY <3>1 DEF StatusAgrees
  <2>2. CASE ~(c.p = project /\ c.kind # "refresh")
    <3>1. repo'[project].staged = repo[project].staged
      BY <1>9, <1>10, <2>2
    <3>2. Changing => Changing'
      BY <1>1, <1>3, <1>5, <1>7 DEF Changing
    <3> QED
      BY <1>3, <3>1, <3>2 DEF ReviewInv, StatusAgrees, Agrees
  <2> QED
    BY <2>1, <2>2
<1> QED
  BY <1>11, <1>12, <1>13 DEF ReviewInv, AloneOrMixed

(* An answer comes.  The answer to a call that was out alone is what the   *)
(* repository has; one that met another turns crossed, unless it is that   *)
(* of a refresh that failed and says nothing.                              *)
LEMMA AnswerStep ==
  ASSUME ReviewInv, NEW k \in DOMAIN calls, Review!Answer(k)
  PROVE  ReviewInv'
<1>0. /\ IsList(calls) /\ \A j \in DOMAIN calls : IsCall(calls[j])
      /\ IsGit(git) /\ UNCHANGED <<project, repo>>
  BY DEF ReviewInv, ReviewTyped, Review!Answer
<1>1. PICK c : c = calls[k]
  OBVIOUS
<1>2. /\ c.done /\ IsCall(c)
      /\ git' = Review!Landed(git, c)
      /\ crossed' = IF c.ok THEN c.mixed ELSE crossed \/ c.kind # "refresh"
      /\ calls' = Review!RemoveAt(calls, k)
  BY <1>0, <1>1 DEF Review!Answer
<1>3. /\ IsList(calls') /\ Len(calls') = Len(calls) - 1
      /\ \A j \in DOMAIN calls' : \E i \in DOMAIN calls : calls'[j] = calls[i]
      /\ \A i \in DOMAIN calls : i # k => \E j \in DOMAIN calls' : calls'[j] = calls[i]
  BY <1>0, <1>2, ShorterList
<1>4. /\ IsGit(git')
      /\ c.ok => git'.status = c.answer
      /\ ~c.ok => git'.status = git.status /\ git'.known = git.known
  BY <1>0, <1>2 DEF Review!Landed, IsGit
<1>5. ReviewTyped'
  BY <1>0, <1>3, <1>4 DEF ReviewInv, ReviewTyped
<1>6. ASSUME NEW j \in DOMAIN calls' PROVE calls'[j].mixed
  <2>1. PICK i \in DOMAIN calls : calls'[j] = calls[i]
    BY <1>3
  <2>2. Len(calls') \in Nat /\ j \in 1..Len(calls') /\ Len(calls) \in Nat
    BY <1>0, <1>3, ListFacts
  <2>3. Len(calls) # 1
    BY <1>3, <2>2
  <2>4. calls[i].mixed
    BY <2>3 DEF ReviewInv, AloneOrMixed, Alone
  <2> QED
    BY <2>1, <2>4
<1>7. ASSUME git'.known, ~crossed' PROVE Agrees' \/ Changing'
  <2>1. CASE c.ok
    <3>1. Alone(c)
      BY <1>1, <1>2, <1>7, <2>1 DEF ReviewInv, AloneOrMixed
    <3> QED
      BY <1>0, <1>2, <1>4, <2>1, <3>1 DEF Alone, Agrees
  <2>2. CASE ~c.ok
    <3>1. ~crossed /\ c.kind = "refresh" /\ git.known /\ git'.status = git.status
      BY <1>2, <1>4, <1>7, <2>2
    <3>2. CASE Agrees
      BY <1>0, <3>1, <3>2 DEF Agrees
    <3>3. CASE Changing
      <4>1. PICK i \in DOMAIN calls : calls[i].p = project /\ calls[i].kind # "refresh"
        BY <3>3 DEF Changing
      <4>2. i # k
        BY <1>1, <3>1, <4>1
      <4>3. PICK j \in DOMAIN calls' : calls'[j] = calls[i]
        BY <1>3, <4>2
      <4> QED
        BY <1>0, <4>1, <4>3 DEF Changing
    <3> QED
      BY <3>1, <3>2, <3>3 DEF ReviewInv, StatusAgrees
  <2> QED
    BY <2>1, <2>2
<1> QED
  BY <1>5, <1>6, <1>7 DEF ReviewInv, AloneOrMixed, StatusAgrees

LEMMA ArriveStep ==
  ASSUME ReviewInv, NEW p \in Projects, NEW e, Review!Arrive(p, e)
  PROVE  ReviewInv'
<1>1. UNCHANGED <<calls, project, git, crossed>>
  BY DEF Review!Arrive
<1>2. DOMAIN repo = Projects /\ project \in Projects /\ \A q \in Projects : IsRepo(repo[q])
  BY DEF ReviewInv, ReviewTyped
<1>3. PICK x : repo' = [repo EXCEPT ![p].edited = x]
  BY DEF Review!Arrive
<1>4. /\ DOMAIN repo' = Projects
      /\ \A q \in Projects : IsRepo(repo'[q]) /\ repo'[q].staged = repo[q].staged
  BY <1>2, <1>3 DEF IsRepo
<1> QED
  BY <1>1, <1>2, <1>4 DEF ReviewInv, ReviewTyped, AloneOrMixed, Alone, StatusAgrees, Changing, Agrees

LEMMA ReviewStep ==
  ASSUME ReviewInv, [Review!Next]_Review!vars
  PROVE  ReviewInv'
<1>1. ASSUME NEW k \in DOMAIN calls, Review!Answer(k) PROVE ReviewInv'
  BY <1>1, AnswerStep
<1>2. ASSUME NEW k \in DOMAIN calls, NEW fails \in BOOLEAN, Review!Serve(k, fails) PROVE ReviewInv'
  BY <1>2, ServeStep
<1>3. CASE Review!Refresh
  BY <1>3, RefreshStep
<1>4. ASSUME NEW kind \in {"stage", "revert"}, Review!Change(kind) PROVE ReviewInv'
  BY <1>4, ChangeStep
<1>5. CASE Review!Commit
  BY <1>5, CommitStep
<1>6. CASE Review!TypeMessage
  BY <1>6, ReviewLeft DEF Review!TypeMessage
<1>7. ASSUME NEW p \in Projects, Review!Show(p) PROVE ReviewInv'
  BY <1>7, ShowStep
<1>8. ASSUME NEW p \in Projects, Review!RunEnds(p) PROVE ReviewInv'
  BY <1>8, ReviewLeft DEF Review!RunEnds
<1>9. ASSUME NEW m, Review!SetMode(m) PROVE ReviewInv'
  BY <1>9, ReviewLeft DEF Review!SetMode
<1>10. CASE Review!TogglePane
  BY <1>10, ReviewLeft DEF Review!TogglePane
<1>11. CASE Review!RunStarts
  BY <1>11, ReviewLeft DEF Review!RunStarts
<1>12. ASSUME NEW p \in Projects, NEW e, Review!Arrive(p, e) PROVE ReviewInv'
  BY <1>12, ArriveStep
<1>13. ASSUME NEW p, NEW text, Review!Grow(p, text) PROVE ReviewInv'
  BY <1>13, ReviewLeft DEF Review!Grow
<1>14. ASSUME NEW p, Review!Pane(p) PROVE ReviewInv'
  BY <1>14, ReviewLeft DEF Review!Pane
<1>15. CASE \E k \in DOMAIN Review!Changes : Review!Select(k)
  BY <1>14, <1>15 DEF Review!Select
<1>16. CASE \E k \in DOMAIN Review!VisibleNotes : Review!DismissFinding(k)
  BY <1>14, <1>16 DEF Review!DismissFinding
<1>17. CASE Review!RestoreDismissed \/ Review!ToggleReviewed
  BY <1>14, <1>17 DEF Review!RestoreDismissed, Review!ToggleReviewed
<1>18. CASE UNCHANGED Review!vars
  BY <1>18, ReviewLeft DEF Review!vars
<1> QED
  BY <1>1, <1>2, <1>3, <1>4, <1>5, <1>6, <1>7, <1>8, <1>9, <1>10, <1>11, <1>12, <1>13, <1>15, <1>16,
     <1>17, <1>18 DEF Review!Next

LEMMA ReviewInit ==
  ASSUME Review!Init
  PROVE  ReviewInv
<1>1. /\ project \in Projects /\ ~git.known /\ git.loading /\ IsGit(git)
      /\ DOMAIN repo = Projects /\ \A p \in Projects : IsRepo(repo[p])
  BY DEF Review!Init, Review!NoGit, IsGit, IsRepo
<1> DEFINE c == [p |-> project, kind |-> "refresh", path |-> "", mixed |-> FALSE,
                 done |-> FALSE, ok |-> TRUE, answer |-> Review!NoStatus]
<1>2. calls = <<c>>
  BY DEF Review!Init, Review!Call
<1>3. IsCall(c) /\ c.p = project /\ c.kind = "refresh" /\ ~c.done
  BY DEF IsCall
<1> HIDE DEF c
<1>4. calls \in Seq({c}) /\ Len(calls) = 1 /\ DOMAIN calls = {1} /\ calls[1] = c
  BY <1>2
<1>5. IsList(calls)
  BY <1>4, MadeList
<1> QED
  BY <1>1, <1>3, <1>4, <1>5 DEF ReviewInv, ReviewTyped, AloneOrMixed, Alone, StatusAgrees

(* Whatever calls are out at the same time, answered in whatever order or  *)
(* lost: once all are answered, what the pane shows as staged is what the  *)
(* repository of its project has, unless calls crossed or one failed       *)
(* (use-project-review-git.ts and the conditions that disable the buttons).*)
THEOREM StagedIsShown == Review!Spec => []Review!StagedShown
<1>1. Review!Init => ReviewInv
  BY ReviewInit
<1>2. ReviewInv /\ [Review!Next]_Review!vars => ReviewInv'
  BY ReviewStep
<1>3. ReviewInv => Review!StagedShown
  <2> SUFFICES ASSUME ReviewInv, calls = <<>>, git.known, ~crossed PROVE Agrees
    BY DEF Review!StagedShown, Agrees
  <2>1. ~Changing
    BY EmptyList DEF Changing
  <2> QED
    BY <2>1 DEF ReviewInv, StatusAgrees
<1> QED
  BY <1>1, <1>2, <1>3, PTL DEF Review!Spec

-----------------------------------------------------------------------------
(* What is read of a run's output (RunOutput).                             *)

CONSTANTS NoiseTexts, ApprovalTexts, MaxCommands, Scripts, Notices, MaxOut, MaxChunk

VARIABLES lines, sent, run, shownCards, cards, cutoff, title, read, whole

Output == INSTANCE RunOutput WITH surface <- shownCards

(* Induction over numbers is by the smallest counterexample.               *)
LEMMA Smallest ==
  ASSUME NEW T \in SUBSET Nat, T # {}
  PROVE  \E n \in T : \A m \in T : n <= m
<1>1. IsWellFoundedOn(OpToRel(<, Nat), Nat)
  BY NatLessThanWellFounded, Zenon
<1>2. OpToRel(<, Nat) = {ss \in Nat \X Nat : ss[1] < ss[2]}
  BY Zenon DEF OpToRel
<1>3. IsWellFoundedOn({ss \in Nat \X Nat : ss[1] < ss[2]}, Nat)
  BY ONLY <1>1, <1>2, Zenon
<1>4. PICK n \in T : \A m \in T : ~(<<m, n>> \in {ss \in Nat \X Nat : ss[1] < ss[2]})
  BY <1>3, WFMin
<1>5. ASSUME NEW m \in T PROVE n <= m
  <2>1. n \in Nat /\ m \in Nat
    OBVIOUS
  <2>2. <<m, n>> \in Nat \X Nat
    BY <2>1
  <2>3. PICK p : p = <<m, n>>
    OBVIOUS
  <2>4. p[1] = m /\ p[2] = n
    BY <2>3
  <2>5. m < n => p \in {ss \in Nat \X Nat : ss[1] < ss[2]}
    BY <2>2, <2>3, <2>4
  <2>6. ~(m < n)
    BY <1>4, <2>3, <2>5
  <2> QED
    BY <2>1, <2>6
<1> QED
  BY <1>5

(* The place of a token in all that is written.                            *)
Tokens == (Nat \ {0}) \X {"head", "tail", "end"}

Place(t) == 3 * t[1] - (IF t[2] = "end" THEN 0 ELSE IF t[2] = "tail" THEN 1 ELSE 2)

(* The tokens that are kept stand in the order they were written in.       *)
InOrder(out, upto) ==
  /\ out \in Seq(Tokens)
  /\ \A n \in DOMAIN out : Place(out[n]) <= upto
  /\ \A m, n \in DOMAIN out : m < n => Place(out[m]) < Place(out[n])

(* Lines that were read, in their order; the last of them has arrived.     *)
Ordered(list, upto) ==
  /\ list \in Seq(Nat)
  /\ \A k \in DOMAIN list : 3 * list[k] <= upto
  /\ \A j, k \in DOMAIN list : j < k => list[j] < list[k]

(* What is kept after the offset was written after every line of the list. *)
Past(out, offset, list) ==
  \A k \in DOMAIN list, n \in DOMAIN out : n > offset => 3 * list[k] < Place(out[n])

LEMMA Thirds ==
  ASSUME NEW n \in Nat
  PROVE  \E d \in Nat : n \div 3 = d /\ 3 * d <= n /\ n <= 3 * d + 2 /\ (n % 3 = 0 <=> n = 3 * d)
<1>1. n \div 3 \in Nat /\ n % 3 \in 0..2 /\ n = 3 * (n \div 3) + (n % 3)
  OBVIOUS
<1>2. PICK d, r : d = n \div 3 /\ r = n % 3
  OBVIOUS
<1>3. d \in Nat /\ r \in 0..2 /\ n = 3 * d + r
  BY <1>1, <1>2
<1>4. 3 * d <= n /\ n <= 3 * d + 2 /\ (r = 0 <=> n = 3 * d)
  BY <1>3
<1> QED
  BY <1>2, <1>3, <1>4

LEMMA TokenIs ==
  ASSUME NEW n \in Nat \ {0}
  PROVE  Output!Token(n) \in Tokens /\ Place(Output!Token(n)) = n
<1>1. PICK t : t = Output!Token(n)
  OBVIOUS
<1>2. PICK d \in Nat : (n - 1) \div 3 = d /\ 3 * d <= n - 1 /\ n - 1 <= 3 * d + 2
                       /\ ((n - 1) % 3 = 0 <=> n - 1 = 3 * d)
  <2>1. n - 1 \in Nat
    OBVIOUS
  <2> QED
    BY <2>1, Thirds
<1>3. (n - 1) % 3 = (n - 1) - 3 * d
  BY <1>2
<1>4. PICK r \in 0..2 : r = (n - 1) % 3 /\ r = (n - 1) - 3 * d
  BY <1>2, <1>3
<1>5. t = <<d + 1, Output!Parts[r + 1]>>
  BY <1>1, <1>2, <1>4 DEF Output!Token
<1>6. /\ Output!Parts[1] = "head" /\ Output!Parts[2] = "tail" /\ Output!Parts[3] = "end"
  BY DEF Output!Parts
<1>7. t[1] = d + 1 /\ t[2] = Output!Parts[r + 1]
  BY <1>5
<1>8. CASE r = 0
  BY <1>1, <1>4, <1>5, <1>6, <1>7, <1>8 DEF Tokens, Place
<1>9. CASE r = 1
  BY <1>1, <1>4, <1>5, <1>6, <1>7, <1>9 DEF Tokens, Place
<1>10. CASE r = 2
  BY <1>1, <1>4, <1>5, <1>6, <1>7, <1>10 DEF Tokens, Place
<1> QED
  BY <1>8, <1>9, <1>10

LEMMA PlaceIs ==
  ASSUME NEW t \in Tokens
  PROVE  /\ t[1] \in Nat \ {0} /\ Place(t) \in Nat \ {0}
         /\ t = <<t[1], t[2]>>
         /\ Output!IsEnd(t) <=> Place(t) = 3 * t[1]
         /\ 3 * t[1] - 2 <= Place(t) /\ Place(t) <= 3 * t[1]
         /\ t[2] = "head" <=> Place(t) = 3 * t[1] - 2
         /\ t[2] = "tail" <=> Place(t) = 3 * t[1] - 1
  BY DEF Tokens, Place, Output!IsEnd

-----------------------------------------------------------------------------
(* The lines of an output: the recursion of LinesAfter has a solution.     *)

Reads(out, from, list, n) ==
  IF n > from /\ Output!WholeAt(out, n) THEN Append(list, out[n][1]) ELSE list

IsReading(f, out, from, m) ==
  f = [n \in 0..m |-> IF n = 0 THEN <<>>
                      ELSE IF n > from /\ Output!WholeAt(out, n) THEN Append(f[n - 1], out[n][1])
                      ELSE f[n - 1]]

LEMMA ReadingExists ==
  ASSUME NEW out, NEW from, NEW l \in Nat
  PROVE  \E f : IsReading(f, out, from, l)
<1> DEFINE T == {m \in Nat : ~ \E f : IsReading(f, out, from, m)}
<1>1. SUFFICES ASSUME T # {} PROVE FALSE
  OBVIOUS
<1>2. PICK m \in T : \A k \in T : m <= k
  <2>1. T \in SUBSET Nat
    OBVIOUS
  <2> HIDE DEF T
  <2> QED
    BY <1>1, <2>1, Smallest
<1>3. m \in Nat
  OBVIOUS
<1>4. CASE m = 0
  <2>1. IsReading([n \in 0..0 |-> <<>>], out, from, 0)
    BY DEF IsReading
  <2> QED
    BY <1>4, <2>1
<1>5. CASE m # 0
  <2>1. m - 1 \in Nat /\ ~(m <= m - 1)
    BY <1>3, <1>5
  <2>2. PICK f : IsReading(f, out, from, m - 1)
    BY <1>2, <2>1
  <2>3. PICK g : g = [n \in 0..m |-> IF n = m THEN Reads(out, from, f[m - 1], m) ELSE f[n]]
    OBVIOUS
  <2>4. \A n \in 0..(m - 1) : g[n] = f[n]
    BY <1>3, <2>3
  <2>5. ASSUME NEW n \in 0..m
        PROVE  g[n] = IF n = 0 THEN <<>>
                      ELSE IF n > from /\ Output!WholeAt(out, n) THEN Append(g[n - 1], out[n][1])
                      ELSE g[n - 1]
    <3>1. CASE n = m
      <4>1. g[n] = Reads(out, from, f[m - 1], m) /\ g[m - 1] = f[m - 1]
        BY <1>3, <1>5, <2>3, <2>4, <3>1
      <4> QED
        BY <1>5, <3>1, <4>1 DEF Reads
    <3>2. CASE n # m
      <4>1. n \in 0..(m - 1)
        BY <1>3, <3>2
      <4>2. n # 0 => n - 1 \in 0..(m - 1)
        BY <4>1
      <4>3. f[n] = IF n = 0 THEN <<>>
                   ELSE IF n > from /\ Output!WholeAt(out, n) THEN Append(f[n - 1], out[n][1])
                   ELSE f[n - 1]
        BY <2>2, <4>1 DEF IsReading
      <4> QED
        BY <2>4, <4>1, <4>2, <4>3
    <3> QED
      BY <3>1, <3>2
  <2>6. IsReading(g, out, from, m)
    <3>1. g = [n \in 0..m |-> g[n]]
      BY <2>3
    <3> QED
      BY <2>5, <3>1 DEF IsReading
  <2> QED
    BY <2>6
<1> QED
  BY <1>4, <1>5

LEMMA ReadingIs ==
  ASSUME NEW out, Len(out) \in Nat, NEW from
  PROVE  \E f : /\ Output!LinesAfter(out, from) = f[Len(out)]
                /\ f[0] = <<>>
                /\ \A n \in 1..Len(out) : f[n] = Reads(out, from, f[n - 1], n)
<1>1. PICK h : IsReading(h, out, from, Len(out))
  BY ReadingExists
<1>2. PICK f : f = CHOOSE g : IsReading(g, out, from, Len(out))
  OBVIOUS
<1>3. IsReading(f, out, from, Len(out))
  BY <1>1, <1>2
<1>4. Output!LinesAfter(out, from) = f[Len(out)]
  BY <1>2 DEF Output!LinesAfter, IsReading
<1>5. f[0] = <<>>
  BY <1>3 DEF IsReading
<1>6. ASSUME NEW n \in 1..Len(out) PROVE f[n] = Reads(out, from, f[n - 1], n)
  <2>1. n \in 0..Len(out) /\ n # 0
    OBVIOUS
  <2> QED
    BY <1>3, <2>1 DEF IsReading, Reads
<1> QED
  BY <1>4, <1>5, <1>6

(* The lines that were found among the first n tokens after from.          *)
Found(list, out, from, n) ==
  /\ list \in Seq(Nat)
  /\ \A k \in DOMAIN list :
       \E m \in 1..n : m > from /\ Output!IsEnd(out[m]) /\ list[k] = out[m][1]
  /\ \A j, k \in DOMAIN list : j < k => list[j] < list[k]

LEMMA FoundStep ==
  ASSUME NEW out, NEW upto, InOrder(out, upto), NEW from, NEW n \in 1..Len(out), NEW list,
         Found(list, out, from, n - 1)
  PROVE  Found(Reads(out, from, list, n), out, from, n)
<1>1. /\ out \in Seq(Tokens) /\ n \in Nat \ {0} /\ n \in DOMAIN out
      /\ 1..(n - 1) \subseteq 1..n /\ 1..(n - 1) \subseteq DOMAIN out
  BY DEF InOrder
<1>2. CASE n > from /\ Output!WholeAt(out, n)
  <2>1. PICK l : l = out[n][1]
    OBVIOUS
  <2>2. PICK new : new = Append(list, l)
    OBVIOUS
  <2>3. Reads(out, from, list, n) = new
    BY <1>2, <2>1, <2>2 DEF Reads
  <2>4. Output!IsEnd(out[n])
    BY <1>2 DEF Output!WholeAt
  <2>5. out[n] \in Tokens
    BY <1>1
  <2>6. l \in Nat /\ Place(out[n]) = 3 * l
    BY <2>1, <2>4, <2>5, PlaceIs
  <2>7. /\ new \in Seq(Nat) /\ Len(new) = Len(list) + 1 /\ new[Len(list) + 1] = l
        /\ \A k \in 1..Len(list) : new[k] = list[k]
        /\ Len(list) \in Nat /\ DOMAIN list = 1..Len(list) /\ DOMAIN new = 1..(Len(list) + 1)
    BY <2>2, <2>6 DEF Found
  <2>8. ASSUME NEW k \in 1..Len(list) PROVE list[k] < l /\ list[k] \in Nat
    <3>1. PICK m \in 1..(n - 1) : Output!IsEnd(out[m]) /\ list[k] = out[m][1]
      BY <2>7, <2>8 DEF Found
    <3>2. m \in DOMAIN out /\ out[m] \in Tokens /\ m < n
      BY <1>1, <3>1
    <3>3. Place(out[m]) = 3 * list[k] /\ list[k] \in Nat
      BY <3>1, <3>2, PlaceIs
    <3>4. Place(out[m]) < Place(out[n])
      BY <1>1, <3>2 DEF InOrder
    <3> QED
      BY <2>6, <3>3, <3>4
  <2>9. ASSUME NEW k \in DOMAIN new
        PROVE  \E m \in 1..n : m > from /\ Output!IsEnd(out[m]) /\ new[k] = out[m][1]
    <3>1. CASE k \in 1..Len(list)
      BY <1>1, <2>7, <3>1 DEF Found
    <3>2. CASE k = Len(list) + 1
      BY <1>1, <1>2, <2>1, <2>4, <2>7, <3>2
    <3> QED
      BY <2>7, <3>1, <3>2
  <2>10. ASSUME NEW j \in DOMAIN new, NEW k \in DOMAIN new, j < k PROVE new[j] < new[k]
    <3>1. j \in 1..Len(list)
      BY <2>7, <2>10
    <3>2. CASE k \in 1..Len(list)
      BY <2>7, <2>10, <3>1, <3>2 DEF Found
    <3>3. CASE k = Len(list) + 1
      BY <2>7, <2>8, <3>1, <3>3
    <3> QED
      BY <2>7, <3>2, <3>3
  <2> QED
    BY <2>3, <2>7, <2>9, <2>10 DEF Found
<1>3. CASE ~(n > from /\ Output!WholeAt(out, n))
  <2>1. Reads(out, from, list, n) = list
    BY <1>3 DEF Reads
  <2> QED
    BY <1>1, <2>1 DEF Found
<1> QED
  BY <1>2, <1>3

LEMMA LinesFound ==
  ASSUME NEW out, NEW upto, InOrder(out, upto), NEW from
  PROVE  Found(Output!LinesAfter(out, from), out, from, Len(out))
<1>1. Len(out) \in Nat
  BY DEF InOrder
<1>2. PICK f : /\ Output!LinesAfter(out, from) = f[Len(out)]
               /\ f[0] = <<>>
               /\ \A n \in 1..Len(out) : f[n] = Reads(out, from, f[n - 1], n)
  BY <1>1, ReadingIs
<1> DEFINE T == {n \in Nat : n <= Len(out) /\ ~Found(f[n], out, from, n)}
<1>3. T = {}
  <2>1. SUFFICES ASSUME T # {} PROVE FALSE
    OBVIOUS
  <2>2. PICK m \in T : \A k \in T : m <= k
    <3>1. T \in SUBSET Nat
      OBVIOUS
    <3> HIDE DEF T
    <3> QED
      BY <2>1, <3>1, Smallest
  <2>3. m \in Nat /\ m <= Len(out) /\ ~Found(f[m], out, from, m)
    OBVIOUS
  <2>4. m # 0
    <3>1. Found(<<>>, out, from, 0)
      BY DEF Found
    <3> QED
      BY <1>2, <2>3, <3>1
  <2>5. m - 1 \in Nat /\ ~(m <= m - 1) /\ m - 1 <= Len(out) /\ m \in 1..Len(out)
    BY <1>1, <2>3, <2>4
  <2>6. Found(f[m - 1], out, from, m - 1)
    BY <2>2, <2>5
  <2>7. Found(Reads(out, from, f[m - 1], m), out, from, m)
    BY <2>5, <2>6, FoundStep
  <2> QED
    BY <1>2, <2>3, <2>5, <2>7
<1>4. Found(f[Len(out)], out, from, Len(out))
  BY <1>1, <1>3
<1> QED
  BY <1>2, <1>4

-----------------------------------------------------------------------------
(* One reading.                                                            *)

LEMMA LargestOf ==
  ASSUME NEW n \in Nat, NEW T \in SUBSET (1..n), T # {}
  PROVE  Output!Max(T) \in T /\ \A k \in T : k <= Output!Max(T)
<1> DEFINE R == {n - k : k \in T}
<1>1. R \in SUBSET Nat /\ R # {}
  OBVIOUS
<1>2. PICK r \in R : \A k \in R : r <= k
  <2> HIDE DEF R
  <2> QED
    BY <1>1, Smallest
<1>3. PICK x \in T : r = n - x
  OBVIOUS
<1>4. ASSUME NEW k \in T PROVE x >= k
  <2>1. n - k \in R /\ k \in 1..n /\ x \in 1..n
    BY <1>3
  <2>2. r <= n - k
    BY <1>2, <2>1
  <2> QED
    BY <1>3, <2>1, <2>2
<1>5. \E y \in T : \A k \in T : y >= k
  BY <1>4
<1>6. PICK y : y = Output!Max(T)
  OBVIOUS
<1>7. y \in T /\ \A k \in T : y >= k
  BY <1>5, <1>6 DEF Output!Max
<1>8. \A k \in T : k <= y
  BY <1>7
<1> QED
  BY <1>6, <1>7, <1>8

LEMMA SmallestOf ==
  ASSUME NEW n \in Nat, NEW T \in SUBSET (1..n), T # {}
  PROVE  Output!Min(T) \in T
<1>1. PICK x \in T : \A k \in T : x <= k
  <2>1. T \in SUBSET Nat
    OBVIOUS
  <2> QED
    BY <2>1, Smallest
<1> QED
  BY <1>1 DEF Output!Min

(* Where the reading stops and what it finds.                              *)
Stops(out, offset, p) ==
  \E from \in offset..Len(out), last \in 0..Len(out) :
    /\ \A m \in DOMAIN out : Output!IsEnd(out[m]) => m <= last
    /\ last # 0 => Output!IsEnd(out[last])
    /\ offset = 0 \/ Output!IsEnd(out[offset]) => from = offset
    /\ \/ p.next = offset /\ p.lines = <<>> /\ offset # 0 /\ ~Output!IsEnd(out[offset])
       \/ /\ p.next = IF last > from THEN last ELSE from
          /\ p.lines = Output!LinesAfter(out, from)

LEMMA ParseIs ==
  ASSUME NEW out, NEW upto, InOrder(out, upto), NEW offset \in 0..Len(out)
  PROVE  Stops(out, offset, Output!ParseIncremental(out, offset))
<1>1. out \in Seq(Tokens) /\ Len(out) \in Nat /\ DOMAIN out = 1..Len(out)
  BY DEF InOrder
<1>2. PICK tail : tail = SubSeq(out, offset + 1, Len(out))
  OBVIOUS
<1>3. Len(tail) \in Nat /\ Len(tail) = Len(out) - offset
  <2>1. offset + 1 \in Int /\ Len(out) \in Int /\ \A k \in (offset + 1)..Len(out) : out[k] \in Tokens
    BY <1>1
  <2>2. Len(tail) = IF offset + 1 <= Len(out) THEN Len(out) - (offset + 1) + 1 ELSE 0
    BY <1>1, <1>2, <2>1, SubSeqProperties
  <2>3. CASE offset + 1 <= Len(out)
    BY <1>1, <2>2, <2>3
  <2>4. CASE ~(offset + 1 <= Len(out))
    <3>1. PICK n \in Nat : n = Len(out)
      BY <1>1
    <3>2. offset \in 0..n /\ ~(offset + 1 <= n)
      BY <2>4, <3>1
    <3>3. offset = n /\ n - offset = 0
      BY <3>2
    <3>4. Len(tail) = 0
      BY <2>2, <2>4
    <3> QED
      BY <3>1, <3>3, <3>4
  <2> QED
    BY <2>3, <2>4
<1>4. PICK rest : rest = Output!SelectInSeq(tail, Output!IsEnd)
  OBVIOUS
<1>5. rest \in 0..Len(tail)
  <2> DEFINE T == {k \in 1..Len(tail) : Output!IsEnd(tail[k])}
  <2>1. rest = IF T # {} THEN Output!Min(T) ELSE 0
    BY <1>4 DEF Output!SelectInSeq
  <2>2. T # {} => Output!Min(T) \in T
    <3>1. T \in SUBSET (1..Len(tail))
      OBVIOUS
    <3> HIDE DEF T
    <3> QED
      BY <1>3, <3>1, SmallestOf
  <2> QED
    BY <1>3, <2>1, <2>2
<1>6. PICK last : last = Output!SelectLastInSeq(out, Output!IsEnd)
  OBVIOUS
<1>7. /\ last \in 0..Len(out)
      /\ \A m \in DOMAIN out : Output!IsEnd(out[m]) => m <= last
      /\ last # 0 => Output!IsEnd(out[last])
  <2> DEFINE T == {k \in 1..Len(out) : Output!IsEnd(out[k])}
  <2>1. last = IF T # {} THEN Output!Max(T) ELSE 0
    BY <1>6 DEF Output!SelectLastInSeq
  <2>2. T # {} => Output!Max(T) \in T /\ \A k \in T : k <= Output!Max(T)
    <3>1. T \in SUBSET (1..Len(out))
      OBVIOUS
    <3> HIDE DEF T
    <3> QED
      BY <1>1, <3>1, LargestOf
  <2>3. CASE T = {}
    BY <1>1, <2>1, <2>3
  <2>4. CASE T # {}
    <3>1. last \in T /\ \A k \in T : k <= last
      BY <2>1, <2>2, <2>4
    <3> QED
      BY <1>1, <3>1
  <2> QED
    BY <2>3, <2>4
<1>8. PICK within \in BOOLEAN : within = (offset > 0 /\ ~Output!IsEnd(out[offset]))
  OBVIOUS
<1>9. PICK from : from = IF within THEN offset + rest ELSE offset
  OBVIOUS
<1>10. from \in offset..Len(out)
  BY <1>1, <1>3, <1>5, <1>9
<1>11. PICK p : p = Output!ParseIncremental(out, offset)
  OBVIOUS
<1>12. ~(offset > Len(out)) /\ (offset > 0 <=> offset # 0)
  BY <1>1
<1>13. p = IF within /\ rest = 0 THEN [next |-> offset, lines |-> <<>>]
           ELSE [next |-> IF last > from THEN last ELSE from,
                 lines |-> Output!LinesAfter(out, from)]
  BY <1>2, <1>4, <1>6, <1>8, <1>9, <1>11, <1>12 DEF Output!ParseIncremental
<1>14. offset = 0 \/ Output!IsEnd(out[offset]) => from = offset
  BY <1>8, <1>9, <1>12
<1>15. CASE within /\ rest = 0
  <2>1. p.next = offset /\ p.lines = <<>> /\ offset # 0 /\ ~Output!IsEnd(out[offset])
    BY <1>8, <1>12, <1>13, <1>15
  <2>2. Stops(out, offset, p)
    BY <1>7, <1>10, <1>14, <2>1 DEF Stops
  <2> QED
    BY <1>11, <2>2
<1>16. CASE ~(within /\ rest = 0)
  <2>1. p.next = (IF last > from THEN last ELSE from) /\ p.lines = Output!LinesAfter(out, from)
    BY <1>13, <1>16
  <2>2. Stops(out, offset, p)
    BY <1>7, <1>10, <1>14, <2>1 DEF Stops
  <2> QED
    BY <1>11, <2>2
<1> QED
  BY <1>15, <1>16

(* Whatever was cut off, the lines that are read now come after all that   *)
(* were read before.                                                       *)
LEMMA ReadInOrder ==
  ASSUME NEW out, NEW upto \in Nat, InOrder(out, upto), NEW offset \in 0..Len(out), NEW list,
         Ordered(list, upto), Past(out, offset, list)
  PROVE  LET p == Output!ParseIncremental(out, offset)
         IN /\ p.next \in 0..Len(out)
            /\ Ordered(list \o p.lines, upto)
            /\ Past(out, p.next, list \o p.lines)
<1>1. out \in Seq(Tokens) /\ Len(out) \in Nat /\ DOMAIN out = 1..Len(out)
  BY DEF InOrder
<1>2. PICK p : p = Output!ParseIncremental(out, offset)
  OBVIOUS
<1>a. Stops(out, offset, p)
  BY <1>2, ParseIs
<1>b. PICK from \in offset..Len(out), last \in 0..Len(out) :
        /\ \A m \in DOMAIN out : Output!IsEnd(out[m]) => m <= last
        /\ \/ p.next = offset /\ p.lines = <<>>
           \/ /\ p.next = IF last > from THEN last ELSE from
              /\ p.lines = Output!LinesAfter(out, from)
  BY <1>a DEF Stops
<1>3. CASE p.next = offset /\ p.lines = <<>>
  <2>1. list \o p.lines = list
    <3>1. list \in Seq(Nat)
      BY DEF Ordered
    <3> QED
      BY <1>3, <3>1, ConcatEmptySeq
  <2> QED
    BY <1>1, <1>2, <1>3, <2>1
<1>4. CASE p.next = (IF last > from THEN last ELSE from) /\ p.lines = Output!LinesAfter(out, from)
  <2>1. PICK new, next : new = p.lines /\ next = p.next
    OBVIOUS
  <2>2. Found(new, out, from, Len(out))
    BY <1>4, <2>1, LinesFound
  <2>3. next \in 0..Len(out) /\ next >= from /\ next >= last /\ from >= offset
    BY <1>1, <1>4, <2>1
  <2>4. PICK all : all = list \o new
    OBVIOUS
  <2>5. /\ all \in Seq(Nat)
        /\ Len(list) \in Nat /\ Len(new) \in Nat
        /\ DOMAIN list = 1..Len(list) /\ DOMAIN new = 1..Len(new)
        /\ DOMAIN all = 1..(Len(list) + Len(new))
        /\ \A k \in 1..Len(list) : all[k] = list[k]
        /\ \A k \in (Len(list) + 1)..(Len(list) + Len(new)) :
             k - Len(list) \in DOMAIN new /\ all[k] = new[k - Len(list)]
    BY <2>2, <2>4 DEF Ordered, Found
  <2>6. ASSUME NEW k \in DOMAIN new
        PROVE  \E m \in DOMAIN out : /\ m > offset /\ m <= next /\ new[k] \in Nat
                                     /\ Place(out[m]) = 3 * new[k]
    <3>1. PICK m \in 1..Len(out) : m > from /\ Output!IsEnd(out[m]) /\ new[k] = out[m][1]
      BY <2>2 DEF Found
    <3>2. m \in DOMAIN out /\ out[m] \in Tokens
      BY <1>1
    <3>3. Place(out[m]) = 3 * new[k] /\ new[k] \in Nat
      BY <3>1, <3>2, PlaceIs
    <3>4. m <= last
      BY <1>b, <3>1, <3>2
    <3>5. m <= next /\ m > offset
      BY <1>1, <2>3, <3>1, <3>2, <3>4
    <3> QED
      BY <3>2, <3>3, <3>5
  <2>7. ASSUME NEW k \in DOMAIN new PROVE 3 * new[k] <= upto
    BY <2>6 DEF InOrder
  <2>8. ASSUME NEW j \in DOMAIN list, NEW k \in DOMAIN new PROVE list[j] < new[k]
    <3>1. PICK m \in DOMAIN out : m > offset /\ new[k] \in Nat /\ Place(out[m]) = 3 * new[k]
      BY <2>6
    <3>2. 3 * list[j] < 3 * new[k]
      BY <3>1 DEF Past
    <3>3. list[j] \in Nat
      <4>1. list \in Seq(Nat)
        BY DEF Ordered
      <4> QED
        BY <4>1
    <3> QED
      BY <3>1, <3>2, <3>3
  <2>9. Ordered(all, upto)
    <3>1. ASSUME NEW k \in DOMAIN all PROVE 3 * all[k] <= upto
      <4>1. CASE k \in 1..Len(list)
        BY <2>5, <4>1 DEF Ordered
      <4>2. CASE k \in (Len(list) + 1)..(Len(list) + Len(new))
        BY <2>5, <2>7, <4>2
      <4> QED
        BY <2>5, <4>1, <4>2
    <3>2. ASSUME NEW j \in DOMAIN all, NEW k \in DOMAIN all, j < k PROVE all[j] < all[k]
      <4>1. CASE k \in 1..Len(list)
        <5>1. j \in 1..Len(list)
          BY <2>5, <3>2, <4>1
        <5> QED
          BY <2>5, <3>2, <4>1, <5>1 DEF Ordered
      <4>2. CASE j \in 1..Len(list) /\ k \in (Len(list) + 1)..(Len(list) + Len(new))
        BY <2>5, <2>8, <4>2
      <4>3. CASE /\ j \in (Len(list) + 1)..(Len(list) + Len(new))
                 /\ k \in (Len(list) + 1)..(Len(list) + Len(new))
        <5>1. PICK a, b : a = j - Len(list) /\ b = k - Len(list)
          OBVIOUS
        <5>2. a \in DOMAIN new /\ b \in DOMAIN new /\ all[j] = new[a] /\ all[k] = new[b]
          BY <2>5, <4>3, <5>1
        <5>3. a < b
          BY <2>5, <3>2, <4>3, <5>1
        <5> QED
          BY <2>2, <5>2, <5>3 DEF Found
      <4>4. /\ j \in 1..Len(list) \/ j \in (Len(list) + 1)..(Len(list) + Len(new))
            /\ k \in 1..Len(list) \/ k \in (Len(list) + 1)..(Len(list) + Len(new))
        BY <2>5
      <4> QED
        BY <4>1, <4>2, <4>3, <4>4
    <3> QED
      BY <2>5, <3>1, <3>2 DEF Ordered
  <2>10. Past(out, next, all)
    <3>1. SUFFICES ASSUME NEW k \in DOMAIN all, NEW n \in DOMAIN out, n > next
                   PROVE  3 * all[k] < Place(out[n])
      BY DEF Past
    <3>2. n > offset
      BY <1>1, <2>3, <3>1
    <3>3. CASE k \in 1..Len(list)
      BY <2>5, <3>2, <3>3 DEF Past
    <3>4. CASE k \in (Len(list) + 1)..(Len(list) + Len(new))
      <4>1. PICK a : a = k - Len(list)
        OBVIOUS
      <4>2. a \in DOMAIN new /\ all[k] = new[a]
        BY <2>5, <3>4, <4>1
      <4>3. PICK m \in DOMAIN out : m <= next /\ Place(out[m]) = 3 * new[a]
        BY <2>6, <4>2
      <4>4. m < n
        BY <1>1, <2>3, <3>1, <4>3
      <4>5. Place(out[m]) < Place(out[n])
        BY <4>4 DEF InOrder
      <4> QED
        BY <4>2, <4>3, <4>5
    <3> QED
      BY <2>5, <3>3, <3>4
  <2> QED
    BY <1>2, <2>1, <2>3, <2>4, <2>9, <2>10
<1> QED
  BY <1>2, <1>b, <1>3, <1>4

-----------------------------------------------------------------------------
(* Reading what was kept without a gap.                                    *)

(* The lines from the one after d to e.                                    *)
From(d, e) == [k \in 1..(e - d) |-> d + k]

LEMMA FromSeq ==
  ASSUME NEW d \in Nat, NEW e \in Nat, d <= e
  PROVE  From(d, e) \in Seq(Nat) /\ Len(From(d, e)) = e - d
<1>1. PICK n \in Nat : n = e - d
  OBVIOUS
<1>2. From(d, e) = [k \in 1..n |-> d + k]
  BY <1>1 DEF From
<1>3. \A k \in 1..n : d + k \in Nat
  OBVIOUS
<1> QED
  BY <1>1, <1>2, <1>3

LEMMA FromIs ==
  ASSUME NEW d \in Nat, NEW e \in Nat
  PROVE  /\ e <= d => From(d, e) = <<>>
         /\ d <= e => From(0, d) \o From(d, e) = From(0, e)
         /\ d < e => Append(From(d, e - 1), e) = From(d, e)
         /\ d <= e => From(d, e) \in Seq(Nat) /\ Len(From(d, e)) = e - d
<1>1. e <= d => From(d, e) = <<>>
  BY DEF From
<1>2. ASSUME d <= e PROVE From(d, e) \in Seq(Nat) /\ Len(From(d, e)) = e - d
  BY <1>2, FromSeq
<1>3. ASSUME d <= e PROVE From(0, d) \o From(d, e) = From(0, e)
  <2>1. PICK s, t, u : s = From(0, d) /\ t = From(d, e) /\ u = From(0, e)
    OBVIOUS
  <2>2. /\ s \in Seq(Nat) /\ Len(s) = d /\ t \in Seq(Nat) /\ Len(t) = e - d
        /\ u \in Seq(Nat) /\ Len(u) = e
    <3>1. From(0, d) \in Seq(Nat) /\ Len(From(0, d)) = d - 0
      BY FromSeq
    <3>2. From(0, e) \in Seq(Nat) /\ Len(From(0, e)) = e - 0
      BY FromSeq
    <3>3. From(d, e) \in Seq(Nat) /\ Len(From(d, e)) = e - d
      BY <1>3, FromSeq
    <3> QED
      BY <2>1, <3>1, <3>2, <3>3
  <2>3. s \o t \in Seq(Nat) /\ Len(s \o t) = e
    <3>1. s \o t \in Seq(Nat) /\ Len(s \o t) = Len(s) + Len(t)
      BY <2>2, ConcatProperties
    <3> QED
      BY <1>3, <2>2, <3>1
  <2>4. ASSUME NEW k \in 1..e PROVE (s \o t)[k] = u[k]
    <3>1. u[k] = k
      BY <2>1 DEF From
    <3>2. CASE k <= d
      BY <2>1, <2>2, <3>1, <3>2 DEF From
    <3>3. CASE ~(k <= d)
      <4>1. (s \o t)[k] = t[k - d]
        <5>1. k \in 1..(Len(s) + Len(t)) /\ ~(k <= Len(s))
          BY <1>3, <2>2, <3>3
        <5>2. (s \o t)[k] = IF k <= Len(s) THEN s[k] ELSE t[k - Len(s)]
          BY <2>2, <5>1, ConcatProperties
        <5> QED
          BY <2>2, <5>1, <5>2
      <4>2. k - d \in 1..(e - d)
        BY <3>3
      <4>3. t[k - d] = d + (k - d)
        BY <2>1, <4>2 DEF From
      <4> QED
        BY <3>1, <4>1, <4>3
    <3> QED
      BY <3>2, <3>3
  <2>5. s \o t = u
    BY <2>2, <2>3, <2>4, SeqEqual
  <2> QED
    BY <2>1, <2>5
<1>4. ASSUME d < e PROVE Append(From(d, e - 1), e) = From(d, e)
  <2>1. e - 1 \in Nat /\ d <= e - 1
    BY <1>4
  <2>2. PICK s, t : s = From(d, e - 1) /\ t = From(d, e)
    OBVIOUS
  <2>3. s \in Seq(Nat) /\ Len(s) = e - 1 - d /\ t \in Seq(Nat) /\ Len(t) = e - d
    <3>1. From(d, e) \in Seq(Nat) /\ Len(From(d, e)) = e - d
      BY <1>4, FromSeq
    <3>2. From(d, e - 1) \in Seq(Nat) /\ Len(From(d, e - 1)) = e - 1 - d
      BY <2>1, FromSeq
    <3> QED
      BY <2>2, <3>1, <3>2
  <2>4. Append(s, e) \in Seq(Nat) /\ Len(Append(s, e)) = e - d
    BY <2>3
  <2>5. ASSUME NEW k \in 1..(e - d) PROVE Append(s, e)[k] = t[k]
    <3>1. t[k] = d + k
      BY <2>2 DEF From
    <3>2. CASE k = e - d
      <4>1. Append(s, e)[k] = e
        BY <2>3, <3>2
      <4> QED
        BY <3>1, <3>2, <4>1
    <3>3. CASE k # e - d
      <4>1. k \in 1..(e - 1 - d)
        BY <3>3
      <4>2. Append(s, e)[k] = s[k]
        BY <2>3, <4>1
      <4>3. s[k] = d + k
        BY <2>2, <4>1 DEF From
      <4> QED
        BY <3>1, <4>2, <4>3
    <3> QED
      BY <3>2, <3>3
  <2>6. Append(s, e) = t
    BY <2>3, <2>4, <2>5, SeqEqual
  <2> QED
    BY <2>2, <2>6
<1> QED
  BY <1>1, <1>2, <1>3, <1>4

(* The tokens of a sequence lie at the places after q.                     *)
Lies(out, q) == out \in Seq(Tokens) /\ \A n \in DOMAIN out : Place(out[n]) = q + n

LEMMA EndsLie ==
  ASSUME NEW out, NEW q \in Nat, Lies(out, q), NEW n \in DOMAIN out, NEW x \in Nat, q + n = 3 * x
  PROVE  Output!IsEnd(out[n]) /\ out[n][1] = x
<1>1. out[n] \in Tokens /\ Place(out[n]) = q + n /\ n \in Nat
  BY DEF Lies
<1>2. PICK t \in Tokens : t = out[n]
  BY <1>1
<1>3. t[1] \in Nat /\ 3 * t[1] - 2 <= 3 * x /\ 3 * x <= 3 * t[1]
  BY <1>1, <1>2, PlaceIs
<1>4. t[1] = x
  BY <1>3
<1>5. Place(t) = 3 * t[1]
  BY <1>1, <1>2, <1>4
<1> QED
  BY <1>2, <1>4, <1>5, PlaceIs

LEMMA EndLiesAt ==
  ASSUME NEW out, NEW q \in Nat, Lies(out, q), NEW n \in DOMAIN out, Output!IsEnd(out[n])
  PROVE  out[n][1] \in Nat /\ q + n = 3 * out[n][1]
<1>1. out[n] \in Tokens /\ Place(out[n]) = q + n
  BY DEF Lies
<1> QED
  BY <1>1, PlaceIs

(* A line that stands after a break is whole.                              *)
LEMMA LineLies ==
  ASSUME NEW out, NEW q \in Nat, Lies(out, q), NEW n \in DOMAIN out, NEW x \in Nat, q + n = 3 * x,
         n >= 3
  PROVE  Output!WholeAt(out, n)
<1>1. out \in Seq(Tokens) /\ n \in 1..Len(out) /\ Len(out) \in Nat
  BY DEF Lies
<1>2. Output!IsEnd(out[n]) /\ out[n][1] = x
  BY EndsLie
<1>3. ASSUME NEW i \in 1..2 PROVE n - i \in DOMAIN out /\ out[n - i] \in Tokens /\ Place(out[n - i]) = 3 * x - i
  <2>1. n - i \in DOMAIN out
    BY <1>1
  <2>2. Place(out[n - i]) = q + (n - i)
    BY <2>1 DEF Lies
  <2>3. q + (n - i) = 3 * x - i
    <3>1. n \in Nat /\ i \in Nat
      BY <1>1
    <3>2. q + n - i = q + (n - i)
      BY <3>1
    <3> QED
      BY <3>1, <3>2
  <2>4. out[n - i] \in Tokens
    BY <1>1, <2>1
  <2> QED
    BY <2>1, <2>2, <2>3, <2>4
<1>4. out[n - 1] = <<x, "tail">>
  <2>1. PICK t \in Tokens : t = out[n - 1] /\ Place(t) = 3 * x - 1
    BY <1>3
  <2>2. /\ t[1] \in Nat /\ 3 * t[1] - 2 <= 3 * x - 1 /\ 3 * x - 1 <= 3 * t[1] /\ t = <<t[1], t[2]>>
        /\ t[2] = "tail" <=> 3 * x - 1 = 3 * t[1] - 1
    BY <2>1, PlaceIs
  <2>3. t[1] = x
    BY <2>2
  <2>4. t[2] = "tail"
    BY <2>2, <2>3
  <2> QED
    BY <2>1, <2>2, <2>3, <2>4
<1>5. out[n - 2] = <<x, "head">>
  <2>1. PICK t \in Tokens : t = out[n - 2] /\ Place(t) = 3 * x - 2
    BY <1>3
  <2>2. /\ t[1] \in Nat /\ 3 * t[1] - 2 <= 3 * x - 2 /\ 3 * x - 2 <= 3 * t[1] /\ t = <<t[1], t[2]>>
        /\ t[2] = "head" <=> 3 * x - 2 = 3 * t[1] - 2
    BY <2>1, PlaceIs
  <2>3. t[1] = x
    BY <2>2
  <2>4. t[2] = "head"
    BY <2>2, <2>3
  <2> QED
    BY <2>1, <2>2, <2>3, <2>4
<1>6. n = 3 \/ Output!IsEnd(out[n - 3])
  <2>1. CASE n > 3
    <3>1. n - 3 \in DOMAIN out
      BY <1>1, <2>1
    <3>2. x - 1 \in Nat /\ q + (n - 3) = 3 * (x - 1)
      BY <1>1, <2>1
    <3>3. PICK m \in DOMAIN out, y \in Nat : m = n - 3 /\ q + m = 3 * y
      BY <3>1, <3>2
    <3>4. Output!IsEnd(out[m])
      BY <3>3, EndsLie
    <3> QED
      BY <3>3, <3>4
  <2> QED
    BY <1>1, <2>1
<1> QED
  BY <1>2, <1>4, <1>5, <1>6 DEF Output!WholeAt

LEMMA LyingStep ==
  ASSUME NEW out, NEW q \in Nat, Lies(out, q), NEW d \in Nat, NEW offset \in 0..Len(out),
         q + offset = 3 * d, NEW n \in 1..Len(out), NEW x \in Nat,
         3 * x <= q + (n - 1), q + (n - 1) <= 3 * x + 2
  PROVE  \E y \in Nat : /\ 3 * y <= q + n /\ q + n <= 3 * y + 2
                        /\ Reads(out, offset, From(d, x), n) = From(d, y)
<1>1. out \in Seq(Tokens) /\ n \in DOMAIN out /\ n \in Nat /\ offset \in Nat /\ Len(out) \in Nat
  BY DEF Lies
<1>2. CASE q + n = 3 * (x + 1) /\ n > offset
  <2>1. 3 * (x + 1) > 3 * d
    BY <1>1, <1>2
  <2>2. d < x + 1 /\ x + 1 \in Nat
    BY <2>1
  <2>3. n >= 3
    BY <1>1, <1>2, <2>2
  <2>4. Output!WholeAt(out, n) /\ out[n][1] = x + 1
    BY <1>1, <1>2, <2>2, <2>3, LineLies, EndsLie
  <2>5. Reads(out, offset, From(d, x), n) = Append(From(d, x), x + 1)
    BY <1>2, <2>4 DEF Reads
  <2>6. Append(From(d, (x + 1) - 1), x + 1) = From(d, x + 1)
    BY <2>2, FromIs
  <2>7. (x + 1) - 1 = x
    OBVIOUS
  <2>8. 3 * (x + 1) <= q + n /\ q + n <= 3 * (x + 1) + 2
    BY <1>2
  <2> QED
    BY <2>2, <2>5, <2>6, <2>7, <2>8
<1>3. CASE q + n = 3 * (x + 1) /\ ~(n > offset)
  <2>1. Reads(out, offset, From(d, x), n) = From(d, x)
    BY <1>3 DEF Reads
  <2>2. x + 1 <= d /\ x <= d /\ x + 1 \in Nat
    BY <1>1, <1>3
  <2>3. From(d, x) = <<>> /\ From(d, x + 1) = <<>>
    BY <2>2, FromIs
  <2>4. 3 * (x + 1) <= q + n /\ q + n <= 3 * (x + 1) + 2
    BY <1>3
  <2> QED
    BY <2>1, <2>2, <2>3, <2>4
<1>4. CASE q + n # 3 * (x + 1)
  <2>1. 3 * x <= q + n /\ q + n <= 3 * x + 2 /\ q + n > 3 * x
    BY <1>1, <1>4
  <2>2. ~Output!IsEnd(out[n])
    <3>1. ASSUME Output!IsEnd(out[n]) PROVE FALSE
      <4>1. PICK l \in Nat : q + n = 3 * l
        BY <1>1, <3>1, EndLiesAt
      <4> QED
        BY <2>1, <4>1
    <3> QED
      BY <3>1
  <2>3. Reads(out, offset, From(d, x), n) = From(d, x)
    BY <2>2 DEF Reads, Output!WholeAt
  <2> QED
    BY <2>1, <2>3
<1> QED
  BY <1>2, <1>3, <1>4

LEMMA LyingLines ==
  ASSUME NEW out, NEW q \in Nat, Lies(out, q), NEW d \in Nat, NEW offset \in 0..Len(out),
         q + offset = 3 * d
  PROVE  \E e \in Nat : /\ 3 * e <= q + Len(out) /\ q + Len(out) <= 3 * e + 2
                        /\ Output!LinesAfter(out, offset) = From(d, e)
<1>1. out \in Seq(Tokens) /\ Len(out) \in Nat
  BY DEF Lies
<1>2. PICK f : /\ Output!LinesAfter(out, offset) = f[Len(out)]
               /\ f[0] = <<>>
               /\ \A n \in 1..Len(out) : f[n] = Reads(out, offset, f[n - 1], n)
  BY <1>1, ReadingIs
<1> DEFINE Upto(n) == \E x \in Nat : 3 * x <= q + n /\ q + n <= 3 * x + 2 /\ f[n] = From(d, x)
           T == {n \in Nat : n <= Len(out) /\ ~Upto(n)}
<1>3. T = {}
  <2>1. SUFFICES ASSUME T # {} PROVE FALSE
    OBVIOUS
  <2>2. PICK m \in T : \A k \in T : m <= k
    <3>1. T \in SUBSET Nat
      OBVIOUS
    <3> HIDE DEF T
    <3> QED
      BY <2>1, <3>1, Smallest
  <2>3. m \in Nat /\ m <= Len(out) /\ ~Upto(m)
    OBVIOUS
  <2>4. m # 0
    <3>1. PICK x \in Nat : 3 * x <= q /\ q <= 3 * x + 2
      BY Thirds
    <3>2. x <= d
      BY <1>1, <3>1
    <3>3. From(d, x) = <<>>
      BY <3>2, FromIs
    <3>4. Upto(0)
      BY <1>2, <3>1, <3>3
    <3> QED
      BY <2>3, <3>4
  <2>5. m - 1 \in Nat /\ ~(m <= m - 1) /\ m - 1 <= Len(out) /\ m \in 1..Len(out)
    BY <1>1, <2>3, <2>4
  <2>6. Upto(m - 1)
    BY <2>2, <2>5
  <2>7. PICK x \in Nat : 3 * x <= q + (m - 1) /\ q + (m - 1) <= 3 * x + 2 /\ f[m - 1] = From(d, x)
    BY <2>6
  <2>8. PICK y \in Nat : /\ 3 * y <= q + m /\ q + m <= 3 * y + 2
                        /\ Reads(out, offset, From(d, x), m) = From(d, y)
    BY <2>5, <2>7, LyingStep
  <2>9. f[m] = From(d, y)
    BY <1>2, <2>5, <2>7, <2>8
  <2> QED
    BY <2>3, <2>8, <2>9
<1>4. Upto(Len(out))
  <2>1. ~(Len(out) \in T)
    BY <1>3
  <2>2. Len(out) <= Len(out)
    BY <1>1
  <2> QED
    BY <1>1, <2>1, <2>2
<1> QED
  BY <1>2, <1>4

LEMMA ReadWithoutGap ==
  ASSUME NEW out, NEW q \in Nat, NEW d \in Nat, Lies(out, q), InOrder(out, q + Len(out)),
         NEW offset \in 0..Len(out), q + offset = 3 * d
  PROVE  LET p == Output!ParseIncremental(out, offset)
         IN \E e \in Nat : /\ 3 * e <= q + Len(out) /\ q + Len(out) <= 3 * e + 2 /\ d <= e
                           /\ p.next \in 0..Len(out) /\ q + p.next = 3 * e
                           /\ p.lines = From(d, e)
<1>1. out \in Seq(Tokens) /\ Len(out) \in Nat /\ DOMAIN out = 1..Len(out) /\ offset \in Nat
  BY DEF Lies
<1>2. PICK p : p = Output!ParseIncremental(out, offset)
  OBVIOUS
<1>3. Stops(out, offset, p)
  BY <1>2, ParseIs
<1>4. PICK from \in offset..Len(out), last \in 0..Len(out) :
        /\ \A m \in DOMAIN out : Output!IsEnd(out[m]) => m <= last
        /\ last # 0 => Output!IsEnd(out[last])
        /\ offset = 0 \/ Output!IsEnd(out[offset]) => from = offset
        /\ \/ offset # 0 /\ ~Output!IsEnd(out[offset])
           \/ /\ p.next = IF last > from THEN last ELSE from
              /\ p.lines = Output!LinesAfter(out, from)
  BY <1>3 DEF Stops
<1>5. offset = 0 \/ Output!IsEnd(out[offset])
  <2>1. CASE offset # 0
    <3>1. offset \in DOMAIN out
      BY <1>1, <2>1
    <3> QED
      BY <3>1, EndsLie
  <2> QED
    BY <2>1
<1>6. from = offset /\ p.next = (IF last > offset THEN last ELSE offset)
      /\ p.lines = Output!LinesAfter(out, offset)
  BY <1>4, <1>5
<1>7. PICK e \in Nat : /\ 3 * e <= q + Len(out) /\ q + Len(out) <= 3 * e + 2
                      /\ Output!LinesAfter(out, offset) = From(d, e)
  BY LyingLines
<1>8. d <= e
  BY <1>1, <1>7
<1>9. last # 0 => \E l \in Nat : q + last = 3 * l /\ l <= e
  <2>1. SUFFICES ASSUME last # 0 PROVE \E l \in Nat : q + last = 3 * l /\ l <= e
    OBVIOUS
  <2>2. last \in DOMAIN out /\ Output!IsEnd(out[last])
    BY <1>1, <1>4, <2>1
  <2>3. PICK l \in Nat : q + last = 3 * l
    BY <2>2, EndLiesAt
  <2>4. l <= e
    BY <1>1, <1>7, <2>3
  <2> QED
    BY <2>3, <2>4
<1>10. p.next \in 0..Len(out) /\ q + p.next = 3 * e
  <2>1. CASE last > offset
    <3>1. PICK l \in Nat : q + last = 3 * l /\ l <= e
      BY <1>1, <1>9, <2>1
    <3>2. d < e
      BY <1>1, <2>1, <3>1
    <3>3. PICK m \in DOMAIN out : q + m = 3 * e
      <4>1. 3 * e - q \in 1..Len(out) /\ q + (3 * e - q) = 3 * e
        BY <1>1, <1>7, <3>2
      <4> QED
        BY <1>1, <4>1
    <3>4. m <= last
      BY <1>4, <3>3, EndsLie
    <3>5. m = last
      BY <1>1, <3>1, <3>3, <3>4
    <3> QED
      BY <1>6, <2>1, <3>3, <3>5
  <2>2. CASE ~(last > offset)
    <3>1. ASSUME d < e PROVE FALSE
      <4>1. 3 * e - q \in 1..Len(out) /\ q + (3 * e - q) = 3 * e /\ 3 * e - q > offset
        BY <1>1, <1>7, <3>1
      <4>2. PICK m \in DOMAIN out : q + m = 3 * e /\ m > offset
        BY <1>1, <4>1
      <4>3. m <= last
        BY <1>4, <4>2, EndsLie
      <4> QED
        BY <1>1, <2>2, <4>2, <4>3
    <3>2. d = e
      BY <1>8, <3>1
    <3> QED
      BY <1>1, <1>6, <2>2, <3>2
  <2> QED
    BY <2>1, <2>2
<1> QED
  BY <1>2, <1>6, <1>7, <1>8, <1>10

-----------------------------------------------------------------------------
(* The state of a run.                                                     *)

Kept(state, upto, list) ==
  /\ DOMAIN state = {"id", "out", "offset", "keys"}
  /\ InOrder(state.out, upto)
  /\ state.offset \in 0..Len(state.out)
  /\ Past(state.out, state.offset, list)

(* Nothing is missing in what is kept, and the reading goes on after line  *)
(* d.                                                                      *)
Resumes(state, upto, d) ==
  \E q \in Nat : Lies(state.out, q) /\ q + Len(state.out) = upto /\ q + state.offset = 3 * d

LEMMA NewRunKept ==
  ASSUME NEW id, NEW upto \in Nat, NEW list
  PROVE  /\ Kept(Output!NewRun(id), upto, list)
         /\ \A d \in Nat : upto = 3 * d => Resumes(Output!NewRun(id), upto, d)
<1>1. PICK s : s = Output!NewRun(id)
  OBVIOUS
<1>2. s.out = <<>> /\ s.offset = 0 /\ DOMAIN s = {"id", "out", "offset", "keys"}
  BY <1>1 DEF Output!NewRun
<1>3. PICK out : out = s.out
  OBVIOUS
<1>4. out \in Seq(Tokens) /\ Len(out) = 0 /\ DOMAIN out = {}
  BY <1>2, <1>3
<1>5. Kept(s, upto, list)
  BY <1>2, <1>3, <1>4 DEF Kept, InOrder, Past
<1>6. ASSUME NEW d \in Nat, upto = 3 * d PROVE Resumes(s, upto, d)
  <2>1. Lies(out, upto)
    BY <1>4 DEF Lies
  <2> QED
    BY <1>2, <1>3, <1>4, <1>6, <2>1 DEF Resumes
<1> QED
  BY <1>1, <1>5, <1>6

LEMMA Later ==
  ASSUME NEW upto \in Nat, NEW now \in Nat, upto <= now, NEW list
  PROVE  /\ Ordered(list, upto) => Ordered(list, now)
         /\ \A out : InOrder(out, upto) => InOrder(out, now)
<1>1. ASSUME Ordered(list, upto) PROVE Ordered(list, now)
  <2>1. ASSUME NEW k \in DOMAIN list PROVE 3 * list[k] <= now
    <3>1. list \in Seq(Nat) /\ 3 * list[k] <= upto
      BY <1>1 DEF Ordered
    <3>2. list[k] \in Nat
      BY <3>1
    <3> QED
      BY <3>1, <3>2
  <2> QED
    BY <1>1, <2>1 DEF Ordered
<1>2. ASSUME NEW out, InOrder(out, upto) PROVE InOrder(out, now)
  <2>1. ASSUME NEW n \in DOMAIN out PROVE Place(out[n]) <= now
    <3>1. out \in Seq(Tokens) /\ Place(out[n]) <= upto
      BY <1>2 DEF InOrder
    <3>2. out[n] \in Tokens
      BY <3>1
    <3>3. Place(out[n]) \in Nat
      BY <3>2, PlaceIs
    <3> QED
      BY <3>1, <3>3
  <2> QED
    BY <1>2, <2>1 DEF InOrder
<1> QED
  BY <1>1, <1>2

LEMMA JoinInOrder ==
  ASSUME NEW out, NEW upto \in Nat, InOrder(out, upto), NEW chunk, Lies(chunk, upto)
  PROVE  /\ InOrder(out \o chunk, upto + Len(chunk))
         /\ \A q \in Nat : Lies(out, q) /\ q + Len(out) = upto => Lies(out \o chunk, q)
<1>1. PICK all : all = out \o chunk
  OBVIOUS
<1>2. out \in Seq(Tokens) /\ chunk \in Seq(Tokens)
  BY DEF InOrder, Lies
<1>3. /\ all \in Seq(Tokens) /\ Len(out) \in Nat /\ Len(chunk) \in Nat
      /\ DOMAIN all = 1..(Len(out) + Len(chunk)) /\ DOMAIN out = 1..Len(out)
      /\ DOMAIN chunk = 1..Len(chunk)
      /\ \A n \in 1..Len(out) : all[n] = out[n]
      /\ \A n \in (Len(out) + 1)..(Len(out) + Len(chunk)) :
           n - Len(out) \in DOMAIN chunk /\ all[n] = chunk[n - Len(out)]
  BY <1>1, <1>2
<1>4. ASSUME NEW n \in (Len(out) + 1)..(Len(out) + Len(chunk))
      PROVE  Place(all[n]) = upto + (n - Len(out))
  <2>1. PICK k : k = n - Len(out)
    OBVIOUS
  <2>2. k \in DOMAIN chunk /\ all[n] = chunk[k]
    BY <1>3, <2>1
  <2> QED
    BY <2>1, <2>2 DEF Lies
<1>5. ASSUME NEW n \in 1..Len(out) PROVE Place(all[n]) <= upto /\ Place(all[n]) \in Nat
  <2>1. all[n] = out[n] /\ out[n] \in Tokens /\ n \in DOMAIN out
    BY <1>2, <1>3
  <2> QED
    BY <2>1, PlaceIs DEF InOrder
<1>6. ASSUME NEW n \in DOMAIN all
      PROVE  n \in 1..Len(out) \/ n \in (Len(out) + 1)..(Len(out) + Len(chunk))
  BY <1>3
<1>7. InOrder(all, upto + Len(chunk))
  <2>1. ASSUME NEW n \in DOMAIN all PROVE Place(all[n]) <= upto + Len(chunk)
    <3>1. CASE n \in 1..Len(out)
      BY <1>3, <1>5, <3>1
    <3>2. CASE n \in (Len(out) + 1)..(Len(out) + Len(chunk))
      BY <1>3, <1>4, <3>2
    <3> QED
      BY <1>6, <3>1, <3>2
  <2>2. ASSUME NEW m \in DOMAIN all, NEW n \in DOMAIN all, m < n PROVE Place(all[m]) < Place(all[n])
    <3>1. CASE n \in 1..Len(out)
      <4>1. m \in DOMAIN out /\ n \in DOMAIN out /\ all[m] = out[m] /\ all[n] = out[n]
        BY <1>3, <2>2, <3>1
      <4> QED
        BY <2>2, <4>1 DEF InOrder
    <3>2. CASE n \in (Len(out) + 1)..(Len(out) + Len(chunk)) /\ m \in 1..Len(out)
      <4>1. n - Len(out) >= 1 /\ n - Len(out) \in Nat
        BY <1>3, <3>2
      <4>2. Place(all[n]) = upto + (n - Len(out)) /\ Place(all[m]) <= upto /\ Place(all[m]) \in Nat
        BY <1>4, <1>5, <3>2
      <4> QED
        BY <4>1, <4>2
    <3>3. CASE /\ n \in (Len(out) + 1)..(Len(out) + Len(chunk))
               /\ m \in (Len(out) + 1)..(Len(out) + Len(chunk))
      <4>1. Place(all[n]) = upto + (n - Len(out)) /\ Place(all[m]) = upto + (m - Len(out))
        BY <1>4, <3>3
      <4> QED
        BY <1>3, <2>2, <3>3, <4>1
    <3> QED
      BY <1>6, <3>1, <3>2, <3>3
  <2> QED
    BY <1>3, <2>1, <2>2 DEF InOrder
<1>8. ASSUME NEW q \in Nat, Lies(out, q), q + Len(out) = upto PROVE Lies(all, q)
  <2>1. ASSUME NEW n \in DOMAIN all PROVE Place(all[n]) = q + n
    <3>1. CASE n \in 1..Len(out)
      BY <1>3, <1>8, <3>1 DEF Lies
    <3>2. CASE n \in (Len(out) + 1)..(Len(out) + Len(chunk))
      <4>1. PICK l \in Nat : l = Len(out)
        BY <1>3
      <4>2. n \in Nat /\ Place(all[n]) = upto + (n - l) /\ q + l = upto
        BY <1>3, <1>4, <1>8, <3>2, <4>1
      <4> QED
        BY <4>1, <4>2
    <3> QED
      BY <1>6, <3>1, <3>2
  <2> QED
    BY <1>3, <2>1 DEF Lies
<1> QED
  BY <1>1, <1>7, <1>8

LEMMA CutInOrder ==
  ASSUME NEW out, NEW upto, InOrder(out, upto), NEW trim \in 0..Len(out)
  PROVE  LET cut == SubSeq(out, trim + 1, Len(out))
         IN /\ InOrder(cut, upto) /\ Len(cut) = Len(out) - trim /\ Len(cut) \in Nat
            /\ \A n \in DOMAIN cut : trim + n \in DOMAIN out /\ cut[n] = out[trim + n]
            /\ \A q \in Nat : Lies(out, q) => Lies(cut, q + trim)
<1>1. PICK l \in Nat : l = Len(out)
  BY DEF InOrder
<1>2. out \in Seq(Tokens) /\ DOMAIN out = 1..l /\ trim \in 0..l
  BY <1>1 DEF InOrder
<1>3. PICK cut : cut = SubSeq(out, trim + 1, Len(out))
  OBVIOUS
<1>4. /\ cut \in Seq(Tokens)
      /\ Len(cut) = IF trim + 1 <= l THEN l - (trim + 1) + 1 ELSE 0
      /\ \A n \in 1..(l - (trim + 1) + 1) : cut[n] = out[(trim + 1) + n - 1]
  <2>1. trim + 1 \in Int /\ l \in Int /\ \A k \in (trim + 1)..l : out[k] \in Tokens
    BY <1>2
  <2> QED
    BY <1>1, <1>3, <2>1, SubSeqProperties
<1>5. Len(cut) = l - trim
  <2>1. CASE trim + 1 <= l
    BY <1>2, <1>4, <2>1
  <2>2. CASE ~(trim + 1 <= l)
    BY <1>2, <1>4, <2>2
  <2> QED
    BY <2>1, <2>2
<1>6. PICK c \in Nat : c = Len(cut) /\ c = l - trim
  BY <1>4, <1>5
<1>7. DOMAIN cut = 1..c
  BY <1>4, <1>6
<1>8. ASSUME NEW n \in DOMAIN cut PROVE trim + n \in DOMAIN out /\ cut[n] = out[trim + n] /\ n \in Nat
  <2>1. n \in 1..(l - (trim + 1) + 1) /\ (trim + 1) + n - 1 = trim + n /\ trim + n \in 1..l /\ n \in Nat
    BY <1>2, <1>6, <1>7
  <2> QED
    BY <1>2, <1>4, <2>1
<1>9. InOrder(cut, upto)
  <2>1. ASSUME NEW n \in DOMAIN cut PROVE Place(cut[n]) <= upto
    BY <1>8 DEF InOrder
  <2>2. ASSUME NEW m \in DOMAIN cut, NEW n \in DOMAIN cut, m < n PROVE Place(cut[m]) < Place(cut[n])
    <3>1. trim + m < trim + n
      BY <1>2, <1>8, <2>2
    <3> QED
      BY <1>8, <3>1 DEF InOrder
  <2> QED
    BY <1>4, <2>1, <2>2 DEF InOrder
<1>10. ASSUME NEW q \in Nat, Lies(out, q) PROVE Lies(cut, q + trim)
  <2>1. ASSUME NEW n \in DOMAIN cut PROVE Place(cut[n]) = q + trim + n
    <3>1. Place(cut[n]) = q + (trim + n)
      BY <1>8, <1>10 DEF Lies
    <3> QED
      BY <1>2, <1>8, <3>1
  <2> QED
    BY <1>4, <2>1 DEF Lies
<1> QED
  BY <1>1, <1>3, <1>6, <1>8, <1>9, <1>10

(* The front is cut off and the reading goes on at the same token, or at   *)
(* the first one that is left.                                             *)
LEMMA AppendIs ==
  ASSUME NEW state, NEW upto \in Nat, NEW list, Kept(state, upto, list), Ordered(list, upto),
         NEW chunk, Lies(chunk, upto), MaxOut \in Nat
  PROVE  LET a == Output!AppendCodexStdoutChunk(state, chunk)
         IN /\ Kept(a, upto + Len(chunk), list) /\ a.id = state.id
            /\ \A d \in Nat : /\ Resumes(state, upto, d)
                             /\ Len(state.out) - state.offset + Len(chunk) <= MaxOut
                             => Resumes(a, upto + Len(chunk), d)
<1>1. PICK out, offset : out = state.out /\ offset = state.offset
  OBVIOUS
<1>2. /\ DOMAIN state = {"id", "out", "offset", "keys"}
      /\ InOrder(out, upto) /\ offset \in 0..Len(out) /\ Past(out, offset, list)
  BY <1>1 DEF Kept
<1>3. out \in Seq(Tokens) /\ chunk \in Seq(Tokens) /\ Len(out) \in Nat /\ Len(chunk) \in Nat
  BY <1>2 DEF InOrder, Lies
<1>4. PICK all : all = out \o chunk
  OBVIOUS
<1>5. /\ InOrder(all, upto + Len(chunk)) /\ all \in Seq(Tokens)
      /\ Len(all) = Len(out) + Len(chunk) /\ Len(all) \in Nat
      /\ \A q \in Nat : Lies(out, q) /\ q + Len(out) = upto => Lies(all, q)
  BY <1>2, <1>3, <1>4, JoinInOrder
<1>6. PICK trim : trim = IF Len(all) > MaxOut THEN Len(all) - MaxOut ELSE 0
  OBVIOUS
<1>7. trim \in 0..Len(all)
  BY <1>5, <1>6
<1>8. PICK cut : cut = SubSeq(all, trim + 1, Len(all))
  OBVIOUS
<1>9. PICK next : next = IF offset > trim THEN offset - trim ELSE 0
  OBVIOUS
<1>10. PICK a : a = Output!AppendCodexStdoutChunk(state, chunk)
  OBVIOUS
<1>11. a = [state EXCEPT !.out = cut, !.offset = next]
  BY <1>1, <1>4, <1>6, <1>8, <1>9, <1>10 DEF Output!AppendCodexStdoutChunk
<1>12. /\ DOMAIN a = {"id", "out", "offset", "keys"} /\ a.id = state.id /\ a.out = cut
       /\ a.offset = next
  BY <1>2, <1>11
<1>13. /\ InOrder(cut, upto + Len(chunk)) /\ Len(cut) = Len(all) - trim /\ Len(cut) \in Nat
       /\ \A n \in DOMAIN cut : trim + n \in DOMAIN all /\ cut[n] = all[trim + n]
       /\ \A q \in Nat : Lies(all, q) => Lies(cut, q + trim)
  BY <1>5, <1>7, <1>8, CutInOrder
<1>14. next \in 0..Len(cut)
  <2>1. offset \in 0..Len(all)
    BY <1>2, <1>3, <1>5
  <2> QED
    BY <1>7, <1>9, <1>13, <2>1
<1>15. Past(cut, next, list)
  <2>1. SUFFICES ASSUME NEW k \in DOMAIN list, NEW n \in DOMAIN cut, n > next
                 PROVE  3 * list[k] < Place(cut[n])
    BY DEF Past
  <2>2. DOMAIN cut = 1..Len(cut) /\ DOMAIN all = 1..Len(all) /\ DOMAIN out = 1..Len(out)
    BY <1>3, <1>5, <1>13 DEF InOrder
  <2>3. PICK m : m = trim + n
    OBVIOUS
  <2>4. m \in DOMAIN all /\ cut[n] = all[m] /\ m \in Nat /\ m > offset
    <3>1. n \in Nat /\ offset \in Nat /\ trim \in Nat
      BY <1>2, <1>7, <2>2
    <3>2. trim + n > offset
      BY <1>9, <2>1, <3>1
    <3> QED
      BY <1>13, <2>3, <3>1, <3>2
  <2>5. CASE m \in 1..Len(out)
    <3>1. all[m] = out[m] /\ m \in DOMAIN out
      BY <1>3, <1>4, <2>2, <2>5
    <3> QED
      BY <1>2, <2>4, <3>1 DEF Past
  <2>6. CASE ~(m \in 1..Len(out))
    <3>1. m - Len(out) \in 1..Len(chunk) /\ all[m] = chunk[m - Len(out)]
      BY <1>3, <1>4, <1>5, <2>2, <2>4, <2>6
    <3>2. PICK j \in DOMAIN chunk : all[m] = chunk[j] /\ j >= 1 /\ j \in Nat
      BY <1>3, <3>1
    <3>3. Place(all[m]) = upto + j
      BY <3>2 DEF Lies
    <3>4. list[k] \in Nat /\ 3 * list[k] <= upto
      BY DEF Ordered
    <3> QED
      BY <2>4, <3>2, <3>3, <3>4
  <2> QED
    BY <2>5, <2>6
<1>16. Kept(a, upto + Len(chunk), list)
  BY <1>12, <1>13, <1>14, <1>15 DEF Kept
<1>17. ASSUME NEW d \in Nat, Resumes(state, upto, d),
              Len(state.out) - state.offset + Len(chunk) <= MaxOut
       PROVE  Resumes(a, upto + Len(chunk), d)
  <2>1. PICK q \in Nat : Lies(out, q) /\ q + Len(out) = upto /\ q + offset = 3 * d
    BY <1>1, <1>17 DEF Resumes
  <2>2. Lies(all, q)
    BY <1>5, <2>1
  <2>3. Lies(cut, q + trim) /\ q + trim \in Nat
    BY <1>7, <1>13, <2>2
  <2>4. trim <= offset
    <3>1. Len(out) - offset + Len(chunk) <= MaxOut
      BY <1>1, <1>17
    <3> QED
      BY <1>2, <1>3, <1>5, <1>6, <3>1
  <2>5. next = offset - trim
    BY <1>2, <1>7, <1>9, <2>4
  <2>6. q + trim + Len(cut) = upto + Len(chunk)
    <3>1. PICK b, c, l \in Nat : b = Len(all) /\ c = Len(chunk) /\ l = Len(out)
      BY <1>3, <1>5
    <3>2. b = l + c /\ q + l = upto /\ Len(cut) = b - trim /\ trim \in 0..b
      BY <1>5, <1>7, <1>13, <2>1, <3>1
    <3>3. q + trim + (b - trim) = upto + c
      BY <3>1, <3>2
    <3> QED
      BY <3>1, <3>2, <3>3
  <2>7. q + trim + next = 3 * d
    BY <1>2, <1>7, <2>1, <2>5
  <2> QED
    BY <1>12, <2>3, <2>6, <2>7 DEF Resumes
<1> QED
  BY <1>10, <1>12, <1>16, <1>17

(* All the lines that are complete were read.                              *)
Reached(d, upto, list) == 3 * d <= upto /\ upto <= 3 * d + 2 /\ list = From(0, d)

LEMMA ReachedEnd ==
  ASSUME NEW upto \in Nat, NEW d \in Nat, NEW list, Reached(d, upto, list), NEW x \in Nat,
         upto = 3 * x
  PROVE  upto = 3 * d
<1>1. 3 * d <= upto /\ upto <= 3 * d + 2
  BY DEF Reached
<1>2. 3 * d <= 3 * x /\ 3 * x <= 3 * d + 2
  BY <1>1
<1>3. x = d
  BY <1>2
<1> QED
  BY <1>3

(* The state after the reading.                                            *)
LEMMA ReadOn ==
  ASSUME NEW state, NEW upto \in Nat, NEW list, Kept(state, upto, list), Ordered(list, upto)
  PROVE  LET p == Output!ParseIncremental(state.out, state.offset)
         IN \A keys :
              LET new == [state EXCEPT !.offset = p.next, !.keys = keys]
              IN /\ Kept(new, upto, list \o p.lines) /\ Ordered(list \o p.lines, upto)
                 /\ new.id = state.id
                 /\ \A d \in Nat : Resumes(state, upto, d) /\ list = From(0, d) =>
                      \E e \in Nat : Reached(e, upto, list \o p.lines) /\ Resumes(new, upto, e)
<1>1. PICK out, offset : out = state.out /\ offset = state.offset
  OBVIOUS
<1>2. /\ DOMAIN state = {"id", "out", "offset", "keys"}
      /\ InOrder(out, upto) /\ offset \in 0..Len(out) /\ Past(out, offset, list)
  BY <1>1 DEF Kept
<1>3. PICK p : p = Output!ParseIncremental(out, offset)
  OBVIOUS
<1>4. PICK next, new : next = p.next /\ new = p.lines
  OBVIOUS
<1>5. next \in 0..Len(out) /\ Ordered(list \o new, upto) /\ Past(out, next, list \o new)
  BY <1>2, <1>3, <1>4, ReadInOrder
<1>6. SUFFICES ASSUME NEW keys
               PROVE  LET s == [state EXCEPT !.offset = next, !.keys = keys]
                      IN /\ Kept(s, upto, list \o new) /\ s.id = state.id
                         /\ \A d \in Nat : Resumes(state, upto, d) /\ list = From(0, d) =>
                              \E e \in Nat : Reached(e, upto, list \o new) /\ Resumes(s, upto, e)
  BY <1>1, <1>3, <1>4, <1>5
<1>7. PICK s : s = [state EXCEPT !.offset = next, !.keys = keys]
  OBVIOUS
<1>8. /\ DOMAIN s = {"id", "out", "offset", "keys"} /\ s.id = state.id /\ s.out = out
      /\ s.offset = next
  BY <1>1, <1>2, <1>7
<1>9. Kept(s, upto, list \o new)
  BY <1>2, <1>5, <1>8 DEF Kept
<1>10. ASSUME NEW d \in Nat, Resumes(state, upto, d), list = From(0, d)
       PROVE  \E e \in Nat : Reached(e, upto, list \o new) /\ Resumes(s, upto, e)
  <2>1. PICK q \in Nat : Lies(out, q) /\ q + Len(out) = upto /\ q + offset = 3 * d
    BY <1>1, <1>10 DEF Resumes
  <2>2. PICK e \in Nat : /\ 3 * e <= upto /\ upto <= 3 * e + 2 /\ d <= e
                        /\ q + next = 3 * e /\ new = From(d, e)
    <3>1. InOrder(out, q + Len(out))
      BY <1>2, <2>1
    <3>2. PICK e \in Nat : /\ 3 * e <= q + Len(out) /\ q + Len(out) <= 3 * e + 2 /\ d <= e
                          /\ q + p.next = 3 * e /\ p.lines = From(d, e)
      BY <1>2, <1>3, <2>1, <3>1, ReadWithoutGap
    <3> QED
      BY <1>4, <2>1, <3>2
  <2>3. list \o new = From(0, e)
    BY <1>10, <2>2, FromIs
  <2>4. Resumes(s, upto, e)
    BY <1>8, <2>1, <2>2 DEF Resumes
  <2>5. Reached(e, upto, list \o new)
    BY <2>2, <2>3 DEF Reached
  <2> QED
    BY <2>4, <2>5
<1> QED
  BY <1>7, <1>8, <1>9, <1>10

IsName(id) == id # ""

IsJob(id) == id = "job"

Follows(state, upto, d) ==
  IsJob(state.id) \/ (IsName(state.id) /\ upto = 3 * d) => Resumes(state, upto, d)

(* While nothing is missed, the lines that were read are all the lines that*)
(* are complete, and the run that goes on reading misses nothing: a job    *)
(* within a line, any other run only between lines.                        *)
ReadInv ==
  /\ sent \in Nat
  /\ Kept(run, sent, read) /\ Ordered(read, sent)
  /\ whole \in BOOLEAN
  /\ whole => \E d \in Nat : Reached(d, sent, read) /\ Follows(run, sent, d)

LEMMA EnsuredKept ==
  ASSUME ReadInv, NEW id
  PROVE  Kept(Output!EnsureRun(id), sent, read) /\ Output!EnsureRun(id).id = id
<1>1. CASE run.id = id
  BY <1>1 DEF ReadInv, Output!EnsureRun
<1>2. CASE run.id # id
  <2>1. Output!EnsureRun(id) = Output!NewRun(id)
    BY <1>2 DEF Output!EnsureRun
  <2>2. Output!NewRun(id).id = id
    BY DEF Output!NewRun
  <2>3. PICK n \in Nat : n = sent
    BY DEF ReadInv
  <2>4. ASSUME NEW list PROVE Kept(Output!NewRun(id), n, list)
    BY NewRunKept
  <2> QED
    BY <2>1, <2>2, <2>3, <2>4
<1> QED
  BY <1>1, <1>2

(* A run that goes on, or a new one between two lines.                     *)
LEMMA EnsuredResumes ==
  ASSUME ReadInv, NEW id, IsName(id), NEW d \in Nat,
         run.id = id => Resumes(run, sent, d),
         run.id = id \/ sent = 3 * d
  PROVE  Resumes(Output!EnsureRun(id), sent, d)
<1>1. CASE run.id = id
  BY <1>1 DEF Output!EnsureRun
<1>2. CASE run.id # id
  <2>1. Output!EnsureRun(id) = Output!NewRun(id)
    BY <1>2 DEF Output!EnsureRun
  <2>2. PICK n \in Nat : n = sent
    BY DEF ReadInv
  <2>3. Resumes(Output!NewRun(id), n, d)
    BY <1>2, <2>2, NewRunKept
  <2> QED
    BY <2>1, <2>2, <2>3
<1> QED
  BY <1>1, <1>2

BetweenLines(upto) == \E d \in Nat : upto = 3 * d

LEMMA ChunkRead ==
  ASSUME ReadInv, MaxOut \in Nat, NEW id, IsName(id), NEW chunk, Lies(chunk, sent),
         IsJob(id) \/ BetweenLines(sent),
         sent' = sent + Len(chunk), Output!Chunk(id, chunk)
  PROVE  ReadInv'
<1>1. PICK upto, now, list : upto = sent /\ now = sent + Len(chunk) /\ list = read
  OBVIOUS
<1>2. chunk \in Seq(Tokens) /\ Len(chunk) \in Nat /\ upto \in Nat /\ now \in Nat /\ upto <= now
  <2>1. chunk \in Seq(Tokens)
    BY DEF Lies
  <2>2. upto \in Nat
    BY <1>1 DEF ReadInv
  <2> QED
    BY <1>1, <2>1, <2>2
<1>3. PICK state : state = Output!EnsureRun(id)
  OBVIOUS
<1>4. Kept(state, upto, list) /\ state.id = id /\ Ordered(list, upto) /\ Lies(chunk, upto)
  BY <1>1, <1>3, EnsuredKept DEF ReadInv
<1>5. Ordered(list, now) /\ \A out : InOrder(out, upto) => InOrder(out, now)
  BY <1>2, <1>4, Later
<1>6. CASE Output!IsBlankChunk(chunk)
  <2>1. run' = state /\ whole' = FALSE /\ read' = list
    BY <1>1, <1>3, <1>6 DEF Output!Chunk
  <2>2. Kept(state, now, list)
    BY <1>4, <1>5 DEF Kept
  <2> QED
    BY <1>1, <1>2, <1>5, <2>1, <2>2 DEF ReadInv
<1>7. CASE ~Output!IsBlankChunk(chunk)
  <2>1. PICK a : a = Output!AppendCodexStdoutChunk(state, chunk)
    OBVIOUS
  <2>2. PICK p : p = Output!ParseIncremental(a.out, a.offset)
    OBVIOUS
  <2>3. PICK unread : unread = IF id = run.id THEN Len(state.out) - state.offset ELSE 0
    OBVIOUS
  <2>4. PICK keys : keys = Output!Surfaced(state, shownCards,
                             [k \in DOMAIN p.lines |-> lines[p.lines[k]]]).keys
    OBVIOUS
  <2>5. /\ run' = [a EXCEPT !.offset = p.next, !.keys = keys]
        /\ read' = list \o p.lines
        /\ whole' = (whole /\ (id = run.id \/ sent % 3 = 0) /\ unread + Len(chunk) <= MaxOut)
    BY <1>1, <1>3, <1>7, <2>1, <2>2, <2>3, <2>4 DEF Output!Chunk
  <2>6. /\ Kept(a, now, list) /\ a.id = state.id
        /\ \A d \in Nat : /\ Resumes(state, upto, d)
                         /\ Len(state.out) - state.offset + Len(chunk) <= MaxOut
                         => Resumes(a, now, d)
    BY <1>1, <1>2, <1>4, <2>1, AppendIs
  <2>7. PICK new : new = [a EXCEPT !.offset = p.next, !.keys = keys]
    OBVIOUS
  <2>8. /\ Kept(new, now, list \o p.lines) /\ Ordered(list \o p.lines, now)
        /\ new.id = a.id
        /\ \A d \in Nat : Resumes(a, now, d) /\ list = From(0, d) =>
             \E e \in Nat : Reached(e, now, list \o p.lines) /\ Resumes(new, now, e)
    BY <1>2, <1>5, <2>2, <2>6, <2>7, ReadOn
  <2>9. ASSUME whole'
        PROVE  \E e \in Nat : Reached(e, now, list \o p.lines) /\ Follows(new, now, e)
    <3>1. whole /\ (id = run.id \/ upto % 3 = 0) /\ unread + Len(chunk) <= MaxOut
      BY <1>1, <2>5, <2>9
    <3>2. PICK d \in Nat : Reached(d, upto, list) /\ Follows(run, upto, d)
      BY <1>1, <3>1 DEF ReadInv
    <3>a. ASSUME NEW x \in Nat, upto = 3 * x PROVE upto = 3 * d
      BY <1>2, <3>2, <3>a, ReachedEnd
    <3>3. id = run.id \/ upto = 3 * d
      <4>1. ASSUME upto % 3 = 0 PROVE upto = 3 * d
        <5>1. PICK x \in Nat : upto = 3 * x
          BY <1>2, <4>1, Thirds
        <5> QED
          BY <3>a, <5>1
      <4> QED
        BY <3>1, <4>1
    <3>4. IsJob(id) \/ upto = 3 * d
      <4>1. IsJob(id) \/ BetweenLines(upto)
        BY <1>1
      <4> QED
        BY <3>a, <4>1 DEF BetweenLines
    <3>5. Resumes(state, upto, d)
      <4>1. ASSUME run.id = id PROVE Resumes(run, sent, d)
        <5>1. IsName(run.id) /\ (IsJob(run.id) \/ upto = 3 * d)
          BY <3>4, <4>1
        <5>2. Resumes(run, upto, d)
          BY <3>2, <5>1 DEF Follows
        <5> QED
          BY <1>1, <5>2
      <4>2. run.id = id \/ sent = 3 * d
        BY <1>1, <3>3
      <4>3. Resumes(Output!EnsureRun(id), sent, d)
        BY <4>1, <4>2, EnsuredResumes
      <4> QED
        BY <1>1, <1>3, <4>3
    <3>6. Len(state.out) - state.offset + Len(chunk) <= MaxOut
      <4>1. CASE id = run.id
        BY <2>3, <3>1, <4>1
      <4>2. CASE id # run.id
        <5>1. state.out = <<>> /\ state.offset = 0
          BY <1>3, <4>2 DEF Output!EnsureRun, Output!NewRun
        <5>2. Len(state.out) = 0 /\ unread = 0
          BY <2>3, <4>2, <5>1
        <5>3. PICK c \in Nat : c = Len(chunk)
          BY <1>2
        <5>4. 0 + c <= MaxOut
          BY <3>1, <5>2, <5>3
        <5>5. Len(state.out) - state.offset + Len(chunk) = 0 - 0 + c
          BY <5>1, <5>2, <5>3
        <5>6. 0 - 0 + c = 0 + c
          BY <5>3
        <5> QED
          BY <5>4, <5>5, <5>6
      <4> QED
        BY <4>1, <4>2
    <3>7. Resumes(a, now, d)
      BY <2>6, <3>5, <3>6
    <3>8. list = From(0, d)
      BY <3>2 DEF Reached
    <3>9. PICK e \in Nat : Reached(e, now, list \o p.lines) /\ Resumes(new, now, e)
      BY <2>8, <3>7, <3>8
    <3> QED
      BY <3>9 DEF Follows
  <2>10. whole' \in BOOLEAN
    BY <2>5
  <2> QED
    BY <1>1, <1>2, <2>5, <2>7, <2>8, <2>9, <2>10 DEF ReadInv
<1> QED
  BY <1>6, <1>7

(* The next tokens of the output.                                          *)
LEMMA NextLies ==
  ASSUME NEW upto \in Nat, NEW n \in Nat
  PROVE  LET chunk == [k \in 1..n |-> Output!Token(upto + k)]
         IN Lies(chunk, upto) /\ Len(chunk) = n
<1>1. ASSUME NEW k \in 1..n PROVE Output!Token(upto + k) \in Tokens /\ Place(Output!Token(upto + k)) = upto + k
  <2>1. upto + k \in Nat \ {0}
    OBVIOUS
  <2> QED
    BY <2>1, TokenIs
<1>2. PICK chunk : chunk = [k \in 1..n |-> Output!Token(upto + k)]
  OBVIOUS
<1>3. chunk \in Seq(Tokens) /\ Len(chunk) = n /\ DOMAIN chunk = 1..n
  BY <1>1, <1>2
<1>4. Lies(chunk, upto)
  BY <1>1, <1>2, <1>3 DEF Lies
<1> QED
  BY <1>2, <1>3, <1>4

LEMMA OutputInit ==
  ASSUME Output!Init
  PROVE  ReadInv
<1>1. sent = 0 /\ run = Output!NewRun("") /\ read = <<>> /\ whole = TRUE
  BY DEF Output!Init
<1>2. Kept(Output!NewRun(""), 0, <<>>)
  BY NewRunKept
<1>3. Ordered(<<>>, 0)
  BY DEF Ordered
<1>4. From(0, 0) = <<>>
  BY FromIs
<1>5. run.id = ""
  BY <1>1 DEF Output!NewRun
<1>6. Kept(run, sent, read) /\ Ordered(read, sent)
  BY <1>1, <1>2, <1>3
<1>7. Reached(0, sent, read)
  <2>1. 3 * 0 <= 0 /\ 0 <= 3 * 0 + 2
    OBVIOUS
  <2> QED
    BY <1>1, <1>4, <2>1 DEF Reached
<1>8. Follows(run, sent, 0)
  <2>1. ~IsJob(run.id) /\ ~IsName(run.id)
    BY <1>5 DEF IsJob, IsName
  <2> QED
    BY <2>1 DEF Follows
<1> QED
  BY <1>1, <1>6, <1>7, <1>8 DEF ReadInv

(* No event of the app-server bears the name that stands for the job.      *)
JobApart == \A e \in Notices : Output!SessionEventRunID(e) # "job"

LEMMA OutputNext ==
  ASSUME ReadInv, [Output!Next]_(Output!vars), MaxOut \in Nat, JobApart
  PROVE  ReadInv'
<1>1. PICK upto \in Nat : upto = sent
  BY DEF ReadInv
<1>2. ASSUME NEW n \in 1..MaxChunk, Output!Receive(n) PROVE ReadInv'
  <2>1. PICK chunk : chunk = [k \in 1..n |-> Output!Token(upto + k)]
    OBVIOUS
  <2>2. n \in Nat
    OBVIOUS
  <2>3. Lies(chunk, upto) /\ Len(chunk) = n
    BY <2>1, <2>2, NextLies
  <2>4. PICK id : id = "job"
    OBVIOUS
  <2>5. IsName(id) /\ IsJob(id)
    BY <2>4 DEF IsName, IsJob
  <2>6. sent' = sent + Len(chunk) /\ Output!Chunk(id, chunk)
    BY <1>1, <1>2, <2>1, <2>3, <2>4 DEF Output!Receive
  <2> QED
    BY <1>1, <2>3, <2>5, <2>6, ChunkRead
<1>3. ASSUME NEW e \in Notices, Output!Notified(e) PROVE ReadInv'
  <2>1. PICK type, id : type = Output!NormalizedType(e) /\ id = Output!SessionEventRunID(e)
    OBVIOUS
  <2>2. id # "job"
    BY <2>1 DEF JobApart
  <2>3. CASE type = "session.title.updated" /\ UNCHANGED <<lines, sent, run, shownCards, cards, cutoff, read, whole>>
    BY <2>3 DEF ReadInv
  <2>4. CASE /\ id # "" /\ sent % 3 = 0 /\ sent' = sent + 3
             /\ Output!Chunk(id, [k \in 1..3 |-> Output!Token(sent + k)])
    <3>1. PICK chunk : chunk = [k \in 1..3 |-> Output!Token(upto + k)]
      OBVIOUS
    <3>2. Lies(chunk, upto) /\ Len(chunk) = 3
      BY <3>1, NextLies
    <3>3. BetweenLines(upto)
      <4>1. upto % 3 = 0
        BY <1>1, <2>4
      <4> QED
        BY <4>1, Thirds DEF BetweenLines
    <3>4. IsName(id) /\ sent' = sent + Len(chunk) /\ Output!Chunk(id, chunk)
      BY <1>1, <2>4, <3>1, <3>2 DEF IsName
    <3> QED
      BY <1>1, <3>2, <3>3, <3>4, ChunkRead
  <2>5. CASE /\ id # "" /\ run' = IF type = "run.started" THEN Output!EnsureRun(id) ELSE Output!NewRun("")
             /\ UNCHANGED <<lines, sent, shownCards, cards, cutoff, title, read, whole>>
    <3>1. CASE type = "run.started"
      <4>1. PICK state : state = Output!EnsureRun(id)
        OBVIOUS
      <4>2. run' = state /\ Kept(state, sent, read) /\ state.id = id
        BY <2>5, <3>1, <4>1, EnsuredKept
      <4>3. ASSUME whole PROVE \E d \in Nat : Reached(d, sent, read) /\ Follows(state, sent, d)
        <5>1. PICK d \in Nat : Reached(d, sent, read) /\ Follows(run, sent, d)
          BY <4>3 DEF ReadInv
        <5>2. IsName(id) /\ ~IsJob(id)
          BY <2>2, <2>5 DEF IsName, IsJob
        <5>3. ASSUME sent = 3 * d PROVE Resumes(state, sent, d)
          <6>1. ASSUME run.id = id PROVE Resumes(run, sent, d)
            <7>1. IsName(run.id)
              BY <5>2, <6>1
            <7> QED
              BY <5>1, <5>3, <7>1 DEF Follows
          <6>2. Resumes(Output!EnsureRun(id), sent, d)
            BY <5>2, <5>3, <6>1, EnsuredResumes
          <6> QED
            BY <4>1, <6>2
        <5>4. Follows(state, sent, d)
          BY <4>2, <5>2, <5>3 DEF Follows
        <5> QED
          BY <5>1, <5>4
      <4> QED
        BY <2>5, <4>2, <4>3 DEF ReadInv
    <3>2. CASE type # "run.started"
      <4>1. run' = Output!NewRun("")
        BY <2>5, <3>2
      <4>2. PICK list : list = read
        OBVIOUS
      <4>3. Kept(Output!NewRun(""), upto, list)
        BY NewRunKept
      <4>4. Output!NewRun("").id = ""
        BY DEF Output!NewRun
      <4>5. ~IsJob(run'.id) /\ ~IsName(run'.id)
        BY <4>1, <4>4 DEF IsJob, IsName
      <4>6. UNCHANGED <<sent, read, whole>> /\ Kept(run', sent, read)
        BY <1>1, <2>5, <4>1, <4>2, <4>3
      <4>7. ASSUME NEW d \in Nat PROVE Follows(run', sent, d)
        BY <4>5 DEF Follows
      <4> QED
        BY <4>6, <4>7 DEF ReadInv
    <3> QED
      BY <3>1, <3>2
  <2> QED
    BY <1>3, <2>1, <2>3, <2>4, <2>5 DEF Output!Notified
<1>4. CASE Output!Ready
  BY <1>4 DEF Output!Ready, ReadInv
<1>5. CASE Output!ClearTerminal
  BY <1>5 DEF Output!ClearTerminal, ReadInv
<1>6. CASE UNCHANGED Output!vars
  BY <1>6 DEF Output!vars, ReadInv
<1> QED
  BY <1>2, <1>3, <1>4, <1>5, <1>6 DEF Output!Next

LEMMA ReadInvHolds ==
  ASSUME ReadInv
  PROVE  Output!EveryLineRead
<1>1. \A j, k \in DOMAIN read : j < k => read[j] < read[k]
  BY DEF ReadInv, Ordered
<1>2. ASSUME whole PROVE read = [k \in 1..(sent \div 3) |-> k]
  <2>1. PICK d \in Nat : 3 * d <= sent /\ sent <= 3 * d + 2 /\ read = From(0, d)
    BY <1>2 DEF ReadInv, Reached
  <2>2. PICK upto \in Nat : upto = sent
    BY DEF ReadInv
  <2>3. PICK e \in Nat : upto \div 3 = e /\ 3 * e <= upto /\ upto <= 3 * e + 2
    BY Thirds
  <2>4. d = e
    BY <2>1, <2>2, <2>3
  <2>5. From(0, d) = [k \in 1..d |-> k]
    BY DEF From
  <2> QED
    BY <2>1, <2>2, <2>3, <2>4, <2>5
<1> QED
  BY <1>1, <1>2 DEF Output!EveryLineRead

(* Every line of a run's output that is complete is read once and in order,*)
(* however it is cut into pieces and however much of its front is cut off, *)
(* unless a piece was nothing but its break or was cut off unread; and no  *)
(* line is ever read twice (parseCodexEventsIncremental with the offset    *)
(* that appendCodexStdoutChunk moves).                                     *)
THEOREM LinesReadOnce ==
  ASSUME MaxOut \in Nat, JobApart
  PROVE  Output!Spec => []Output!EveryLineRead
<1>1. Output!Init => ReadInv
  BY OutputInit
<1>2. ReadInv /\ [Output!Next]_(Output!vars) => ReadInv'
  BY OutputNext
<1>3. ReadInv => Output!EveryLineRead
  BY ReadInvHolds
<1> QED
  BY <1>1, <1>2, <1>3, PTL DEF Output!Spec

-----------------------------------------------------------------------------
(* Where a note is shown beside the lines of a diff (WebReview).           *)

LEMMA CardinalityIs ==
  ASSUME NEW S
  PROVE  Review!Cardinality(S) = Cardinality(S)
BY Zenon DEF Review!Cardinality, Cardinality

Starts(diff, k) == {j \in 1..k : diff[j].kind = "hunk"}

Body(diff, k) ==
  {j \in 1..k : diff[j].kind \notin {"hunk", "header"} /\ \A i \in Starts(diff, k) : i < j}

LEMMA Counted ==
  ASSUME NEW n \in Nat, NEW S \in SUBSET (1..n), NEW T \in SUBSET S
  PROVE  /\ Cardinality(S) \in Nat /\ Cardinality(T) \in Nat
         /\ T # S => Cardinality(T) < Cardinality(S)
         /\ S # {} => Cardinality(S) >= 1
<1>1. IsFiniteSet(1..n)
  BY FS_Interval
<1>2. IsFiniteSet(S)
  BY <1>1, FS_Subset
<1>3. IsFiniteSet(T)
  BY <1>2, FS_Subset
<1>4. Cardinality(S) \in Nat /\ Cardinality(T) \in Nat
  BY <1>2, <1>3, FS_CardinalityType
<1>5. PICK c, d : c = Cardinality(S) /\ d = Cardinality(T)
  OBVIOUS
<1>6. d <= c /\ (c = d => S = T)
  BY <1>2, <1>5, FS_Subset
<1>7. c = 0 <=> S = {}
  BY <1>2, <1>5, FS_EmptySet
<1>8. c \in Nat /\ d \in Nat
  BY <1>4, <1>5
<1>9. T # S => d < c
  <2>1. c # d => d < c
    BY <1>6, <1>8
  <2> QED
    BY <1>6, <2>1, Zenon
<1>10. S # {} => c >= 1
  <2>1. c # 0 => c >= 1
    BY <1>8
  <2> QED
    BY <1>7, <2>1, Zenon
<1> QED
  BY <1>4, <1>5, <1>9, <1>10, Zenon

(* The key of a line is its hunk and its place there.                      *)
LEMMA KeyIs ==
  ASSUME NEW diff, NEW k, diff[k].kind # "header"
  PROVE  Review!AnchorKey(diff, k)
           = IF diff[k].kind = "hunk" THEN <<Cardinality(Starts(diff, k)), 0>>
             ELSE <<IF Cardinality(Starts(diff, k)) = 0 THEN 1 ELSE Cardinality(Starts(diff, k)),
                    Cardinality(Body(diff, k))>>
<1>1. PICK A : A = Starts(diff, k)
  OBVIOUS
<1>2. PICK B : B = Body(diff, k)
  OBVIOUS
<1>3. Review!HunkLine(diff, k)
        = IF diff[k].kind = "hunk" THEN <<Review!Cardinality(A), 0>>
          ELSE <<IF Review!Cardinality(A) = 0 THEN 1 ELSE Review!Cardinality(A),
                 Review!Cardinality(B)>>
  BY <1>1, <1>2, Zenon DEF Review!HunkLine, Starts, Body
<1> QED
  BY <1>1, <1>2, <1>3, CardinalityIs DEF Review!AnchorKey

(* No two lines have one key, if no line comes before the first hunk.      *)
LEMMA KeysDiffer ==
  ASSUME NEW n \in Nat, NEW diff, DOMAIN diff = 1..n, Review!Plain(diff),
         NEW j \in 1..n, NEW k \in 1..n, j < k,
         diff[j].kind # "header", diff[k].kind # "header"
  PROVE  Review!AnchorKey(diff, j) # Review!AnchorKey(diff, k)
<1> DEFINE a == Cardinality(Starts(diff, j))
           b == Cardinality(Starts(diff, k))
           x == Cardinality(Body(diff, j))
           y == Cardinality(Body(diff, k))
<1>1. Starts(diff, j) \subseteq Starts(diff, k) /\ Starts(diff, k) \in SUBSET (1..n)
  BY DEF Starts
<1>2. a \in Nat /\ b \in Nat /\ (Starts(diff, j) # Starts(diff, k) => a < b)
  BY <1>1, Counted
<1>3. Starts(diff, j) # {} /\ Starts(diff, k) # {}
  <2>1. CASE diff[j].kind = "hunk"
    BY <1>1, <2>1 DEF Starts
  <2>2. CASE diff[j].kind # "hunk"
    <3>1. PICK i \in 1..j : diff[i].kind = "hunk"
      BY <2>2 DEF Review!Plain
    <3> QED
      BY <1>1, <3>1 DEF Starts
  <2> QED
    BY <2>1, <2>2
<1>4. a >= 1 /\ b >= 1
  <2>1. Starts(diff, j) \in SUBSET (1..n)
    BY <1>1
  <2> QED
    BY <1>1, <1>3, <2>1, Counted
<1>5. Body(diff, j) \in SUBSET (1..n) /\ Body(diff, k) \in SUBSET (1..n)
  BY DEF Body
<1>6. x \in Nat /\ y \in Nat
  BY <1>5, Counted
<1>7. /\ Review!AnchorKey(diff, j) = <<a, IF diff[j].kind = "hunk" THEN 0 ELSE x>>
      /\ Review!AnchorKey(diff, k) = <<b, IF diff[k].kind = "hunk" THEN 0 ELSE y>>
  <2>1. a # 0 /\ b # 0
    BY <1>2, <1>4
  <2> QED
    BY <2>1, KeyIs
<1>8. CASE Starts(diff, j) # Starts(diff, k)
  <2>1. a # b
    BY <1>2, <1>8
  <2> HIDE DEF a, b, x, y
  <2> QED
    BY <1>7, <2>1
<1>9. CASE Starts(diff, j) = Starts(diff, k)
  <2>1. diff[k].kind # "hunk"
    <3> SUFFICES ASSUME diff[k].kind = "hunk" PROVE FALSE
      OBVIOUS
    <3>1. k \in Starts(diff, k) /\ k \notin Starts(diff, j)
      BY DEF Starts
    <3> QED
      BY <1>9, <3>1
  <2>2. k \in Body(diff, k)
    BY <2>1 DEF Body, Starts
  <2>3. y >= 1
    BY <1>5, <2>2, Counted
  <2>4. CASE diff[j].kind = "hunk"
    <3> HIDE DEF a, b, x, y
    <3> QED
      BY <1>6, <1>7, <2>1, <2>3, <2>4
  <2>5. CASE diff[j].kind # "hunk"
    <3>1. Body(diff, j) \subseteq Body(diff, k) /\ k \notin Body(diff, j)
      BY <1>9 DEF Body
    <3>2. x < y
      BY <1>5, <2>2, <3>1, Counted
    <3> HIDE DEF a, b, x, y
    <3> QED
      BY <1>6, <1>7, <2>1, <2>5, <3>2
  <2> QED
    BY <2>4, <2>5
<1> QED
  BY <1>8, <1>9

(* The key that is picked for a note is one of a line of the diff.         *)
LEMMA PickedIs ==
  ASSUME NEW n \in Nat, NEW diff, DOMAIN diff = 1..n, NEW note
  PROVE  \/ Review!PickInlineAnchorKey(note, diff) = <<>>
         \/ \E f \in 1..n : /\ diff[f].kind # "header"
                            /\ Review!PickInlineAnchorKey(note, diff) = Review!AnchorKey(diff, f)
<1> DEFINE all == {k \in DOMAIN diff : diff[k].kind # "header"}
           First(S) == CHOOSE k \in S : \A j \in S : k <= j
           Best(k) == \A j \in all :
                        Review!Score(note, diff[k].text) >= Review!Score(note, diff[j].text)
           best == {k \in all : Review!Score(note, diff[k].text) > 0 /\ Best(k)}
           changed == {k \in all : diff[k].kind \in {"add", "remove"}}
           those == IF best # {} THEN best ELSE IF changed # {} THEN changed ELSE all
<1>1. Review!PickInlineAnchorKey(note, diff)
        = IF all = {} THEN <<>> ELSE Review!AnchorKey(diff, First(those))
  BY Zenon DEF Review!PickInlineAnchorKey
<1>2. CASE all = {}
  BY <1>1, <1>2
<1>3. CASE all # {}
  <2>1. best \subseteq all /\ changed \subseteq all /\ all \in SUBSET Nat
    BY SMT
  <2> HIDE DEF best, changed
  <2>2. those \subseteq all /\ those # {}
    BY <1>3, <2>1
  <2>3. PICK T : T = those
    OBVIOUS
  <2>4. T \in SUBSET Nat /\ T # {}
    BY <2>1, <2>2, <2>3
  <2>5. \E k \in T : \A j \in T : k <= j
    BY <2>4, Smallest
  <2>6. PICK f : f = CHOOSE k \in T : \A j \in T : k <= j
    OBVIOUS
  <2>7. f \in T
    BY <2>5, <2>6
  <2>8. First(those) = f
    BY <2>3, <2>6
  <2>9. f \in 1..n /\ diff[f].kind # "header"
    BY <2>2, <2>3, <2>7
  <2> HIDE DEF all, those, First
  <2> QED
    BY <1>1, <1>3, <2>8, <2>9
<1> QED
  BY <1>2, <1>3

LEMMA NoteHasPlace ==
  ASSUME NEW n \in Nat, NEW diff, DOMAIN diff = 1..n, NEW note
  PROVE  /\ Review!PlacesOf(note, diff) # {}
         /\ Review!Plain(diff) => Cardinality(Review!PlacesOf(note, diff)) = 1
<1>1. PICK key : key = Review!PickInlineAnchorKey(note, diff)
  OBVIOUS
<1>2. PICK P : P = Review!PlacesOf(note, diff)
  OBVIOUS
<1>3. CASE key = <<>>
  <2>1. P = {0}
    BY <1>1, <1>2, <1>3 DEF Review!PlacesOf, Review!Floats
  <2> QED
    BY <1>2, <2>1, FS_Singleton
<1>4. CASE key # <<>>
  <2>1. PICK f \in 1..n : diff[f].kind # "header" /\ key = Review!AnchorKey(diff, f)
    BY <1>1, <1>4, PickedIs
  <2>2. P = {k \in DOMAIN diff : Review!AnchorKey(diff, k) = key}
    BY <1>1, <1>2, <1>4 DEF Review!PlacesOf, Review!Floats
  <2>3. f \in P
    BY <2>1, <2>2
  <2>4. ASSUME Review!Plain(diff), NEW k \in P PROVE k = f
    <3>1. k \in 1..n /\ Review!AnchorKey(diff, k) = key
      BY <2>2
    <3>2. diff[k].kind # "header"
      BY <1>4, <3>1 DEF Review!AnchorKey
    <3>3. ~(k < f)
      BY <2>1, <2>4, <3>1, <3>2, KeysDiffer
    <3>4. ~(f < k)
      BY <2>1, <2>4, <3>1, <3>2, KeysDiffer
    <3> QED
      BY <3>1, <3>3, <3>4
  <2>5. Review!Plain(diff) => P = {f}
    BY <2>3, <2>4
  <2> QED
    BY <1>2, <2>3, <2>5, FS_Singleton
<1> QED
  BY <1>3, <1>4

-----------------------------------------------------------------------------
(* The elements of a list that are in a set, and lists one after another:  *)
(* the recursions of Those and FlattenSeq have solutions.                  *)

Filter(f, s, T, n) == IF s[n] \in T THEN Append(f, s[n]) ELSE f

IsFilter(f, s, T, m) ==
  f = [n \in 0..m |-> IF n = 0 THEN <<>>
                      ELSE IF s[n] \in T THEN Append(f[n - 1], s[n]) ELSE f[n - 1]]

LEMMA FilterExists ==
  ASSUME NEW s, NEW T, NEW l \in Nat
  PROVE  \E f : IsFilter(f, s, T, l)
<1> DEFINE Bad == {m \in Nat : ~ \E f : IsFilter(f, s, T, m)}
<1>1. SUFFICES ASSUME Bad # {} PROVE FALSE
  OBVIOUS
<1>2. PICK m \in Bad : \A k \in Bad : m <= k
  <2>1. Bad \in SUBSET Nat
    OBVIOUS
  <2> HIDE DEF Bad
  <2> QED
    BY <1>1, <2>1, Smallest
<1>3. m \in Nat
  OBVIOUS
<1>4. CASE m = 0
  <2>1. IsFilter([n \in 0..0 |-> <<>>], s, T, 0)
    BY DEF IsFilter
  <2> QED
    BY <1>4, <2>1
<1>5. CASE m # 0
  <2>1. m - 1 \in Nat /\ ~(m <= m - 1)
    BY <1>3, <1>5
  <2>2. PICK f : IsFilter(f, s, T, m - 1)
    BY <1>2, <2>1
  <2>3. PICK g : g = [n \in 0..m |-> IF n = m THEN Filter(f[m - 1], s, T, m) ELSE f[n]]
    OBVIOUS
  <2>4. \A n \in 0..(m - 1) : g[n] = f[n]
    BY <1>3, <2>3
  <2>5. ASSUME NEW n \in 0..m
        PROVE  g[n] = IF n = 0 THEN <<>>
                      ELSE IF s[n] \in T THEN Append(g[n - 1], s[n]) ELSE g[n - 1]
    <3>1. CASE n = m
      <4>1. g[n] = Filter(f[m - 1], s, T, m) /\ g[m - 1] = f[m - 1]
        BY <1>3, <1>5, <2>3, <2>4, <3>1
      <4> QED
        BY <1>5, <3>1, <4>1 DEF Filter
    <3>2. CASE n # m
      <4>1. n \in 0..(m - 1)
        BY <1>3, <3>2
      <4>2. n # 0 => n - 1 \in 0..(m - 1)
        BY <4>1
      <4>3. f[n] = IF n = 0 THEN <<>>
                   ELSE IF s[n] \in T THEN Append(f[n - 1], s[n]) ELSE f[n - 1]
        BY <2>2, <4>1 DEF IsFilter
      <4> QED
        BY <2>4, <4>1, <4>2, <4>3
    <3> QED
      BY <3>1, <3>2
  <2>6. IsFilter(g, s, T, m)
    <3>1. g = [n \in 0..m |-> g[n]]
      BY <2>3
    <3> QED
      BY <2>5, <3>1 DEF IsFilter
  <2> QED
    BY <2>6
<1> QED
  BY <1>4, <1>5

LEMMA ThoseIs ==
  ASSUME NEW s, Len(s) \in Nat, NEW T
  PROVE  \E f : /\ Review!Those(s, T) = f[Len(s)]
                /\ f[0] = <<>>
                /\ \A n \in 1..Len(s) : f[n] = Filter(f[n - 1], s, T, n)
<1>1. PICK h : IsFilter(h, s, T, Len(s))
  BY FilterExists
<1>2. PICK f : f = CHOOSE g : IsFilter(g, s, T, Len(s))
  OBVIOUS
<1>3. IsFilter(f, s, T, Len(s))
  BY <1>1, <1>2
<1>4. Review!Those(s, T) = f[Len(s)]
  BY <1>2 DEF Review!Those, IsFilter
<1>5. f[0] = <<>>
  BY <1>3 DEF IsFilter
<1>6. ASSUME NEW n \in 1..Len(s) PROVE f[n] = Filter(f[n - 1], s, T, n)
  <2>1. n \in 0..Len(s) /\ n # 0
    OBVIOUS
  <2> QED
    BY <1>3, <2>1 DEF IsFilter, Filter
<1> QED
  BY <1>4, <1>5, <1>6

(* What a list has.                                                        *)
Has(s, x) == \E k \in DOMAIN s : s[k] = x

LEMMA HasAppended ==
  ASSUME NEW S, NEW s \in Seq(S), NEW x \in S, NEW y
  PROVE  Has(Append(s, x), y) <=> Has(s, y) \/ y = x
<1>1. PICK t : t = Append(s, x)
  OBVIOUS
<1>2. /\ DOMAIN t = 1..(Len(s) + 1) /\ DOMAIN s = 1..Len(s) /\ Len(s) \in Nat
      /\ t[Len(s) + 1] = x /\ \A k \in 1..Len(s) : t[k] = s[k]
  BY <1>1
<1>3. ASSUME Has(t, y) PROVE Has(s, y) \/ y = x
  <2>1. PICK k \in 1..(Len(s) + 1) : t[k] = y
    BY <1>2, <1>3 DEF Has
  <2>2. k \in 1..Len(s) \/ k = Len(s) + 1
    BY <1>2
  <2> QED
    BY <1>2, <2>1, <2>2 DEF Has
<1>4. ASSUME Has(s, y) PROVE Has(t, y)
  <2>1. PICK k \in 1..Len(s) : s[k] = y
    BY <1>2, <1>4 DEF Has
  <2>2. k \in 1..(Len(s) + 1) /\ t[k] = y
    BY <1>2, <2>1
  <2> QED
    BY <1>2, <2>2 DEF Has
<1>5. ASSUME y = x PROVE Has(t, y)
  <2>1. Len(s) + 1 \in DOMAIN t /\ t[Len(s) + 1] = y
    BY <1>2, <1>5
  <2> QED
    BY <2>1 DEF Has
<1> QED
  BY <1>1, <1>3, <1>4, <1>5

(* The first n elements have given those among them that are in T.         *)
Filtered(f, s, T, S, n) ==
  /\ f[n] \in Seq(S)
  /\ \A y : Has(f[n], y) <=> y \in T /\ \E k \in 1..n : s[k] = y

LEMMA ThoseHas ==
  ASSUME NEW S, NEW s \in Seq(S), NEW T
  PROVE  /\ Review!Those(s, T) \in Seq(S)
         /\ \A y : Has(Review!Those(s, T), y) <=> y \in T /\ Has(s, y)
<1>1. Len(s) \in Nat /\ DOMAIN s = 1..Len(s) /\ \A k \in 1..Len(s) : s[k] \in S
  OBVIOUS
<1>2. PICK f : /\ Review!Those(s, T) = f[Len(s)]
               /\ f[0] = <<>>
               /\ \A n \in 1..Len(s) : f[n] = Filter(f[n - 1], s, T, n)
  BY <1>1, ThoseIs
<1> DEFINE Bad == {n \in 0..Len(s) : ~Filtered(f, s, T, S, n)}
<1>3. 0 \notin Bad
  <2>1. <<>> \in Seq(S) /\ \A y : ~Has(<<>>, y)
    BY DEF Has
  <2>2. 1..0 = {}
    OBVIOUS
  <2>3. Filtered(f, s, T, S, 0)
    <3> SUFFICES /\ f[0] \in Seq(S)
                 /\ \A y : Has(f[0], y) <=> y \in T /\ \E k \in 1..0 : s[k] = y
      BY DEF Filtered
    <3>1. f[0] = <<>>
      BY <1>2
    <3> QED
      BY <2>1, <2>2, <3>1
  <2> QED
    BY <2>3
<1>4. ASSUME NEW n \in 1..Len(s), n - 1 \notin Bad PROVE n \notin Bad
  <2>1. n - 1 \in 0..Len(s) /\ Filtered(f, s, T, S, n - 1)
    BY <1>1, <1>4
  <2>2. PICK g : g = f[n - 1]
    OBVIOUS
  <2>3. g \in Seq(S) /\ \A y : Has(g, y) <=> y \in T /\ \E k \in 1..(n - 1) : s[k] = y
    BY <2>1, <2>2 DEF Filtered
  <2>4. f[n] = IF s[n] \in T THEN Append(g, s[n]) ELSE g
    BY <1>2, <2>2 DEF Filter
  <2>5. s[n] \in S
    BY <1>1
  <2>6. f[n] \in Seq(S)
    <3>1. PICK x : x = s[n]
      OBVIOUS
    <3>2. Append(g, x) \in Seq(S)
      BY <2>3, <2>5, <3>1
    <3> QED
      BY <2>3, <2>4, <3>1, <3>2
  <2>7. ASSUME NEW y PROVE (\E k \in 1..n : s[k] = y) <=> (\E k \in 1..(n - 1) : s[k] = y) \/ y = s[n]
    <3>1. n \in 1..n /\ \A k \in 1..n : k \in 1..(n - 1) \/ k = n
      BY <1>1
    <3>2. \A k \in 1..(n - 1) : k \in 1..n
      BY <1>1
    <3> QED
      BY <3>1, <3>2
  <2>8. ASSUME NEW y PROVE Has(f[n], y) <=> y \in T /\ \E k \in 1..n : s[k] = y
    <3>1. CASE s[n] \in T
      <4>1. Has(f[n], y) <=> Has(g, y) \/ y = s[n]
        BY <2>3, <2>4, <2>5, <3>1, HasAppended
      <4> QED
        BY <2>3, <2>7, <3>1, <4>1
    <3>2. CASE s[n] \notin T
      BY <2>3, <2>4, <2>7, <3>2
    <3> QED
      BY <3>1, <3>2
  <2> QED
    BY <2>6, <2>8 DEF Filtered
<1>5. Bad = {}
  <2> SUFFICES ASSUME Bad # {} PROVE FALSE
    OBVIOUS
  <2> HIDE DEF Bad
  <2>1. Bad \in SUBSET Nat /\ Bad \subseteq 0..Len(s)
    BY DEF Bad
  <2>2. PICK j \in Bad : \A i \in Bad : j <= i
    BY <2>1, Smallest
  <2>3. j \in 1..Len(s)
    BY <1>1, <1>3, <2>1, <2>2
  <2>4. j - 1 \notin Bad
    BY <2>2, <2>3
  <2> QED
    BY <1>4, <2>2, <2>3, <2>4
<1>6. Filtered(f, s, T, S, Len(s))
  BY <1>1, <1>5
<1> QED
  BY <1>1, <1>2, <1>6 DEF Filtered, Has

IsFlat(f, s, m) ==
  f = [n \in 1..m |-> IF n = 1 THEN s[n] ELSE f[n - 1] \o s[n]]

LEMMA FlatExists ==
  ASSUME NEW s, NEW l \in Nat
  PROVE  \E f : IsFlat(f, s, l)
<1> DEFINE Bad == {m \in Nat : ~ \E f : IsFlat(f, s, m)}
<1>1. SUFFICES ASSUME Bad # {} PROVE FALSE
  OBVIOUS
<1>2. PICK m \in Bad : \A k \in Bad : m <= k
  <2>1. Bad \in SUBSET Nat
    OBVIOUS
  <2> HIDE DEF Bad
  <2> QED
    BY <1>1, <2>1, Smallest
<1>3. m \in Nat
  OBVIOUS
<1>4. CASE m = 0
  <2>1. 1..0 = {}
    OBVIOUS
  <2>2. IsFlat([n \in 1..0 |-> <<>>], s, 0)
    BY <2>1 DEF IsFlat
  <2> QED
    BY <1>4, <2>2
<1>5. CASE m # 0
  <2>1. m - 1 \in Nat /\ ~(m <= m - 1)
    BY <1>3, <1>5
  <2>2. PICK f : IsFlat(f, s, m - 1)
    BY <1>2, <2>1
  <2>3. PICK g : g = [n \in 1..m |-> IF n = m THEN (IF m = 1 THEN s[m] ELSE f[m - 1] \o s[m])
                                      ELSE f[n]]
    OBVIOUS
  <2>4. \A n \in 1..(m - 1) : g[n] = f[n]
    BY <1>3, <2>3
  <2>5. ASSUME NEW n \in 1..m
        PROVE  g[n] = IF n = 1 THEN s[n] ELSE g[n - 1] \o s[n]
    <3>1. CASE n = m
      <4>1. g[n] = IF m = 1 THEN s[m] ELSE f[m - 1] \o s[m]
        BY <2>3, <3>1
      <4>2. m # 1 => g[m - 1] = f[m - 1]
        BY <1>3, <1>5, <2>4
      <4> QED
        BY <3>1, <4>1, <4>2
    <3>2. CASE n # m
      <4>1. n \in 1..(m - 1)
        BY <1>3, <3>2
      <4>2. n # 1 => n - 1 \in 1..(m - 1)
        BY <4>1
      <4>3. f[n] = IF n = 1 THEN s[n] ELSE f[n - 1] \o s[n]
        BY <2>2, <4>1 DEF IsFlat
      <4> QED
        BY <2>4, <4>1, <4>2, <4>3
    <3> QED
      BY <3>1, <3>2
  <2>6. IsFlat(g, s, m)
    <3>1. g = [n \in 1..m |-> g[n]]
      BY <2>3
    <3> QED
      BY <2>5, <3>1 DEF IsFlat
  <2> QED
    BY <2>6
<1> QED
  BY <1>4, <1>5

(* A flattened list of lists is a list of what they hold.                  *)
LEMMA FlatTyped ==
  ASSUME NEW S, NEW s, Len(s) \in Nat, DOMAIN s = 1..Len(s), \A k \in 1..Len(s) : s[k] \in Seq(S),
         Len(s) = 0 => s = <<>>
  PROVE  Review!FlattenSeq(s) \in Seq(S)
<1>1. CASE Len(s) = 0
  <2>1. Review!FlattenSeq(s) = s /\ s = <<>>
    BY <1>1 DEF Review!FlattenSeq
  <2> QED
    BY <2>1
<1>2. CASE Len(s) # 0
  <2>1. PICK h : IsFlat(h, s, Len(s))
    BY FlatExists
  <2>2. PICK f : f = CHOOSE g : IsFlat(g, s, Len(s))
    OBVIOUS
  <2>3. IsFlat(f, s, Len(s))
    BY <2>1, <2>2
  <2>4. Review!FlattenSeq(s) = f[Len(s)]
    BY <1>2, <2>2 DEF Review!FlattenSeq, IsFlat
  <2> DEFINE Bad == {n \in 1..Len(s) : f[n] \notin Seq(S)}
  <2>5. 1 \notin Bad
    BY <2>3 DEF IsFlat
  <2>6. ASSUME NEW n \in 2..Len(s), n - 1 \notin Bad PROVE n \notin Bad
    <3>1. n - 1 \in 1..Len(s) /\ n \in 1..Len(s) /\ n # 1
      OBVIOUS
    <3>2. f[n - 1] \in Seq(S) /\ s[n] \in Seq(S)
      BY <2>6, <3>1
    <3>3. f[n] = f[n - 1] \o s[n]
      BY <2>3, <3>1 DEF IsFlat
    <3>4. PICK a, b : a = f[n - 1] /\ b = s[n]
      OBVIOUS
    <3>5. a \o b \in Seq(S)
      BY <3>2, <3>4
    <3>6. f[n] \in Seq(S)
      BY <3>3, <3>4, <3>5
    <3> QED
      BY <3>6
  <2>7. Bad = {}
    <3> SUFFICES ASSUME Bad # {} PROVE FALSE
      OBVIOUS
    <3> HIDE DEF Bad
    <3>1. Bad \in SUBSET Nat /\ Bad \subseteq 1..Len(s)
      BY DEF Bad
    <3>2. PICK j \in Bad : \A i \in Bad : j <= i
      BY <3>1, Smallest
    <3>3. j \in 2..Len(s)
      BY <2>5, <3>1, <3>2
    <3>4. j - 1 \notin Bad
      BY <3>2, <3>3
    <3> QED
      BY <2>6, <3>2, <3>3, <3>4
  <2>8. Len(s) \in 1..Len(s)
    BY <1>2
  <2> QED
    BY <2>4, <2>7, <2>8
<1> QED
  BY <1>1, <1>2

-----------------------------------------------------------------------------
(* What the timelines hold: every part, change and diff is a list.         *)

Paras == {e.title : e \in Arrivals} \cup UNION {Review!ToSet(e.parts) : e \in Arrivals}

Deltas == UNION {Review!ToSet(e.changes) : e \in Arrivals}

DiffLines == UNION {Review!ToSet(d.diff) : d \in Deltas}

ArrivalsTyped ==
  /\ \A e \in Arrivals : e.parts \in Seq(Paras) /\ e.changes \in Seq(Deltas)
  /\ \A d \in Deltas : d.diff \in Seq(DiffLines)

EntrySet ==
  [id : Projects \X Nat, type : {e.type : e \in Arrivals}, title : {e.title : e \in Arrivals},
   parts : Seq(Paras), changes : Seq(Deltas)]

ChangeSet ==
  [id : (Projects \X Nat) \X Nat, path : {d.path : d \in Deltas}, diff : Seq(DiffLines)]

TimelinesTyped == project \in Projects /\ timelines \in [Projects -> Seq(EntrySet)]

LEMMA TimelinesStep ==
  ASSUME ArrivalsTyped, TimelinesTyped, [Review!Next]_Review!vars
  PROVE  TimelinesTyped'
<1>1. CASE project' \in Projects /\ UNCHANGED timelines
  BY <1>1 DEF TimelinesTyped
<1>2. ASSUME NEW p \in Projects, NEW e \in Arrivals, Review!Arrive(p, e) PROVE TimelinesTyped'
  <2>1. PICK s : s = timelines[p]
    OBVIOUS
  <2>2. s \in Seq(EntrySet) /\ Len(s) + 1 \in Nat
    BY <2>1 DEF TimelinesTyped
  <2>3. PICK x : x = [id |-> <<p, Len(s) + 1>>, type |-> e.type, title |-> e.title,
                      parts |-> e.parts, changes |-> e.changes]
    OBVIOUS
  <2>4. e.parts \in Seq(Paras) /\ <<p, Len(s) + 1>> \in Projects \X Nat
    BY <2>2 DEF ArrivalsTyped
  <2>5. x \in EntrySet
    <3>1. e.type \in {a.type : a \in Arrivals} /\ e.title \in {a.title : a \in Arrivals}
      OBVIOUS
    <3>2. e.changes \in Seq(Deltas)
      BY DEF ArrivalsTyped
    <3>3. PICK i, t, l, q, d : i = <<p, Len(s) + 1>> /\ t = e.type /\ l = e.title /\ q = e.parts
                               /\ d = e.changes
      OBVIOUS
    <3>4. x = [id |-> i, type |-> t, title |-> l, parts |-> q, changes |-> d]
      BY <2>3, <3>3
    <3> QED
      BY <2>4, <3>1, <3>2, <3>3, <3>4 DEF EntrySet
  <2>6. Append(s, x) \in Seq(EntrySet)
    BY <2>2, <2>5
  <2>7. timelines' = [timelines EXCEPT ![p] = Append(s, x)] /\ project' = project
    BY <1>2, <2>1, <2>3 DEF Review!Arrive
  <2> QED
    BY <2>6, <2>7 DEF TimelinesTyped
<1>3. ASSUME NEW p \in Projects, NEW e \in Arrivals, Review!Grow(p, e.title) PROVE TimelinesTyped'
  <2>1. PICK s : s = timelines[p]
    OBVIOUS
  <2>2. s \in Seq(EntrySet) /\ s # <<>>
    BY <1>3, <2>1 DEF TimelinesTyped, Review!Grow
  <2>3. PICK n : n = Len(s)
    OBVIOUS
  <2>4. n \in DOMAIN s /\ s[n] \in EntrySet
    BY <2>2, <2>3
  <2>5. PICK q : q = Append(s[n].parts, e.title)
    OBVIOUS
  <2>6. s[n].parts \in Seq(Paras) /\ e.title \in Paras
    BY <2>4 DEF Paras, EntrySet
  <2>7. q \in Seq(Paras)
    BY <2>5, <2>6
  <2>8. PICK x : x = [s[n] EXCEPT !.parts = q]
    OBVIOUS
  <2>9. x \in EntrySet
    BY <2>4, <2>7, <2>8 DEF EntrySet
  <2>10. [s EXCEPT ![n] = x] \in Seq(EntrySet)
    BY <2>2, <2>4, <2>9
  <2>11. timelines' = [timelines EXCEPT ![p] = [s EXCEPT ![n] = x]] /\ project' = project
    BY <1>3, <2>1, <2>3, <2>5, <2>8 DEF Review!Grow
  <2> QED
    BY <2>10, <2>11 DEF TimelinesTyped
<1>4. ASSUME Review!Next PROVE TimelinesTyped'
  <2>1. ASSUME NEW k \in DOMAIN calls, Review!Answer(k) PROVE TimelinesTyped'
    BY <2>1, <1>1 DEF Review!Answer, TimelinesTyped
  <2>2. ASSUME NEW k \in DOMAIN calls, NEW fails \in BOOLEAN, Review!Serve(k, fails)
        PROVE  TimelinesTyped'
    BY <2>2, <1>1 DEF Review!Serve, TimelinesTyped
  <2>3. CASE Review!Refresh
    BY <2>3, <1>1 DEF Review!Refresh, TimelinesTyped
  <2>4. ASSUME NEW kind \in {"stage", "revert"}, Review!Change(kind) PROVE TimelinesTyped'
    BY <2>4, <1>1 DEF Review!Change, TimelinesTyped
  <2>5. CASE Review!Commit
    BY <2>5, <1>1 DEF Review!Commit, TimelinesTyped
  <2>6. CASE Review!TypeMessage
    BY <2>6, <1>1 DEF Review!TypeMessage, TimelinesTyped
  <2>7. ASSUME NEW p \in Projects, Review!Show(p) PROVE TimelinesTyped'
    BY <2>7, <1>1 DEF Review!Show
  <2>8. ASSUME NEW p \in Projects, Review!RunEnds(p) PROVE TimelinesTyped'
    BY <2>8, <1>1 DEF Review!RunEnds, TimelinesTyped
  <2>9. ASSUME NEW m, Review!SetMode(m) PROVE TimelinesTyped'
    BY <2>9, <1>1 DEF Review!SetMode, TimelinesTyped
  <2>10. CASE Review!TogglePane
    BY <2>10, <1>1 DEF Review!TogglePane, TimelinesTyped
  <2>11. CASE Review!RunStarts
    BY <2>11, <1>1 DEF Review!RunStarts, TimelinesTyped
  <2>12. ASSUME NEW p, Review!Pane(p) PROVE TimelinesTyped'
    BY <2>12, <1>1 DEF Review!Pane, TimelinesTyped
  <2>13. ASSUME NEW k \in DOMAIN Review!Changes, Review!Select(k) PROVE TimelinesTyped'
    BY <2>12, <2>13 DEF Review!Select
  <2>14. ASSUME NEW k \in DOMAIN Review!VisibleNotes, Review!DismissFinding(k) PROVE TimelinesTyped'
    BY <2>12, <2>14 DEF Review!DismissFinding
  <2>15. CASE Review!RestoreDismissed
    BY <2>12, <2>15 DEF Review!RestoreDismissed
  <2>16. CASE Review!ToggleReviewed
    BY <2>12, <2>16 DEF Review!ToggleReviewed
  <2> QED
    BY <1>2, <1>3, <1>4, <2>1, <2>2, <2>3, <2>4, <2>5, <2>6, <2>7, <2>8, <2>9, <2>10, <2>11,
       <2>13, <2>14, <2>15, <2>16 DEF Review!Next
<1>5. CASE UNCHANGED Review!vars
  BY <1>5, <1>1 DEF Review!vars, TimelinesTyped
<1> QED
  BY <1>4, <1>5

-----------------------------------------------------------------------------
(* What the pane gets from a timeline.                                     *)

LEMMA ReverseTyped ==
  ASSUME NEW S, NEW s \in Seq(S)
  PROVE  Review!Reverse(s) \in Seq(S)
<1>1. \A i \in 1..Len(s) : (Len(s) - i) + 1 \in 1..Len(s)
  OBVIOUS
<1>2. \A i \in 1..Len(s) : s[(Len(s) - i) + 1] \in S
  BY <1>1
<1> QED
  BY <1>2 DEF Review!Reverse

LEMMA LastOnesTyped ==
  ASSUME NEW S, NEW s \in Seq(S), NEW n \in Nat
  PROVE  Review!LastOnes(s, n) \in Seq(S)
<1>1. PICK m : m = IF Len(s) > n THEN Len(s) - n + 1 ELSE 1
  OBVIOUS
<1>2. m \in Nat /\ m >= 1 /\ Len(s) \in Nat
  BY <1>1
<1>3. SubSeq(s, m, Len(s)) \in Seq(S)
  BY <1>2
<1> QED
  BY <1>1, <1>3 DEF Review!LastOnes

LEMMA ChangesTyped ==
  ASSUME ArrivalsTyped, NEW s \in Seq(EntrySet)
  PROVE  Review!ReviewChanges(s) \in Seq(ChangeSet)
<1>1. PICK q : q = Review!OfType(s, "patch")
  OBVIOUS
<1>2. q \in Seq(EntrySet)
  BY <1>1, ThoseHas DEF Review!OfType
<1> DEFINE Of(e) == [k \in DOMAIN e.changes |->
                       [id |-> <<e.id, k>>, path |-> e.changes[k].path,
                        diff |-> e.changes[k].diff]]
<1>3. PICK f : f = [k \in DOMAIN q |-> Of(q[k])]
  OBVIOUS
<1>4. Review!ReviewChanges(s) = Review!Reverse(Review!FlattenSeq(f))
  BY <1>1, <1>3, Zenon DEF Review!ReviewChanges
<1>5. ASSUME NEW k \in DOMAIN q PROVE f[k] \in Seq(ChangeSet)
  <2>1. PICK e : e = q[k]
    OBVIOUS
  <2>2. e.id \in Projects \X Nat /\ e.changes \in Seq(Deltas)
    <3>1. e \in EntrySet
      BY <1>2, <2>1
    <3> QED
      BY <3>1 DEF EntrySet
  <2>3. ASSUME NEW j \in DOMAIN e.changes
        PROVE  [id |-> <<e.id, j>>, path |-> e.changes[j].path, diff |-> e.changes[j].diff]
                 \in ChangeSet
    <3>1. e.changes[j] \in Deltas /\ <<e.id, j>> \in (Projects \X Nat) \X Nat
      BY <2>2
    <3> QED
      BY <3>1 DEF ChangeSet, ArrivalsTyped
  <2>4. DOMAIN e.changes = 1..Len(e.changes) /\ Len(e.changes) \in Nat
    BY <2>2
  <2>5. PICK g : g = Of(e)
    OBVIOUS
  <2>6. g \in Seq(ChangeSet)
    <3>1. \A j \in 1..Len(e.changes) : g[j] \in ChangeSet
      BY <2>3, <2>4, <2>5
    <3>2. g = [j \in 1..Len(e.changes) |-> g[j]]
      BY <2>4, <2>5
    <3>3. PICK n : n = Len(e.changes)
      OBVIOUS
    <3>4. n \in Nat /\ g = [j \in 1..n |-> g[j]] /\ \A j \in 1..n : g[j] \in ChangeSet
      BY <2>4, <3>1, <3>2, <3>3
    <3> HIDE DEF Of
    <3> QED
      BY <3>4
  <2> QED
    BY <1>3, <2>1, <2>5, <2>6
<1>6. /\ DOMAIN f = 1..Len(f) /\ Len(f) \in Nat /\ (Len(f) = 0 => f = <<>>)
      /\ DOMAIN f = DOMAIN q
  <2>1. DOMAIN q = 1..Len(q) /\ Len(q) \in Nat
    BY <1>2
  <2> HIDE DEF Of
  <2>2. DOMAIN f = 1..Len(q)
    BY <1>3, <2>1
  <2>3. f \in Seq({f[k] : k \in 1..Len(q)})
    <3>1. f = [k \in 1..Len(q) |-> f[k]]
      BY <1>3, <2>1
    <3> QED
      BY <2>1, <3>1
  <2> QED
    BY <2>1, <2>2, <2>3
<1>7. \A k \in 1..Len(f) : f[k] \in Seq(ChangeSet)
  BY <1>5, <1>6
<1>8. PICK a : a = Review!FlattenSeq(f)
  OBVIOUS
<1>9. a \in Seq(ChangeSet)
  BY <1>6, <1>7, <1>8, FlatTyped
<1> QED
  BY <1>4, <1>8, <1>9, ReverseTyped

LEMMA ShownChangesTyped ==
  ASSUME ArrivalsTyped, TimelinesTyped
  PROVE  Review!Changes \in Seq(ChangeSet)
<1>1. PICK s : s = timelines[project]
  OBVIOUS
<1>2. s \in Seq(EntrySet)
  BY <1>1 DEF TimelinesTyped
<1>3. PICK a : a = Review!ReviewChanges(s)
  OBVIOUS
<1>4. a \in Seq(ChangeSet)
  BY <1>2, <1>3, ChangesTyped
<1>5. Review!Changes = IF git.known
                       THEN Review!Those(a, {c \in Review!ToSet(a) : c.path \in git.status.changed})
                       ELSE a
  BY <1>1, <1>3, Zenon DEF Review!Changes, Review!VisibleReviewChanges
<1> QED
  BY <1>4, <1>5, ThoseHas

LEMMA NotesTyped ==
  ASSUME ArrivalsTyped, NEW s \in Seq(EntrySet)
  PROVE  \E S : Review!ReviewNotes(s) \in Seq(S)
<1>1. PICK f : f = [k \in DOMAIN s |-> Review!NotesOf(s[k])]
  OBVIOUS
<1>2. DOMAIN s = 1..Len(s) /\ Len(s) \in Nat
  OBVIOUS
<1>3. DOMAIN f = 1..Len(s)
  BY <1>1, <1>2
<1> DEFINE S == UNION {{f[k][j] : j \in DOMAIN f[k]} : k \in 1..Len(s)}
<1>4. ASSUME NEW k \in 1..Len(s) PROVE f[k] \in Seq(S)
  <2>1. PICK e : e = s[k]
    OBVIOUS
  <2>2. PICK g : g = f[k]
    OBVIOUS
  <2>3. e \in EntrySet
    BY <1>2, <2>1
  <2>4. g = Review!NotesOf(e)
    BY <1>1, <1>2, <2>1, <2>2
  <2>5. \E n \in Nat : DOMAIN g = 1..n /\ g = [j \in 1..n |-> g[j]]
    <3>1. CASE Len(e.parts) <= 1
      <4>1. \E x : g = <<x>>
        BY <2>4, <3>1 DEF Review!NotesOf
      <4>2. PICK x : g = <<x>>
        BY <4>1
      <4> QED
        BY <4>2
    <3>2. CASE ~(Len(e.parts) <= 1)
      <4>1. DOMAIN e.parts = 1..Len(e.parts) /\ Len(e.parts) \in Nat
        BY <2>3 DEF EntrySet
      <4>2. g = [j \in DOMAIN e.parts |->
                   [id |-> <<e.id, j>>, words |-> e.title \o e.parts[j]]]
        BY <2>4, <3>2 DEF Review!NotesOf
      <4> QED
        BY <4>1, <4>2
    <3> QED
      BY <3>1, <3>2
  <2>6. \A j \in DOMAIN g : g[j] \in S
    BY <2>2
  <2> HIDE DEF S
  <2>7. g \in Seq(S)
    BY <2>5, <2>6
  <2> QED
    BY <2>2, <2>7
<1> HIDE DEF S
<1>5. Len(f) = Len(s) /\ (Len(f) = 0 => f = <<>>)
  <2>1. f = [k \in 1..Len(s) |-> f[k]]
    BY <1>1, <1>2
  <2>2. f \in Seq({f[k] : k \in 1..Len(s)})
    BY <1>2, <2>1
  <2> QED
    BY <1>2, <1>3, <2>2
<1>6. Review!FlattenSeq(f) \in Seq(S)
  BY <1>2, <1>3, <1>4, <1>5, FlatTyped
<1> QED
  BY <1>1, <1>6 DEF Review!ReviewNotes

LEMMA VisibleTyped ==
  ASSUME ArrivalsTyped, TimelinesTyped, MaxFindings \in Nat
  PROVE  \E S : Review!VisibleNotes \in Seq(S)
<1>1. PICK s : s = timelines[project]
  OBVIOUS
<1>2. s \in Seq(EntrySet)
  BY <1>1 DEF TimelinesTyped
<1>3. PICK q : q = Review!OfType(s, "note")
  OBVIOUS
<1>4. q \in Seq(EntrySet)
  BY <1>2, <1>3, ThoseHas DEF Review!OfType
<1>5. PICK f : f = Review!ReviewFindings(s)
  OBVIOUS
<1>6. f \in Seq(EntrySet)
  <2>1. PICK l : l = Review!LastOnes(q, MaxFindings)
    OBVIOUS
  <2>2. l \in Seq(EntrySet)
    BY <1>4, <2>1, LastOnesTyped
  <2>3. f = Review!Reverse(l)
    BY <1>3, <1>5, <2>1 DEF Review!ReviewFindings
  <2> QED
    BY <2>2, <2>3, ReverseTyped
<1>7. PICK n : n = Review!ReviewNotes(f)
  OBVIOUS
<1>8. PICK S : n \in Seq(S)
  BY <1>6, <1>7, NotesTyped
<1>9. Review!VisibleNotes = Review!Those(n, {x \in Review!ToSet(n) : x.id \notin pane.dismissed})
  BY <1>1, <1>5, <1>7, Zenon DEF Review!VisibleNotes, Review!Notes
<1>10. Review!VisibleNotes \in Seq(S)
  BY <1>8, <1>9, ThoseHas
<1> QED
  BY <1>10

LEMMA NotesOnce ==
  ASSUME ArrivalsTyped, TimelinesTyped, MaxFindings \in Nat
  PROVE  Review!NoteOnce
<1>1. PICK v, c, g : v = Review!VisibleNotes /\ c = Review!Changes /\ g = Review!GeneralFindings
  OBVIOUS
<1>2. PICK S : v \in Seq(S)
  BY <1>1, VisibleTyped
<1>3. c \in Seq(ChangeSet)
  BY <1>1, ShownChangesTyped
<1>4. ASSUME NEW k \in DOMAIN v, NEW own,
             own = {x \in Review!ToSet(c) : Review!FindingMatchesChange(v[k], x)}
      PROVE  own = {} <=> v[k] \in Review!ToSet(g)
  <2>1. PICK T : T = {n \in Review!ToSet(v) :
                        \A j \in DOMAIN c : ~Review!FindingMatchesChange(n, c[j])}
    OBVIOUS
  <2>2. g = Review!Those(v, T)
    BY <1>1, <2>1, Zenon DEF Review!GeneralFindings
  <2>3. Has(g, v[k]) <=> v[k] \in T /\ Has(v, v[k])
    BY <1>2, <2>2, ThoseHas
  <2>4. Has(v, v[k]) /\ v[k] \in Review!ToSet(v)
    BY <1>4 DEF Has, Review!ToSet
  <2>5. v[k] \in Review!ToSet(g) <=> Has(g, v[k])
    BY DEF Has, Review!ToSet
  <2>6. v[k] \in T <=> own = {}
    BY <1>4, <2>1, <2>4 DEF Review!ToSet
  <2> QED
    BY <2>3, <2>4, <2>5, <2>6
<1>5. ASSUME NEW x \in Review!ToSet(c), NEW note
      PROVE  /\ Review!PlacesOf(note, x.diff) # {}
             /\ Review!Plain(x.diff) => Review!Cardinality(Review!PlacesOf(note, x.diff)) = 1
  <2>1. x \in ChangeSet
    BY <1>3 DEF Review!ToSet
  <2>2. x.diff \in Seq(DiffLines)
    BY <2>1 DEF ChangeSet
  <2>4. PICK n, diff : n = Len(x.diff) /\ diff = x.diff
    OBVIOUS
  <2>5. n \in Nat /\ DOMAIN diff = 1..n
    BY <2>2, <2>4
  <2>6. /\ Review!PlacesOf(note, diff) # {}
        /\ Review!Plain(diff) => Cardinality(Review!PlacesOf(note, diff)) = 1
    BY <2>5, NoteHasPlace
  <2> QED
    BY <2>4, <2>6, CardinalityIs
<1> QED
  BY <1>1, <1>4, <1>5, Zenon DEF Review!NoteOnce

(* Every note that was not dismissed is shown: among the general ones if it*)
(* names no changed file, or else with each changed file it names, and in  *)
(* exactly one place of its diff if that has no lines before the first     *)
(* hunk (parseDiffLines, pickInlineAnchorKey).                             *)
THEOREM NotesShownOnce ==
  ASSUME ArrivalsTyped, MaxFindings \in Nat
  PROVE  Review!Spec => []Review!NoteOnce
<1>1. Review!Init => TimelinesTyped
  <2>1. <<>> \in Seq(EntrySet)
    OBVIOUS
  <2> QED
    BY <2>1 DEF Review!Init, TimelinesTyped
<1>2. TimelinesTyped /\ [Review!Next]_Review!vars => TimelinesTyped'
  BY TimelinesStep
<1>3. TimelinesTyped => Review!NoteOnce
  BY NotesOnce
<1> QED
  BY <1>1, <1>2, <1>3, PTL DEF Review!Spec

-----------------------------------------------------------------------------
(* What was selected, dismissed and reviewed can be shown.                 *)

IsPane(p) == DOMAIN p = {"open", "selected", "dismissed", "reviewed", "message"}

(* The pane p goes with these changes and findings.                        *)
Fits(p, changes, findings) ==
  /\ IsPane(p)
  /\ p.selected \in Review!IdsOf(changes) \cup {<<>>}
  /\ p.reviewed \subseteq Review!IdsOf(changes)
  /\ {id[1] : id \in p.dismissed} \subseteq Review!IdsOf(findings)
  /\ ~p.open => p = Review!NoPane

PaneInv == Fits(pane, Review!Changes, Review!ReviewFindings(timelines[project]))

LEMMA SettledFits ==
  ASSUME NEW p, IsPane(p), p.open, NEW c \in Seq(ChangeSet), NEW f
  PROVE  Fits(Review!Settled(p, c, f), c, f)
<1>1. PICK q : q = Review!Settled(p, c, f)
  OBVIOUS
<1>2. PICK s : s = IF c = <<>> THEN <<>>
                   ELSE IF p.selected \in Review!IdsOf(c) THEN p.selected ELSE c[1].id
  OBVIOUS
<1>3. PICK d : d = {id \in p.dismissed : id[1] \in Review!IdsOf(f)}
  OBVIOUS
<1>4. PICK r : r = p.reviewed \cap Review!IdsOf(c)
  OBVIOUS
<1>5. q = [p EXCEPT !.selected = s, !.dismissed = d, !.reviewed = r]
  BY <1>1, <1>2, <1>3, <1>4 DEF Review!Settled
<1>6. IsPane(q) /\ q.open /\ q.selected = s /\ q.dismissed = d /\ q.reviewed = r
  BY <1>5 DEF IsPane
<1>7. s \in Review!IdsOf(c) \cup {<<>>}
  <2>1. CASE c = <<>>
    BY <1>2, <2>1
  <2>2. CASE c # <<>>
    <3>1. 1 \in DOMAIN c
      BY <2>2
    <3>2. c[1].id \in Review!IdsOf(c)
      BY <3>1 DEF Review!IdsOf
    <3> QED
      BY <1>2, <2>2, <3>2
  <2> QED
    BY <2>1, <2>2
<1>8. {id[1] : id \in d} \subseteq Review!IdsOf(f)
  BY <1>3
<1>9. r \subseteq Review!IdsOf(c)
  BY <1>4
<1> QED
  BY <1>1, <1>6, <1>7, <1>8, <1>9 DEF Fits

LEMMA NoPaneFits ==
  ASSUME NEW c, NEW f
  PROVE  Fits(Review!NoPane, c, f)
BY DEF Review!NoPane, Fits, IsPane

LEMMA RenderedFits ==
  ASSUME ArrivalsTyped, TimelinesTyped', NEW p, IsPane(p), Review!Rendered(p)
  PROVE  PaneInv'
<1>1. PICK s, g : s = timelines'[project'] /\ g = git'
  OBVIOUS
<1>2. s \in Seq(EntrySet)
  BY <1>1 DEF TimelinesTyped
<1>3. PICK c : c = Review!VisibleReviewChanges(s, g)
  OBVIOUS
<1>4. c \in Seq(ChangeSet)
  <2>1. PICK a : a = Review!ReviewChanges(s)
    OBVIOUS
  <2>2. a \in Seq(ChangeSet)
    BY <1>2, <2>1, ChangesTyped
  <2>3. c = IF g.known THEN Review!Those(a, {x \in Review!ToSet(a) : x.path \in g.status.changed})
            ELSE a
    BY <1>3, <2>1, Zenon DEF Review!VisibleReviewChanges
  <2> QED
    BY <2>2, <2>3, ThoseHas
<1>5. PICK f : f = Review!ReviewFindings(s)
  OBVIOUS
<1>6. pane' = IF p.open THEN Review!Settled(p, c, f) ELSE Review!NoPane
  BY <1>1, <1>3, <1>5, Zenon DEF Review!Rendered
<1>7. Review!Changes' = c
  BY <1>1, <1>3, Zenon DEF Review!Changes
<1>8. Review!ReviewFindings(timelines[project])' = f
  BY <1>1, <1>5, Zenon
<1>9. PICK q : q = pane'
  OBVIOUS
<1>10. Fits(q, c, f)
  BY <1>4, <1>6, <1>9, SettledFits, NoPaneFits
<1> QED
  BY <1>7, <1>8, <1>9, <1>10 DEF PaneInv

LEMMA PaneLeft ==
  ASSUME PaneInv, UNCHANGED <<timelines, project, pane>>,
         git'.known = git.known, git'.status = git.status
  PROVE  PaneInv'
<1>1. Review!Changes' = Review!Changes
  BY Zenon DEF Review!Changes, Review!VisibleReviewChanges
<1>2. Review!ReviewFindings(timelines[project])' = Review!ReviewFindings(timelines[project])
  BY Zenon
<1> QED
  BY <1>1, <1>2, Zenon DEF PaneInv

LEMMA PaneStep ==
  ASSUME ArrivalsTyped, TimelinesTyped', ReviewInv, PaneInv, [Review!Next]_Review!vars
  PROVE  PaneInv'
<1>1. IsPane(pane) /\ IsGit(git)
  BY DEF PaneInv, Fits, ReviewInv, ReviewTyped
<1>2. ASSUME NEW k \in DOMAIN calls, Review!Answer(k) PROVE PaneInv'
  <2>1. PICK m : m = (pane.message /\ calls[k].kind # "commit")
    OBVIOUS
  <2>2. Review!Rendered([pane EXCEPT !.message = m])
    BY <1>2, <2>1 DEF Review!Answer
  <2>3. IsPane([pane EXCEPT !.message = m])
    BY <1>1 DEF IsPane
  <2> QED
    BY <2>2, <2>3, RenderedFits
<1>3. ASSUME NEW k \in DOMAIN calls, NEW fails \in BOOLEAN, Review!Serve(k, fails) PROVE PaneInv'
  BY <1>3, PaneLeft DEF Review!Serve
<1>4. CASE Review!Refresh
  BY <1>1, <1>4, PaneLeft DEF Review!Refresh, IsGit
<1>5. ASSUME NEW kind \in {"stage", "revert"}, Review!Change(kind) PROVE PaneInv'
  BY <1>1, <1>5, PaneLeft DEF Review!Change, IsGit
<1>6. CASE Review!Commit
  BY <1>1, <1>6, PaneLeft DEF Review!Commit, IsGit
<1>7. CASE Review!TypeMessage
  <2>1. PICK p : p = [pane EXCEPT !.message = TRUE]
    OBVIOUS
  <2>2. /\ IsPane(p) /\ p.selected = pane.selected /\ p.dismissed = pane.dismissed
        /\ p.reviewed = pane.reviewed /\ p.open = pane.open
    BY <1>1, <2>1 DEF IsPane
  <2>3. pane' = p /\ pane.open /\ UNCHANGED <<timelines, project, git>>
    BY <1>7, <2>1 DEF Review!TypeMessage
  <2>4. PICK c, f : c = Review!Changes /\ f = Review!ReviewFindings(timelines[project])
    OBVIOUS
  <2>5. Review!Changes' = c /\ Review!ReviewFindings(timelines[project])' = f
    BY <2>3, <2>4, Zenon DEF Review!Changes
  <2>6. Fits(p, c, f)
    BY <2>2, <2>3, <2>4 DEF PaneInv, Fits
  <2> QED
    BY <2>3, <2>5, <2>6, Zenon DEF PaneInv
<1>8. ASSUME NEW p \in Projects, Review!Show(p) PROVE PaneInv'
  <2>1. PICK q : q = IF modes[p] = "review" THEN Review!Open(pane) ELSE pane
    OBVIOUS
  <2>2. IsPane(q)
    BY <1>1, <2>1 DEF Review!Open, IsPane
  <2> QED
    BY <1>8, <2>1, <2>2, RenderedFits DEF Review!Show
<1>9. ASSUME NEW p \in Projects, Review!RunEnds(p) PROVE PaneInv'
  BY <1>9, PaneLeft DEF Review!RunEnds
<1>10. ASSUME NEW m, Review!SetMode(m) PROVE PaneInv'
  <2>1. PICK q : q = IF m = "review" THEN Review!Open(pane) ELSE pane
    OBVIOUS
  <2>2. IsPane(q)
    BY <1>1, <2>1 DEF Review!Open, IsPane
  <2> QED
    BY <1>10, <2>1, <2>2, RenderedFits DEF Review!SetMode
<1>11. CASE Review!TogglePane
  <2>1. PICK o : o = ~pane.open
    OBVIOUS
  <2>2. IsPane([pane EXCEPT !.open = o])
    BY <1>1 DEF IsPane
  <2> QED
    BY <1>11, <2>1, <2>2, RenderedFits DEF Review!TogglePane
<1>12. CASE Review!RunStarts
  BY <1>12, PaneLeft DEF Review!RunStarts
<1>13. ASSUME NEW p, NEW e, Review!Arrive(p, e) PROVE PaneInv'
  BY <1>1, <1>13, RenderedFits DEF Review!Arrive
<1>14. ASSUME NEW p, NEW text, Review!Grow(p, text) PROVE PaneInv'
  BY <1>1, <1>14, RenderedFits DEF Review!Grow
<1>15. ASSUME NEW k, Review!Select(k) PROVE PaneInv'
  <2>1. PICK i : i = Review!Changes[k].id
    OBVIOUS
  <2>2. IsPane([pane EXCEPT !.selected = i])
    BY <1>1 DEF IsPane
  <2>3. Review!Rendered([pane EXCEPT !.selected = i])
    BY <1>15, <2>1 DEF Review!Select, Review!Pane
  <2> QED
    BY <2>2, <2>3, RenderedFits
<1>16. ASSUME NEW k, Review!DismissFinding(k) PROVE PaneInv'
  <2>1. PICK d : d = pane.dismissed \cup {Review!VisibleNotes[k].id}
    OBVIOUS
  <2>2. IsPane([pane EXCEPT !.dismissed = d])
    BY <1>1 DEF IsPane
  <2>3. Review!Rendered([pane EXCEPT !.dismissed = d])
    BY <1>16, <2>1 DEF Review!DismissFinding, Review!Pane
  <2> QED
    BY <2>2, <2>3, RenderedFits
<1>17. CASE Review!RestoreDismissed
  <2>1. IsPane([pane EXCEPT !.dismissed = {}])
    BY <1>1 DEF IsPane
  <2> QED
    BY <1>17, <2>1, RenderedFits DEF Review!RestoreDismissed, Review!Pane
<1>18. CASE Review!ToggleReviewed
  <2>1. PICK i : i = Review!SelectedChange.id
    OBVIOUS
  <2>2. PICK r : r = IF i \in pane.reviewed THEN pane.reviewed \ {i} ELSE pane.reviewed \cup {i}
    OBVIOUS
  <2>3. IsPane([pane EXCEPT !.reviewed = r])
    BY <1>1 DEF IsPane
  <2>4. Review!Rendered([pane EXCEPT !.reviewed = r])
    BY <1>18, <2>1, <2>2 DEF Review!ToggleReviewed, Review!Pane
  <2> QED
    BY <2>3, <2>4, RenderedFits
<1>19. CASE UNCHANGED Review!vars
  BY <1>19, PaneLeft DEF Review!vars
<1> QED
  BY <1>2, <1>3, <1>4, <1>5, <1>6, <1>7, <1>8, <1>9, <1>10, <1>11, <1>12, <1>13, <1>14, <1>15,
     <1>16, <1>17, <1>18, <1>19 DEF Review!Next

-----------------------------------------------------------------------------
(* What the repositories and the calls are about.                          *)

CallsTyped == \A k \in DOMAIN calls : calls[k].p \in Projects

FilesTyped == \A p \in Projects : repo[p].staged \cup repo[p].edited \subseteq Paths

GitTyped ==
  /\ git.action \in {"", "stage", "revert", "commit"}
  /\ git.known \/ git.status = Review!NoStatus

Known == busy \subseteq Projects /\ CallsTyped /\ FilesTyped /\ GitTyped

PathsKnown == \A d \in Deltas : d.path \in Paths

LEMMA SentTyped ==
  ASSUME NEW out, IsList(out), \A k \in DOMAIN out : out[k].p \in Projects,
         NEW c, c.p \in Projects, calls' = Append(out, c)
  PROVE  CallsTyped'
<1>1. /\ calls'[Len(calls')] = c
      /\ \A k \in DOMAIN out : k \in DOMAIN calls' /\ calls'[k] = out[k]
      /\ \A k \in DOMAIN calls' : k \in DOMAIN out \/ k = Len(calls')
  BY AppendedList
<1> QED
  BY <1>1 DEF CallsTyped

LEMMA AfterTyped ==
  ASSUME NEW c, NEW r, IsRepo(r), r.staged \cup r.edited \subseteq Paths
  PROVE  Review!After(c, r).staged \cup Review!After(c, r).edited \subseteq Paths
<1>1. CASE c.kind = "stage"
  BY <1>1 DEF Review!After
<1>2. CASE c.kind = "revert"
  BY <1>2 DEF Review!After
<1>3. CASE c.kind = "commit"
  BY <1>3 DEF Review!After, IsRepo
<1>4. CASE c.kind \notin {"stage", "revert", "commit"}
  <2>1. Review!After(c, r) = r
    BY <1>4, Zenon DEF Review!After
  <2> QED
    BY <2>1
<1> QED
  BY <1>1, <1>2, <1>3, <1>4

LEMMA KnownStep ==
  ASSUME ArrivalsTyped, PathsKnown, TimelinesTyped, ReviewInv, Known, [Review!Next]_Review!vars
  PROVE  Known'
<1>1. /\ IsGit(git) /\ IsList(calls) /\ project \in Projects /\ DOMAIN repo = Projects
      /\ \A p \in Projects : IsRepo(repo[p])
      /\ \A k \in DOMAIN calls : IsCall(calls[k])
  BY DEF ReviewInv, ReviewTyped
<1>2. ASSUME UNCHANGED <<busy, repo>>, GitTyped', CallsTyped' PROVE Known'
  BY <1>2 DEF Known, FilesTyped
<1>3. ASSUME UNCHANGED git PROVE GitTyped'
  BY <1>3 DEF Known, GitTyped
<1>4. ASSUME UNCHANGED calls PROVE CallsTyped'
  BY <1>4 DEF Known, CallsTyped
<1>5. ASSUME UNCHANGED repo PROVE FilesTyped'
  BY <1>5 DEF Known, FilesTyped
<1>6. ASSUME UNCHANGED <<busy, repo, calls, git>> PROVE Known'
  BY <1>2, <1>3, <1>4, <1>6
<1>7. \A k \in DOMAIN calls : calls[k].p \in Projects
  BY DEF Known, CallsTyped
<1>8. ASSUME NEW k \in DOMAIN calls, Review!Answer(k) PROVE Known'
  <2>1. /\ git' = Review!Landed(git, calls[k]) /\ calls' = Review!RemoveAt(calls, k)
        /\ UNCHANGED <<busy, repo>>
    BY <1>8 DEF Review!Answer
  <2>2. CallsTyped'
    <3>1. \A j \in DOMAIN calls' : \E i \in DOMAIN calls : calls'[j] = calls[i]
      BY <1>1, <2>1, ShorterList
    <3> QED
      BY <1>7, <3>1 DEF CallsTyped
  <2>3. GitTyped'
    <3>1. PICK g, c : g = git /\ c = calls[k]
      OBVIOUS
    <3>2. IsGit(g) /\ g.action \in {"", "stage", "revert", "commit"}
          /\ (g.known \/ g.status = Review!NoStatus)
      BY <1>1, <3>1 DEF Known, GitTyped
    <3>3. PICK h : h = Review!Landed(g, c)
      OBVIOUS
    <3>4. h.action \in {"", g.action} /\ (h.known \/ (h.known = g.known /\ h.status = g.status))
      <4>1. PICK t : t = IF c.kind = "refresh" THEN "idle" ELSE "success"
        OBVIOUS
      <4>2. PICK s : s = IF c.ok THEN [g EXCEPT !.status = c.answer, !.known = TRUE, !.tone = t]
                         ELSE [g EXCEPT !.tone = "error"]
        OBVIOUS
      <4>3. h = IF c.kind = "refresh" THEN [s EXCEPT !.loading = FALSE] ELSE [s EXCEPT !.action = ""]
        BY <3>3, <4>1, <4>2 DEF Review!Landed
      <4>4. IsGit(s) /\ s.action = g.action
            /\ (s.known \/ (s.known = g.known /\ s.status = g.status))
        BY <3>2, <4>2 DEF IsGit
      <4>5. CASE c.kind = "refresh"
        BY <4>3, <4>4, <4>5 DEF IsGit
      <4>6. CASE c.kind # "refresh"
        BY <4>3, <4>4, <4>6 DEF IsGit
      <4> QED
        BY <4>5, <4>6
    <3>5. git' = h
      BY <2>1, <3>1, <3>3
    <3> QED
      BY <3>2, <3>4, <3>5 DEF GitTyped
  <2> QED
    BY <1>2, <2>1, <2>2, <2>3
<1>9. ASSUME NEW k \in DOMAIN calls, NEW fails \in BOOLEAN, Review!Serve(k, fails) PROVE Known'
  <2>1. PICK c : c = calls[k]
    OBVIOUS
  <2>2. c.p \in Projects /\ IsCall(c)
    BY <1>1, <1>7, <2>1
  <2>3. PICK now : /\ now = Review!After(c, repo[c.p]) \/ now = repo[c.p]
                   /\ repo' = [repo EXCEPT ![c.p] = now]
    BY <1>9, <2>1 DEF Review!Serve
  <2>4. now.staged \cup now.edited \subseteq Paths
    <3>1. PICK r : r = repo[c.p]
      OBVIOUS
    <3>2. IsRepo(r) /\ r.staged \cup r.edited \subseteq Paths
      BY <1>1, <2>2, <3>1 DEF Known, FilesTyped
    <3> QED
      BY <2>3, <3>1, <3>2, AfterTyped
  <2>5. FilesTyped'
    BY <1>1, <2>2, <2>3, <2>4 DEF Known, FilesTyped
  <2>6. CallsTyped'
    <3>1. PICK now2, ok : calls' = [calls EXCEPT ![k] =
            [calls[k] EXCEPT !.done = TRUE, !.ok = ok /\ ~fails,
                             !.answer = Review!StatusOf(calls[k].p, now2)]]
      BY <1>9, Zenon DEF Review!Serve
    <3>2. PICK o, a : o = (ok /\ ~fails) /\ a = Review!StatusOf(calls[k].p, now2)
      OBVIOUS
    <3>3. PICK x : x = [c EXCEPT !.done = TRUE, !.ok = o, !.answer = a]
      OBVIOUS
    <3>4. calls' = [calls EXCEPT ![k] = x]
      BY <2>1, <3>1, <3>2, <3>3
    <3>5. x.p = c.p
      BY <2>2, <3>3 DEF IsCall
    <3> QED
      BY <1>7, <2>2, <3>4, <3>5 DEF CallsTyped
  <2> QED
    BY <1>3, <1>9, <2>5, <2>6 DEF Review!Serve, Known
<1>10. ASSUME NEW c, c.p = project, calls' = Append(calls, c) PROVE CallsTyped'
  BY <1>1, <1>7, <1>10, SentTyped
<1>11. CASE Review!Refresh
  <2>1. GitTyped'
    BY <1>1, <1>11 DEF Review!Refresh, Known, GitTyped, IsGit
  <2>2. CallsTyped'
    BY <1>10, <1>11 DEF Review!Refresh, Review!Send, Review!Call
  <2> QED
    BY <1>2, <1>11, <2>1, <2>2 DEF Review!Refresh
<1>12. ASSUME NEW kind \in {"stage", "revert"}, Review!Change(kind) PROVE Known'
  <2>1. GitTyped'
    BY <1>1, <1>12 DEF Review!Change, Known, GitTyped, IsGit
  <2>2. CallsTyped'
    BY <1>10, <1>12 DEF Review!Change, Review!Send, Review!Call
  <2> QED
    BY <1>2, <1>12, <2>1, <2>2 DEF Review!Change
<1>13. /\ IsList(Review!AllMixed(calls))
       /\ \A k \in DOMAIN Review!AllMixed(calls) : Review!AllMixed(calls)[k].p \in Projects
  BY <1>1, <1>7, AllMixedFacts
<1>14. CASE Review!Commit
  <2>1. GitTyped'
    BY <1>1, <1>14 DEF Review!Commit, Known, GitTyped, IsGit
  <2>2. CallsTyped'
    <3>1. PICK out : out = IF git.loading THEN Review!AllMixed(calls) ELSE calls
      OBVIOUS
    <3>2. IsList(out) /\ \A k \in DOMAIN out : out[k].p \in Projects
      BY <1>1, <1>7, <1>13, <3>1
    <3>3. PICK m : m = (git.loading \/ Review!Mixed(calls))
      OBVIOUS
    <3>4. PICK c : c = Review!Call(project, "commit", "", m)
      OBVIOUS
    <3>5. c.p \in Projects
      BY <1>1, <3>4 DEF Review!Call
    <3>6. calls' = Append(out, c)
      BY <1>14, <3>1, <3>3, <3>4 DEF Review!Commit, Review!Send
    <3> QED
      BY <3>2, <3>5, <3>6, SentTyped
  <2> QED
    BY <1>2, <1>14, <2>1, <2>2 DEF Review!Commit
<1>15. ASSUME NEW p \in Projects, Review!Show(p) PROVE Known'
  <2>1. GitTyped'
    BY <1>15 DEF Review!Show, Review!NoGit, GitTyped
  <2>2. CallsTyped'
    <3>1. PICK m : m = (calls # <<>>)
      OBVIOUS
    <3>2. PICK c : c = Review!Call(p, "refresh", "", m)
      OBVIOUS
    <3>3. c.p \in Projects
      BY <3>2 DEF Review!Call
    <3>4. PICK out : out = Review!AllMixed(calls)
      OBVIOUS
    <3>5. calls' = Append(out, c)
      BY <1>15, <3>1, <3>2, <3>4 DEF Review!Show, Review!Send
    <3> QED
      BY <1>13, <3>3, <3>4, <3>5, SentTyped
  <2> QED
    BY <1>2, <1>15, <2>1, <2>2 DEF Review!Show
<1>16. ASSUME NEW p \in Projects, Review!RunEnds(p) PROVE Known'
  BY <1>3, <1>4, <1>5, <1>16 DEF Review!RunEnds, Known
<1>17. CASE Review!RunStarts
  BY <1>1, <1>3, <1>4, <1>5, <1>17 DEF Review!RunStarts, Known
<1>18. ASSUME NEW p \in Projects, NEW e \in Arrivals, Review!Arrive(p, e) PROVE Known'
  <2>1. PICK n : n = {e.changes[k].path : k \in DOMAIN e.changes}
    OBVIOUS
  <2>2. n \subseteq Paths
    <3> SUFFICES ASSUME NEW k \in DOMAIN e.changes PROVE e.changes[k].path \in Paths
      BY <2>1
    <3>1. e.changes[k] \in Deltas
      BY DEF ArrivalsTyped
    <3> QED
      BY <3>1 DEF PathsKnown
  <2>3. PICK r : r = [repo[p] EXCEPT !.edited = repo[p].edited \cup n]
    OBVIOUS
  <2>4. repo' = [repo EXCEPT ![p] = r]
    BY <1>18, <2>1, <2>3 DEF Review!Arrive
  <2>5. r.staged \cup r.edited \subseteq Paths
    <3>1. PICK x : x = repo[p]
      OBVIOUS
    <3>2. IsRepo(x) /\ x.staged \cup x.edited \subseteq Paths
      BY <1>1, <3>1 DEF Known, FilesTyped
    <3>3. r.staged = x.staged /\ r.edited = x.edited \cup n
      BY <2>3, <3>1, <3>2 DEF IsRepo
    <3> QED
      BY <2>2, <3>2, <3>3
  <2>6. FilesTyped'
    BY <1>1, <2>4, <2>5 DEF Known, FilesTyped
  <2> QED
    BY <1>3, <1>4, <1>18, <2>6 DEF Review!Arrive, Known
<1>19. ASSUME Review!Next PROVE Known'
  <2>1. ASSUME NEW p, Review!Pane(p) PROVE Known'
    BY <1>6, <2>1 DEF Review!Pane
  <2>2. CASE Review!TypeMessage
    BY <1>6, <2>2 DEF Review!TypeMessage
  <2>3. ASSUME NEW m, Review!SetMode(m) PROVE Known'
    BY <1>6, <2>3 DEF Review!SetMode
  <2>4. CASE Review!TogglePane
    BY <1>6, <2>4 DEF Review!TogglePane
  <2>5. ASSUME NEW p, NEW text, Review!Grow(p, text) PROVE Known'
    BY <1>6, <2>5 DEF Review!Grow
  <2>6. ASSUME NEW k, Review!Select(k) PROVE Known'
    BY <2>1, <2>6 DEF Review!Select
  <2>7. ASSUME NEW k, Review!DismissFinding(k) PROVE Known'
    BY <2>1, <2>7 DEF Review!DismissFinding
  <2>8. CASE Review!RestoreDismissed
    BY <2>1, <2>8 DEF Review!RestoreDismissed
  <2>9. CASE Review!ToggleReviewed
    BY <2>1, <2>9 DEF Review!ToggleReviewed
  <2> QED
    BY <1>8, <1>9, <1>11, <1>12, <1>14, <1>15, <1>16, <1>17, <1>18, <1>19, <2>2, <2>3, <2>4,
       <2>5, <2>6, <2>7, <2>8, <2>9 DEF Review!Next
<1>20. CASE UNCHANGED Review!vars
  BY <1>6, <1>20 DEF Review!vars
<1> QED
  BY <1>19, <1>20

(* What the pane has selected, dismissed and marked as reviewed is always  *)
(* among what it can show of the session on the page, whatever arrives,    *)
(* git reports and the user changes (the effects of SessionReviewPane);    *)
(* and the calls and repositories are of the projects and files there are. *)
THEOREM ReviewTypeCorrect ==
  ASSUME ArrivalsTyped, PathsKnown
  PROVE  Review!Spec => []Review!TypeOK
<1> DEFINE I == ReviewInv /\ TimelinesTyped /\ PaneInv /\ Known
<1>1. Review!Init => I
  <2> SUFFICES ASSUME Review!Init PROVE I
    OBVIOUS
  <2>1. ReviewInv
    BY ReviewInit
  <2>2. TimelinesTyped
    <3>1. <<>> \in Seq(EntrySet)
      OBVIOUS
    <3> QED
      BY <3>1 DEF Review!Init, TimelinesTyped
  <2>3. PaneInv
    BY NoPaneFits DEF Review!Init, PaneInv
  <2>4. CallsTyped
    <3>1. PICK c : c = Review!Call(project, "refresh", "", FALSE)
      OBVIOUS
    <3>2. calls = <<c>> /\ project \in Projects
      BY <3>1 DEF Review!Init
    <3>3. DOMAIN calls = 1..1 /\ calls[1] = c /\ c.p = project
      <4>1. c.p = project
        BY <3>1 DEF Review!Call
      <4>2. DOMAIN calls = 1..1 /\ calls[1] = c
        BY <3>2
      <4> QED
        BY <4>1, <4>2
    <3>4. \A k \in DOMAIN calls : k = 1
      BY <3>3
    <3>5. \A k \in DOMAIN calls : calls[k].p = project
      BY <3>3, <3>4
    <3> QED
      BY <3>2, <3>5 DEF CallsTyped
  <2>5. GitTyped
    BY DEF Review!Init, Review!NoGit, GitTyped
  <2>6. FilesTyped /\ busy \subseteq Projects
    BY DEF Review!Init, FilesTyped
  <2> QED
    BY <2>1, <2>2, <2>3, <2>4, <2>5, <2>6 DEF Known
<1>2. I /\ [Review!Next]_Review!vars => I'
  BY ReviewStep, TimelinesStep, PaneStep, KnownStep
<1>3. I => Review!TypeOK
  BY DEF Review!TypeOK, PaneInv, Fits, Known, CallsTyped, FilesTyped, GitTyped, TimelinesTyped
<1> HIDE DEF I
<1> QED
  BY <1>1, <1>2, <1>3, PTL DEF Review!Spec

-----------------------------------------------------------------------------
(* Projects and sessions.  WebOps is another part of the page, with state  *)
(* of its own.                                                             *)

CONSTANTS Places, ActiveHost, MaxTasks, MaxPageOps

VARIABLES hosts, projects, sessions, starting, writing, job, tab, tasks, made, pageOps, raced

Ops == INSTANCE WebOps WITH MaxOps <- MaxPageOps, ops <- pageOps, page <- tab

records == <<projects, sessions, starting, writing, raced>>

(* So have a session that is being started and one that a handler holds:   *)
(* they have their project, or it was deleted since.                       *)
RecordsInv ==
  /\ sessions \subseteq projects \cup raced
  /\ starting \subseteq projects \cup raced
  /\ writing \subseteq projects \cup raced

(* What the page and the hosts do leaves the records alone.                *)
LEMMA TaskLeaves ==
  ASSUME NEW t, Ops!TaskNext(t), ~Ops!ProjectSaved(t), ~Ops!ProjectDeleted(t)
  PROVE  UNCHANGED records
<1>1. CASE Ops!Fails(t)
  BY <1>1 DEF Ops!Fails, records, Ops!server
<1>2. CASE Ops!ListsRead(t) \/ Ops!EnsureLocalCodexHost(t) \/ Ops!ListsLand(t)
  BY <1>2 DEF Ops!ListsRead, Ops!EnsureLocalCodexHost, Ops!ListsLand, records, Ops!server
<1>3. CASE Ops!HostSaved(t) \/ Ops!Probed(t) \/ Ops!HostDeleted(t)
  BY <1>3 DEF Ops!HostSaved, Ops!Probed, Ops!HostDeleted, records, Ops!server
<1>4. CASE Ops!JobCanceled(t) \/ Ops!PollRead(t) \/ Ops!PollLands(t) \/ Ops!PlatformAnswers(t)
  BY <1>4 DEF Ops!JobCanceled, Ops!PollRead, Ops!PollLands, Ops!PlatformAnswers, records,
              Ops!server
<1>5. CASE Ops!ProjectsRefreshed(t)
  BY <1>5 DEF Ops!ProjectsRefreshed, records, Ops!server
<1>6. CASE \E ok \in BOOLEAN : \/ Ops!SourcesLand(t, ok) \/ Ops!ProjectResolved(t, ok)
                              \/ Ops!SessionsCounted(t, ok)
  BY <1>6 DEF Ops!SourcesLand, Ops!ProjectResolved, Ops!SessionsCounted, records, Ops!server
<1> QED
  BY <1>1, <1>2, <1>3, <1>4, <1>5, <1>6 DEF Ops!TaskNext

LEMMA HostLeavesRecords ==
  ASSUME NEW h, Ops!HostNext(h)
  PROVE  UNCHANGED records
  BY DEF Ops!HostNext, Ops!ToggleHostSelection, Ops!StartEditHost, Ops!ProbeHost,
         Ops!AskDeleteHost, Ops!SelectPlatformHost, Ops!Touch, Ops!Begin, records,
         Ops!server

LEMMA UserLeavesRecords ==
  ASSUME Ops!UserNext
  PROVE  UNCHANGED records
<1>1. CASE \/ Ops!Unlock \/ Ops!Refresh \/ Ops!Logout
           \/ Ops!SetAllHosts \/ Ops!SetFilter \/ Ops!CancelHostEdit
  BY <1>1 DEF Ops!Unlock, Ops!Refresh, Ops!Logout, Ops!SetAllHosts, Ops!SetFilter,
              Ops!CancelHostEdit, Ops!Touch, Ops!Begin, records, Ops!server
<1>2. CASE Ops!AddHost \/ Ops!CancelJob \/ Ops!Poll
  BY <1>2 DEF Ops!AddHost, Ops!CancelJob, Ops!Poll, Ops!Touch, Ops!Begin, records, Ops!server
<1>3. CASE \E mode \in {"ssh", "local"} : Ops!FillForm(mode)
  BY <1>3 DEF Ops!FillForm, Ops!Touch, records, Ops!server
<1>4. CASE Ops!RunPlatformLogin \/ Ops!RunPlatformMCP \/ Ops!RunPlatformCloud
  BY <1>4 DEF Ops!RunPlatformLogin, Ops!RunPlatformMCP, Ops!RunPlatformCloud, Ops!RunPlatform,
              Ops!Begin, records, Ops!server
<1> QED
  BY <1>1, <1>2, <1>3, <1>4 DEF Ops!UserNext

LEMMA PlaceStep ==
  ASSUME RecordsInv, NEW spot, Ops!ProjectNext(spot)
  PROVE  RecordsInv'
<1>1. CASE Ops!SaveProject(spot) \/ Ops!ArchiveProject(spot)
  BY <1>1 DEF Ops!SaveProject, Ops!ArchiveProject, Ops!Begin, Ops!server, RecordsInv
<1>2. CASE Ops!StartSession(spot)
  BY <1>2 DEF Ops!StartSession, RecordsInv
<1>3. CASE Ops!SessionStarted(spot)
  BY <1>3 DEF Ops!SessionStarted, RecordsInv
<1>4. CASE Ops!SessionArchived(spot)
  BY <1>4 DEF Ops!SessionArchived, RecordsInv
<1>5. CASE Ops!SessionRead(spot)
  BY <1>5 DEF Ops!SessionRead, RecordsInv
<1>6. CASE Ops!SessionWritten(spot)
  BY <1>6 DEF Ops!SessionWritten, RecordsInv
<1> QED
  BY <1>1, <1>2, <1>3, <1>4, <1>5, <1>6 DEF Ops!ProjectNext

LEMMA RecordsStep ==
  ASSUME RecordsInv, [Ops!Next]_Ops!vars
  PROVE  RecordsInv'
<1>1. CASE UNCHANGED records
  BY <1>1 DEF records, RecordsInv
<1>2. CASE \E t \in tasks : Ops!TaskNext(t)
  <2>1. PICK t \in tasks : Ops!TaskNext(t)
    BY <1>2
  <2>2. CASE Ops!ProjectSaved(t)
    BY <2>2 DEF Ops!ProjectSaved, RecordsInv
  <2>3. CASE Ops!ProjectDeleted(t)
    BY <2>3 DEF Ops!ProjectDeleted, Ops!DeleteProject, RecordsInv
  <2> QED
    BY <1>1, <2>1, <2>2, <2>3, TaskLeaves
<1>3. CASE \E spot \in Places : Ops!ProjectNext(spot)
  BY <1>3, PlaceStep
<1>4. CASE \/ \E h \in Ops!Shown : Ops!HostNext(h)
           \/ Ops!UserNext
  BY <1>1, <1>4, HostLeavesRecords, UserLeavesRecords
<1>5. CASE Ops!JobRuns \/ \E id \in Ops!HostIDs(hosts) : Ops!HostLeaves(id)
  BY <1>1, <1>5 DEF Ops!JobRuns, Ops!HostLeaves, records
<1>6. CASE UNCHANGED Ops!vars
  BY <1>1, <1>6 DEF Ops!vars, records
<1> QED
  BY <1>2, <1>3, <1>4, <1>5, <1>6 DEF Ops!Next

(* However archiving a project, starting sessions in it, changing and      *)
(* archiving them interleave, by any number of clients: a session of the   *)
(* server has its project, unless the project was deleted between the two  *)
(* steps of a handler, one that starts a session in it or one that read a  *)
(* session of it and writes it back (DeleteProject, UpsertSession,         *)
(* resolveCodexV2StartTarget), and was not made again since.               *)
THEOREM SessionsKeepProject == Ops!Spec => []Ops!SessionsHaveProject
<1>1. Ops!Init => RecordsInv
  BY DEF Ops!Init, RecordsInv
<1>2. RecordsInv /\ [Ops!Next]_Ops!vars => RecordsInv'
  BY RecordsStep
<1>3. RecordsInv => Ops!SessionsHaveProject
  BY DEF RecordsInv, Ops!SessionsHaveProject
<1> QED
  BY <1>1, <1>2, <1>3, PTL DEF Ops!Spec

-----------------------------------------------------------------------------
(* What the page, the handlers in progress and the server hold: hosts that *)
(* have been made, and places.                                             *)

(* The ids of the hosts made so far, and none.                              *)
IdOrNone(n) == 0..n

HostSet(n) == [id : 1..n, local : BOOLEAN]
JobStates == {"none", "running", "ended"}
Forms == {"", "ssh", "local"}

PageSet(n) ==
  [auth : {"locked", "checking", "ready"}, hosts : Seq(HostSet(n)), all : BOOLEAN,
   selected : SUBSET (1..n), filter : BOOLEAN, editing : IdOrNone(n), form : Forms,
   adding : BOOLEAN, busy : IdOrNone(n), refreshing : BOOLEAN,
   jobs : JobStates, active : JobStates, sources : SUBSET Places, filled : SUBSET Places,
   saving : BOOLEAN, deleting : BOOLEAN, platform : IdOrNone(n),
   section : {"", "login", "mcp", "cloud"}]

GotSet(n) ==
  [hosts : Seq(HostSet(n)), job : JobStates]

Kinds == {"unlock", "refresh", "save", "probe", "delete", "cancel", "poll", "platform",
          "project", "archive"}
Steps == {"lists", "ensure", "relist", "land", "sources", "call", "poll", "polled",
          "projects", "resolve", "count"}
Held(n) == Forms \cup JobStates \cup BOOLEAN \cup IdOrNone(n)

TaskSet(n) ==
  [n : Nat, kind : Kinds, on : IdOrNone(n) \cup Places, held : Held(n), step : Steps,
   got : GotSet(n)]

(* A handler holds what its kind is about.                                 *)
Meant(t, n) ==
  /\ t.kind = "save" => t.on \in IdOrNone(n)
  /\ t.kind = "project" => t.on \in Places

(* What the page is shown of the hosts is of those it lists.               *)
PageFits(p) ==
  /\ p.selected \subseteq Ops!HostIDs(p.hosts)
  /\ p.platform \in Ops!HostIDs(p.hosts) \cup {0}

OwnIDs(list) == \A i, j \in DOMAIN list : list[i].id = list[j].id => i = j

HostsInv ==
  /\ made \in Nat /\ hosts \in Seq(HostSet(made)) /\ OwnIDs(hosts)

TabInv == tab \in PageSet(made) /\ PageFits(tab)

TasksInv ==
  /\ tasks \subseteq TaskSet(made) /\ \A t \in tasks : Meant(t, made)
  /\ IsFiniteSet(tasks) /\ Cardinality(tasks) <= MaxTasks

PlacesInv ==
  /\ projects \subseteq Places /\ sessions \subseteq Places /\ starting \subseteq Places
  /\ job \in JobStates /\ pageOps \in 0..MaxPageOps

OpsInv == HostsInv /\ TabInv /\ TasksInv /\ PlacesInv

-----------------------------------------------------------------------------
(* More hosts are made.                                                    *)

LEMMA MoreHosts ==
  ASSUME NEW n \in Nat
  PROVE  /\ HostSet(n) \subseteq HostSet(n + 1) /\ Seq(HostSet(n)) \subseteq Seq(HostSet(n + 1))
         /\ PageSet(n) \subseteq PageSet(n + 1) /\ TaskSet(n) \subseteq TaskSet(n + 1)
         /\ IdOrNone(n) \subseteq IdOrNone(n + 1)
<1>1. 1..n \subseteq 1..(n + 1) /\ IdOrNone(n) \subseteq IdOrNone(n + 1)
  BY DEF IdOrNone
<1>2. HostSet(n) \subseteq HostSet(n + 1)
  BY <1>1 DEF HostSet
<1>3. Seq(HostSet(n)) \subseteq Seq(HostSet(n + 1))
  BY <1>2
<1>4. PageSet(n) \subseteq PageSet(n + 1)
  BY <1>1, <1>3 DEF PageSet
<1>5. GotSet(n) \subseteq GotSet(n + 1)
  BY <1>3 DEF GotSet
<1>6. Held(n) \subseteq Held(n + 1)
  BY <1>1 DEF Held
<1>7. TaskSet(n) \subseteq TaskSet(n + 1)
  BY <1>1, <1>5, <1>6 DEF TaskSet
<1> QED
  BY <1>1, <1>2, <1>3, <1>4, <1>7

LEMMA IdsIn ==
  ASSUME NEW n \in Nat
  PROVE  0 \in IdOrNone(n) /\ 1..n \subseteq IdOrNone(n) /\ (IdOrNone(n) \ {0}) \subseteq 1..n
BY DEF IdOrNone

LEMMA IdsOf ==
  ASSUME NEW n \in Nat, NEW list \in Seq(HostSet(n))
  PROVE  /\ Len(list) \in Nat /\ DOMAIN list = 1..Len(list)
         /\ \A i \in DOMAIN list : list[i] \in HostSet(n)
         /\ Ops!HostIDs(list) \subseteq 1..n
         /\ \A i \in DOMAIN list : list[i].id \in Ops!HostIDs(list)
         /\ list # <<>> => 1 \in DOMAIN list
<1>1. Len(list) \in Nat /\ DOMAIN list = 1..Len(list)
  BY LenProperties
<1>2. \A i \in DOMAIN list : list[i] \in HostSet(n)
  BY <1>1, ElementOfSeq
<1>3. Ops!HostIDs(list) \subseteq 1..n
  BY <1>2 DEF Ops!HostIDs, HostSet
<1>4. \A i \in DOMAIN list : list[i].id \in Ops!HostIDs(list)
  BY DEF Ops!HostIDs
<1>5. list # <<>> => 1 \in DOMAIN list
  BY <1>1, EmptySeq
<1> QED
  BY <1>1, <1>2, <1>3, <1>4, <1>5

-----------------------------------------------------------------------------
(* The hosts of the server.                                                *)

LEMMA HostAdded ==
  ASSUME HostsInv, NEW h \in HostSet(made'), h.id \notin Ops!HostIDs(hosts),
         hosts' = Append(hosts, h), made' = made \/ made' = made + 1
  PROVE  HostsInv'
<1>1. made \in Nat /\ hosts \in Seq(HostSet(made)) /\ OwnIDs(hosts) /\ made' \in Nat
  BY DEF HostsInv
<1>2. hosts \in Seq(HostSet(made'))
  BY <1>1, MoreHosts
<1>3. hosts' \in Seq(HostSet(made'))
  BY <1>2
<1>4. /\ Len(hosts) \in Nat /\ DOMAIN hosts = 1..Len(hosts)
      /\ DOMAIN hosts' = 1..(Len(hosts) + 1)
      /\ \A k \in 1..Len(hosts) : hosts'[k] = hosts[k]
      /\ hosts'[Len(hosts) + 1] = h
  BY <1>2, AppendProperties, LenProperties
<1>5. \A k \in 1..Len(hosts) : hosts'[k].id # h.id
  BY <1>4 DEF Ops!HostIDs
<1>6. OwnIDs(hosts')
  <2> SUFFICES ASSUME NEW i \in DOMAIN hosts', NEW j \in DOMAIN hosts',
                      hosts'[i].id = hosts'[j].id
               PROVE  i = j
    BY DEF OwnIDs
  <2>1. CASE i \in 1..Len(hosts) /\ j \in 1..Len(hosts)
    BY <1>1, <1>4, <2>1 DEF OwnIDs
  <2>2. CASE i \notin 1..Len(hosts) /\ j \in 1..Len(hosts)
    BY <1>4, <1>5, <2>2
  <2>3. CASE i \in 1..Len(hosts) /\ j \notin 1..Len(hosts)
    BY <1>4, <1>5, <2>3
  <2>4. CASE i \notin 1..Len(hosts) /\ j \notin 1..Len(hosts)
    BY <1>4, <2>4
  <2> QED
    BY <2>1, <2>2, <2>3, <2>4
<1> QED
  BY <1>1, <1>3, <1>6 DEF HostsInv

(* SelectInSeq finds the first of the places with what is looked for.      *)
LEMMA FirstIn ==
  ASSUME NEW m \in Nat, NEW I \in SUBSET (1..m), NEW i,
         i = IF I # {} THEN Ops!Min(I) ELSE 0
  PROVE  (I = {} /\ i = 0) \/ i \in I
<1>1. CASE I # {}
  <2>1. I \in SUBSET Nat
    OBVIOUS
  <2>2. \E k \in I : \A x \in I : k <= x
    BY <1>1, <2>1, Smallest
  <2> QED
    BY <1>1, <2>2 DEF Ops!Min
<1> QED
  BY <1>1

FirstOf(id) ==
  LET I == {k \in 1..Len(hosts) : hosts[k].id = id}
  IN IF I # {} THEN Ops!Min(I) ELSE 0

LEMMA HostPlace ==
  ASSUME HostsInv, NEW id, NEW i, i = FirstOf(id)
  PROVE  \/ i = 0 /\ id \notin Ops!HostIDs(hosts)
         \/ i \in DOMAIN hosts /\ hosts[i].id = id
<1>1. Len(hosts) \in Nat /\ DOMAIN hosts = 1..Len(hosts)
  BY IdsOf DEF HostsInv
<1> DEFINE I == {k \in 1..Len(hosts) : hosts[k].id = id}
<1>2. i = IF I # {} THEN Ops!Min(I) ELSE 0
  BY DEF FirstOf
<1>3. I \in SUBSET (1..Len(hosts))
  OBVIOUS
<1>4. (I = {} /\ i = 0) \/ i \in I
  <2> HIDE DEF I
  <2> QED
    BY <1>1, <1>2, <1>3, FirstIn
<1> QED
  BY <1>1, <1>4 DEF Ops!HostIDs

LEMMA HostReplaced ==
  ASSUME HostsInv, NEW i \in DOMAIN hosts, NEW h \in HostSet(made), h.id = hosts[i].id,
         hosts' = [hosts EXCEPT ![i] = h], made' = made
  PROVE  HostsInv'
<1>1. made \in Nat /\ hosts \in Seq(HostSet(made)) /\ OwnIDs(hosts)
  BY DEF HostsInv
<1>2. Len(hosts) \in Nat /\ DOMAIN hosts = 1..Len(hosts)
  BY <1>1, IdsOf
<1>3. hosts' \in Seq(HostSet(made))
  BY <1>1, <1>2, ExceptSeq
<1>4. \A k \in DOMAIN hosts : hosts'[k].id = hosts[k].id
  BY <1>1
<1>5. DOMAIN hosts' = DOMAIN hosts
  OBVIOUS
<1>6. OwnIDs(hosts')
  BY <1>1, <1>4, <1>5 DEF OwnIDs
<1> QED
  BY <1>1, <1>3, <1>6 DEF HostsInv

LEMMA HostRemoved ==
  ASSUME HostsInv, NEW i \in DOMAIN hosts, hosts' = Ops!RemoveAt(hosts, i), made' = made
  PROVE  HostsInv'
<1> DEFINE a == SubSeq(hosts, 1, i - 1)
           b == SubSeq(hosts, i + 1, Len(hosts))
<1>1. made \in Nat /\ hosts \in Seq(HostSet(made)) /\ OwnIDs(hosts)
  BY DEF HostsInv
<1>2. Len(hosts) \in Nat /\ DOMAIN hosts = 1..Len(hosts)
  BY <1>1, IdsOf
<1>3. /\ a \in Seq(HostSet(made)) /\ Len(a) = i - 1
      /\ \A k \in 1..(i - 1) : a[k] = hosts[k]
  BY <1>1, <1>2, SubSeqProperties
<1>4. /\ b \in Seq(HostSet(made)) /\ Len(b) = Len(hosts) - i
      /\ \A k \in 1..(Len(hosts) - i) : b[k] = hosts[i + k]
  BY <1>1, <1>2, SubSeqProperties
<1>5. hosts' = a \o b
  BY DEF Ops!RemoveAt
<1> HIDE DEF a, b
<1>6. /\ hosts' \in Seq(HostSet(made)) /\ Len(hosts') = Len(hosts) - 1
      /\ \A k \in 1..(Len(hosts) - 1) :
            hosts'[k] = IF k <= i - 1 THEN a[k] ELSE b[k - (i - 1)]
  <2>1. /\ a \o b \in Seq(HostSet(made)) /\ Len(a \o b) = Len(a) + Len(b)
        /\ \A k \in 1..(Len(a) + Len(b)) :
             (a \o b)[k] = IF k <= Len(a) THEN a[k] ELSE b[k - Len(a)]
    BY <1>3, <1>4, ConcatProperties, Zenon
  <2>2. Len(a) + Len(b) = Len(hosts) - 1
    BY <1>2, <1>3, <1>4
  <2> QED
    BY <1>3, <1>5, <2>1, <2>2
<1>7. DOMAIN hosts' = 1..(Len(hosts) - 1)
  BY <1>6, LenProperties
<1> DEFINE At(k) == IF k <= i - 1 THEN k ELSE k + 1
<1>8. ASSUME NEW k \in DOMAIN hosts' PROVE At(k) \in DOMAIN hosts /\ hosts'[k] = hosts[At(k)]
  <2>1. CASE k <= i - 1
    BY <1>2, <1>3, <1>6, <1>7, <2>1
  <2>2. CASE ~(k <= i - 1)
    <3>1. k - (i - 1) \in 1..(Len(hosts) - i) /\ i + (k - (i - 1)) = k + 1
          /\ k + 1 \in DOMAIN hosts
      BY <1>2, <1>7, <2>2
    <3>2. b[k - (i - 1)] = hosts[k + 1]
      BY <1>4, <3>1
    <3> QED
      BY <1>6, <1>7, <2>2, <3>1, <3>2
  <2> QED
    BY <2>1, <2>2
<1>9. OwnIDs(hosts')
  <2> SUFFICES ASSUME NEW k \in DOMAIN hosts', NEW m \in DOMAIN hosts', hosts'[k].id = hosts'[m].id
               PROVE  k = m
    BY DEF OwnIDs
  <2>1. At(k) = At(m)
    <3> HIDE DEF At
    <3> QED
      BY <1>1, <1>8 DEF OwnIDs
  <2> QED
    BY <1>2, <1>7, <2>1
<1> QED
  BY <1>1, <1>6, <1>9 DEF HostsInv

LEMMA HostUpserted ==
  ASSUME HostsInv, NEW id \in 1..made', NEW local \in BOOLEAN,
         hosts' = Ops!UpsertHost([id |-> id, local |-> local]),
         made' = made \/ (made' = made + 1 /\ id = made')
  PROVE  HostsInv'
<1> DEFINE h == [id |-> id, local |-> local]
<1>1. made \in Nat /\ hosts \in Seq(HostSet(made)) /\ made' \in Nat
  BY DEF HostsInv
<1>2. h \in HostSet(made') /\ h.id = id
  BY DEF HostSet
<1>3. PICK i : i = FirstOf(id)
  OBVIOUS
<1>4. \/ i = 0 /\ id \notin Ops!HostIDs(hosts)
      \/ i \in DOMAIN hosts /\ hosts[i].id = id
  BY <1>3, HostPlace
<1>5. i = FirstOf(h.id)
  BY <1>2, <1>3
<1>6. hosts' = IF i > 0 THEN [hosts EXCEPT ![i] = h] ELSE Append(hosts, h)
  BY <1>5 DEF Ops!UpsertHost, Ops!SelectInSeq, FirstOf
<1>7. CASE i = 0 /\ id \notin Ops!HostIDs(hosts)
  <2>1. hosts' = Append(hosts, h)
    BY <1>6, <1>7
  <2> HIDE DEF h
  <2> QED
    BY <1>2, <1>7, <2>1, HostAdded
<1>8. CASE i \in DOMAIN hosts /\ hosts[i].id = id
  <2>1. id \in 1..made /\ i > 0
    BY <1>1, <1>8, IdsOf DEF HostSet
  <2>2. made' = made
    BY <1>1, <2>1
  <2>3. hosts' = [hosts EXCEPT ![i] = h]
    BY <1>6, <2>1
  <2> HIDE DEF h
  <2> QED
    BY <1>2, <1>8, <2>2, <2>3, HostReplaced
<1> QED
  BY <1>4, <1>7, <1>8

LEMMA HostGone ==
  ASSUME HostsInv, NEW id \in Ops!HostIDs(hosts), hosts' = Ops!DeleteHost(id), made' = made
  PROVE  HostsInv'
<1>1. PICK i : i = FirstOf(id)
  OBVIOUS
<1>2. i \in DOMAIN hosts
  BY <1>1, HostPlace
<1>3. hosts' = Ops!RemoveAt(hosts, i)
  BY <1>1 DEF Ops!DeleteHost, Ops!SelectInSeq, FirstOf
<1> QED
  BY <1>2, <1>3, HostRemoved

-----------------------------------------------------------------------------
(* What the page is shown.                                                 *)

LEMMA TargetsFit ==
  ASSUME NEW n \in Nat, NEW list \in Seq(HostSet(n)), NEW p
  PROVE  Ops!Targets(p, list) \subseteq Ops!HostIDs(list)
<1> DEFINE I == {k \in 1..Len(list) : list[k].local}
           left == p.selected \cap Ops!HostIDs(list)
<1>1. PICK local : local = IF I # {} THEN Ops!Min(I) ELSE 0
  OBVIOUS
<1>2. Ops!Targets(p, list) = IF local > 0 THEN {list[local].id}
                             ELSE IF left # {} \/ list = <<>> THEN left
                             ELSE {list[1].id}
  BY <1>1 DEF Ops!Targets, Ops!SelectInSeq
<1>3. Len(list) \in Nat /\ DOMAIN list = 1..Len(list)
      /\ \A i \in DOMAIN list : list[i].id \in Ops!HostIDs(list)
      /\ (list # <<>> => 1 \in DOMAIN list)
  BY IdsOf
<1>4. I \in SUBSET (1..Len(list))
  OBVIOUS
<1>5. local = 0 \/ local \in DOMAIN list
  <2> HIDE DEF I
  <2> QED
    BY <1>1, <1>3, <1>4, FirstIn
<1> QED
  BY <1>2, <1>3, <1>5

LEMMA PlatformFits ==
  ASSUME NEW n \in Nat, NEW p, p.hosts \in Seq(HostSet(n))
  PROVE  Ops!PlatformHost(p) \in Ops!HostIDs(p.hosts) \cup {0}
<1>1. PICK list : list = p.hosts
  OBVIOUS
<1>2. /\ \A i \in DOMAIN list : list[i].id \in Ops!HostIDs(list)
      /\ (list # <<>> => 1 \in DOMAIN list)
  BY <1>1, IdsOf
<1> QED
  BY <1>1, <1>2 DEF Ops!PlatformHost, Ops!NoHost

(* Lists land: whatever the page had, what it shows is of the new lists.   *)
LEMMA ListsFit ==
  ASSUME NEW n \in Nat, NEW p \in PageSet(n), NEW got \in GotSet(n)
  PROVE  Ops!WithLists(p, got) \in PageSet(n) /\ PageFits(Ops!WithLists(p, got))
<1>1. PICK list, sel, jobs, all :
        /\ list = got.hosts /\ sel = Ops!Targets(p, got.hosts) /\ jobs = got.job
        /\ all = (p.all /\ \A i \in DOMAIN got.hosts : ~got.hosts[i].local)
  OBVIOUS
<1>2. PICK q : q = [p EXCEPT !.hosts = list, !.selected = sel, !.all = all, !.jobs = jobs]
  OBVIOUS
<1>3. Ops!WithLists(p, got) = [q EXCEPT !.platform = Ops!PlatformHost(q)]
  BY <1>1, <1>2 DEF Ops!WithLists
<1>4. list \in Seq(HostSet(n)) /\ jobs \in JobStates /\ all \in BOOLEAN
  BY <1>1 DEF GotSet, JobStates, PageSet
<1>5. sel \subseteq Ops!HostIDs(list) /\ Ops!HostIDs(list) \subseteq 1..n
  BY <1>1, <1>4, TargetsFit, IdsOf
<1>6. q \in PageSet(n)
  BY <1>2, <1>4, <1>5 DEF PageSet
<1>7. q.hosts = list /\ q.selected = sel
  BY <1>2 DEF PageSet
<1>8. PICK x : x = Ops!PlatformHost(q)
  OBVIOUS
<1>9. x \in Ops!HostIDs(list) \cup {0}
  BY <1>4, <1>7, <1>8, PlatformFits
<1>10. x \in IdOrNone(n)
  BY <1>5, <1>9 DEF IdOrNone
<1>11. PICK r : r = [q EXCEPT !.platform = x]
  OBVIOUS
<1>12. r \in PageSet(n) /\ r.hosts = list /\ r.selected = sel /\ r.platform = x
  BY <1>6, <1>7, <1>10, <1>11 DEF PageSet
<1> QED
  BY <1>3, <1>5, <1>8, <1>9, <1>11, <1>12 DEF PageFits

LEMMA EmptyFits ==
  ASSUME NEW n \in Nat
  PROVE  Ops!EmptyPage \in PageSet(n) /\ PageFits(Ops!EmptyPage)
<1>1. <<>> \in Seq(HostSet(n)) /\ 0 \in IdOrNone(n)
  BY DEF IdOrNone
<1> QED
  BY <1>1 DEF Ops!EmptyPage, Ops!NoHost, PageSet, PageFits, Forms, JobStates

LEMMA ResetFits ==
  ASSUME NEW n \in Nat, NEW p \in PageSet(n)
  PROVE  Ops!ResetOpsDomain(p) \in PageSet(n) /\ PageFits(Ops!ResetOpsDomain(p))
<1>1. PICK e : e = Ops!EmptyPage
  OBVIOUS
<1>2. e \in PageSet(n) /\ e.selected = {}
  BY <1>1, EmptyFits DEF Ops!EmptyPage
<1>3. PICK r : r = [e EXCEPT !.sources = p.sources, !.filled = p.filled, !.saving = p.saving,
                             !.deleting = p.deleting, !.platform = 0, !.section = p.section]
  OBVIOUS
<1>4. /\ p.sources \subseteq Places /\ p.filled \subseteq Places /\ p.saving \in BOOLEAN
      /\ p.deleting \in BOOLEAN /\ p.section \in {"", "login", "mcp", "cloud"}
      /\ 0 \in IdOrNone(n)
  BY IdsIn DEF PageSet
<1>5. r \in PageSet(n)
  <2>1. PICK x : x = [e EXCEPT !.sources = p.sources, !.filled = p.filled, !.saving = p.saving]
    OBVIOUS
  <2>2. x \in PageSet(n)
    BY <1>2, <1>4, <2>1 DEF PageSet
  <2>3. r = [x EXCEPT !.deleting = p.deleting, !.platform = 0, !.section = p.section]
    BY <1>3, <2>1
  <2> QED
    BY <1>4, <2>2, <2>3 DEF PageSet
<1>6. r.selected = {} /\ r.platform = 0
  BY <1>2, <1>3 DEF PageSet
<1> QED
  BY <1>1, <1>3, <1>5, <1>6 DEF Ops!ResetOpsDomain, Ops!NoHost, PageFits

LEMMA FinishedFits ==
  ASSUME NEW n \in Nat, NEW p \in PageSet(n), PageFits(p), NEW t
  PROVE  Ops!Finished(p, t) \in PageSet(n) /\ PageFits(Ops!Finished(p, t))
<1>1. PICK kind, q : kind = t.kind /\ q = Ops!Finished(p, t)
  OBVIOUS
<1>2. \/ q = [p EXCEPT !.adding = FALSE] \/ q = [p EXCEPT !.busy = 0]
      \/ q = [p EXCEPT !.saving = FALSE] \/ q = [p EXCEPT !.deleting = FALSE]
      \/ q = [p EXCEPT !.section = ""] \/ q = p
  BY <1>1 DEF Ops!Finished, Ops!NoHost
<1>3. ASSUME q = [p EXCEPT !.adding = FALSE]
      PROVE  q \in PageSet(n) /\ PageFits(q)
  BY <1>3 DEF PageSet, PageFits
<1>4. ASSUME q = [p EXCEPT !.busy = 0]
      PROVE  q \in PageSet(n) /\ PageFits(q)
  <2>1. 0 \in IdOrNone(n)
    BY IdsIn
  <2> QED
    BY <1>4, <2>1 DEF PageSet, PageFits
<1>5. ASSUME q = [p EXCEPT !.saving = FALSE]
      PROVE  q \in PageSet(n) /\ PageFits(q)
  BY <1>5 DEF PageSet, PageFits
<1>6. ASSUME q = [p EXCEPT !.deleting = FALSE]
      PROVE  q \in PageSet(n) /\ PageFits(q)
  BY <1>6 DEF PageSet, PageFits
<1>7. ASSUME q = [p EXCEPT !.section = ""]
      PROVE  q \in PageSet(n) /\ PageFits(q)
  BY <1>7 DEF PageSet, PageFits
<1> QED
  BY <1>1, <1>2, <1>3, <1>4, <1>5, <1>6, <1>7

-----------------------------------------------------------------------------
(* Steps.                                                                  *)

LEMMA NewTask ==
  ASSUME NEW n \in Nat, pageOps \in Nat, NEW kind \in Kinds, NEW on \in IdOrNone(n) \cup Places,
         NEW held \in Held(n), NEW step \in Steps,
         kind = "save" => on \in IdOrNone(n), kind = "project" => on \in Places
  PROVE  /\ Ops!Task(kind, on, held, step) \in TaskSet(n)
         /\ Meant(Ops!Task(kind, on, held, step), n)
<1>1. <<>> \in Seq(HostSet(n))
  OBVIOUS
<1>2. Ops!NoLists \in GotSet(n)
  BY <1>1 DEF Ops!NoLists, GotSet, JobStates
<1> QED
  BY <1>2 DEF Ops!Task, TaskSet, Meant

LEMMA TasksGo ==
  ASSUME TasksInv, MaxTasks \in Nat, made \in Nat, made' = made \/ made' = made + 1, NEW t \in tasks,
         NEW u \in TaskSet(made'), Meant(u, made'), tasks' = (tasks \ {t}) \cup {u}
  PROVE  TasksInv'
<1>1. /\ tasks \subseteq TaskSet(made) /\ \A x \in tasks : Meant(x, made)
      /\ IsFiniteSet(tasks) /\ Cardinality(tasks) <= MaxTasks
  BY DEF TasksInv
<1>2. TaskSet(made) \subseteq TaskSet(made') /\ IdOrNone(made) \subseteq IdOrNone(made')
  BY MoreHosts
<1>3. tasks' \subseteq TaskSet(made')
  BY <1>1, <1>2
<1>4. \A x \in tasks' : Meant(x, made')
  BY <1>1, <1>2 DEF Meant
<1>5. IsFiniteSet(tasks') /\ Cardinality(tasks') <= Cardinality(tasks)
  <2>1. IsFiniteSet(tasks \ {t}) /\ Cardinality(tasks \ {t}) = Cardinality(tasks) - 1
    BY <1>1, FS_RemoveElement
  <2>2. /\ IsFiniteSet((tasks \ {t}) \cup {u})
        /\ \/ Cardinality((tasks \ {t}) \cup {u}) = Cardinality(tasks \ {t}) + 1
           \/ Cardinality((tasks \ {t}) \cup {u}) = Cardinality(tasks \ {t})
    BY <2>1, FS_AddElement
  <2>3. Cardinality(tasks) \in Nat
    BY <1>1, FS_CardinalityType
  <2> QED
    BY <2>1, <2>2, <2>3
<1>6. Cardinality(tasks') <= MaxTasks
  <2>1. Cardinality(tasks) \in Nat /\ Cardinality(tasks') \in Nat
    BY <1>1, <1>5, FS_CardinalityType
  <2> QED
    BY <1>1, <1>5, <2>1
<1> QED
  BY <1>3, <1>4, <1>5, <1>6 DEF TasksInv

LEMMA TasksEnd ==
  ASSUME TasksInv, NEW t \in tasks, tasks' = tasks \ {t}, made' = made, MaxTasks \in Nat
  PROVE  TasksInv'
<1>1. IsFiniteSet(tasks) /\ Cardinality(tasks) <= MaxTasks
  BY DEF TasksInv
<1>2. /\ IsFiniteSet(tasks') /\ Cardinality(tasks') = Cardinality(tasks) - 1
      /\ Cardinality(tasks) \in Nat
  BY <1>1, FS_RemoveElement, FS_CardinalityType
<1>3. Cardinality(tasks') <= MaxTasks
  BY <1>1, <1>2
<1> QED
  BY <1>2, <1>3 DEF TasksInv

LEMMA TaskBegins ==
  ASSUME TasksInv, NEW u \in TaskSet(made), Meant(u, made), MaxTasks \in Nat,
         Ops!Cardinality(tasks) < MaxTasks, tasks' = tasks \cup {u}, made' = made
  PROVE  TasksInv'
<1>1. IsFiniteSet(tasks) /\ Cardinality(tasks) < MaxTasks
  <2>1. Ops!Cardinality(tasks) = Cardinality(tasks)
    BY Zenon DEF Ops!Cardinality, Cardinality
  <2> QED
    BY <2>1 DEF TasksInv
<1>2. /\ IsFiniteSet(tasks') /\ Cardinality(tasks) \in Nat
      /\ Cardinality(tasks') = Cardinality(tasks) + 1 \/ Cardinality(tasks') = Cardinality(tasks)
  BY <1>1, FS_AddElement, FS_CardinalityType
<1>3. Cardinality(tasks') <= MaxTasks
  BY <1>1, <1>2
<1> QED
  BY <1>2, <1>3 DEF TasksInv

(* The page changes, and the server does not.                              *)
LEMMA Settles ==
  ASSUME OpsInv, NEW p \in PageSet(made), PageFits(p), tab' = p, UNCHANGED Ops!server,
         pageOps' \in 0..MaxPageOps, TasksInv'
  PROVE  OpsInv'
<1>1. UNCHANGED <<hosts, projects, sessions, starting, job, made>>
  BY DEF Ops!server
<1>2. HostsInv'
  BY <1>1 DEF OpsInv, HostsInv
<1>3. TabInv'
  BY <1>1 DEF TabInv
<1>4. PlacesInv'
  BY <1>1 DEF OpsInv, PlacesInv
<1> QED
  BY <1>2, <1>3, <1>4 DEF OpsInv

LEMMA OpCounts ==
  ASSUME OpsInv, MaxPageOps \in Nat, Ops!Op
  PROVE  pageOps' \in 0..MaxPageOps
  BY DEF OpsInv, PlacesInv, Ops!Op

LEMMA TouchStep ==
  ASSUME OpsInv, MaxPageOps \in Nat, NEW p \in PageSet(made), PageFits(p), Ops!Touch(p)
  PROVE  OpsInv'
<1>1. tab' = p /\ UNCHANGED Ops!server /\ tasks' = tasks /\ made' = made
  BY DEF Ops!Touch, Ops!server
<1>2. pageOps' \in 0..MaxPageOps
  BY OpCounts DEF Ops!Touch
<1>3. TasksInv'
  BY <1>1 DEF OpsInv, TasksInv
<1> QED
  BY <1>1, <1>2, <1>3, Settles

LEMMA BeginStep ==
  ASSUME OpsInv, MaxTasks \in Nat, MaxPageOps \in Nat, NEW p \in PageSet(made), PageFits(p),
         NEW kind \in Kinds, NEW on \in IdOrNone(made) \cup Places, NEW held \in Held(made),
         NEW step \in Steps, kind = "save" => on \in IdOrNone(made),
         kind = "project" => on \in Places,
         Ops!Begin(p, Ops!Task(kind, on, held, step))
  PROVE  OpsInv'
<1>1. PICK u : u = Ops!Task(kind, on, held, step)
  OBVIOUS
<1>2. made \in Nat /\ pageOps \in Nat
  BY DEF OpsInv, HostsInv, PlacesInv
<1>3. u \in TaskSet(made) /\ Meant(u, made)
  BY <1>1, <1>2, NewTask
<1>4. /\ tab' = p /\ UNCHANGED Ops!server /\ tasks' = tasks \cup {u} /\ made' = made
      /\ Ops!Cardinality(tasks) < MaxTasks /\ Ops!Op
  BY <1>1 DEF Ops!Begin, Ops!server
<1>5. TasksInv'
  BY <1>3, <1>4, TaskBegins DEF OpsInv
<1> QED
  BY <1>4, <1>5, OpCounts, Settles

LEMMA EndStep ==
  ASSUME OpsInv, MaxTasks \in Nat, NEW t \in tasks, NEW p \in PageSet(made), PageFits(p),
         Ops!Ends(p, t), UNCHANGED Ops!server, pageOps' \in 0..MaxPageOps
  PROVE  OpsInv'
<1>1. PICK q : q = Ops!Finished(p, t)
  OBVIOUS
<1>2. made \in Nat
  BY DEF OpsInv, HostsInv
<1>3. q \in PageSet(made) /\ PageFits(q)
  BY <1>1, <1>2, FinishedFits
<1>4. tab' = q /\ tasks' = tasks \ {t} /\ made' = made
  BY <1>1 DEF Ops!Ends, Ops!server
<1>5. TasksInv'
  BY <1>4, TasksEnd DEF OpsInv
<1> QED
  BY <1>3, <1>4, <1>5, Settles

(* A handler goes on, and the page and the hosts may change.               *)
LEMMA GoStep ==
  ASSUME OpsInv, MaxTasks \in Nat, NEW t \in tasks, NEW u \in TaskSet(made'), Meant(u, made'),
         tasks' = (tasks \ {t}) \cup {u}, made' = made \/ made' = made + 1,
         HostsInv', PlacesInv', tab' \in PageSet(made), PageFits(tab')
  PROVE  OpsInv'
<1>1. made \in Nat /\ TasksInv
  BY DEF OpsInv, HostsInv
<1>2. TasksInv'
  BY <1>1, TasksGo
<1>3. TabInv'
  BY <1>1, MoreHosts DEF TabInv
<1> QED
  BY <1>2, <1>3 DEF OpsInv

(* A handler takes its next step with what it holds.                       *)
LEMMA NextStep ==
  ASSUME made \in Nat, NEW t \in TaskSet(made), Meant(t, made), NEW step \in Steps,
         made' = made \/ made' = made + 1
  PROVE  /\ [t EXCEPT !.step = step] \in TaskSet(made')
         /\ Meant([t EXCEPT !.step = step], made')
<1>1. TaskSet(made) \subseteq TaskSet(made') /\ IdOrNone(made) \subseteq IdOrNone(made')
  BY MoreHosts
<1>2. PICK u : u = [t EXCEPT !.step = step]
  OBVIOUS
<1>3. u \in TaskSet(made) /\ u.kind = t.kind /\ u.on = t.on
  BY <1>2 DEF TaskSet
<1> QED
  BY <1>1, <1>2, <1>3 DEF Meant

-----------------------------------------------------------------------------
(* What the user does.                                                     *)

LEMMA UserOpStep ==
  ASSUME OpsInv, MaxTasks \in Nat, MaxPageOps \in Nat, Ops!UserNext
  PROVE  OpsInv'
<1>1. PICK p : p = tab
  OBVIOUS
<1>2. made \in Nat /\ p \in PageSet(made) /\ PageFits(p)
  BY <1>1 DEF OpsInv, HostsInv, TabInv
<1>3. /\ 0 \in IdOrNone(made)
      /\ "none" \in Held(made) /\ 0 \in Held(made) /\ p.form \in Held(made)
      /\ p.active \in Held(made) /\ p.editing \in IdOrNone(made)
      /\ p.platform \in IdOrNone(made)
  <2>1. 0 \in IdOrNone(made)
    BY <1>2, IdsIn
  <2> QED
    BY <1>2, <2>1 DEF Held, PageSet, JobStates
<1>4. CASE Ops!Unlock
  <2>1. PICK q : q = [p EXCEPT !.auth = "checking", !.refreshing = TRUE]
    OBVIOUS
  <2>2. q \in PageSet(made) /\ PageFits(q)
    BY <1>2, <2>1 DEF PageSet, PageFits
  <2>3. Ops!Begin(q, Ops!Task("unlock", 0, 0, "lists"))
    BY <1>1, <1>4, <2>1 DEF Ops!Unlock, Ops!NoHost
  <2> QED
    BY <1>3, <2>2, <2>3, BeginStep DEF Kinds, Steps
<1>5. CASE Ops!Refresh
  <2>1. PICK q : q = [p EXCEPT !.refreshing = TRUE]
    OBVIOUS
  <2>2. q \in PageSet(made) /\ PageFits(q)
    BY <1>2, <2>1 DEF PageSet, PageFits
  <2>3. Ops!Begin(q, Ops!Task("refresh", 0, 0, "lists"))
    BY <1>1, <1>5, <2>1 DEF Ops!Refresh, Ops!NoHost
  <2> QED
    BY <1>3, <2>2, <2>3, BeginStep DEF Kinds, Steps
<1>6. CASE Ops!Logout
  <2>1. PICK q : q = Ops!ResetOpsDomain(p)
    OBVIOUS
  <2>2. q \in PageSet(made) /\ PageFits(q) /\ Ops!Touch(q)
    BY <1>1, <1>2, <1>6, <2>1, ResetFits DEF Ops!Logout
  <2> QED
    BY <2>2, TouchStep
<1>7. CASE Ops!SetAllHosts
  <2>1. PICK q : q = [p EXCEPT !.all = ~@]
    OBVIOUS
  <2>2. q \in PageSet(made) /\ PageFits(q)
    BY <1>2, <2>1 DEF PageSet, PageFits
  <2> QED
    BY <1>1, <1>7, <2>1, <2>2, TouchStep DEF Ops!SetAllHosts
<1>8. CASE Ops!SetFilter
  <2>1. PICK q : q = [p EXCEPT !.filter = ~@]
    OBVIOUS
  <2>2. q \in PageSet(made) /\ PageFits(q)
    BY <1>2, <2>1 DEF PageSet, PageFits
  <2> QED
    BY <1>1, <1>8, <2>1, <2>2, TouchStep DEF Ops!SetFilter
<1>9. CASE Ops!CancelHostEdit
  <2>1. PICK q : q = [p EXCEPT !.editing = 0, !.form = ""]
    OBVIOUS
  <2>2. q \in PageSet(made) /\ PageFits(q)
    BY <1>2, <1>3, <2>1 DEF PageSet, PageFits, Forms
  <2> QED
    BY <1>1, <1>9, <2>1, <2>2, TouchStep DEF Ops!CancelHostEdit, Ops!NoHost
<1>10. CASE Ops!AddHost
  <2>1. PICK q : q = [p EXCEPT !.adding = TRUE]
    OBVIOUS
  <2>2. q \in PageSet(made) /\ PageFits(q)
    BY <1>2, <2>1 DEF PageSet, PageFits
  <2>3. Ops!Begin(q, Ops!Task("save", p.editing, p.form, "call"))
    BY <1>1, <1>10, <2>1 DEF Ops!AddHost
  <2> QED
    BY <1>3, <2>2, <2>3, BeginStep DEF Kinds, Steps
<1>11. ASSUME NEW f \in {"ssh", "local"}, Ops!FillForm(f) PROVE OpsInv'
  <2>1. PICK q : q = [p EXCEPT !.form = f]
    OBVIOUS
  <2>2. q \in PageSet(made) /\ PageFits(q)
    BY <1>2, <2>1 DEF PageSet, PageFits, Forms
  <2> QED
    BY <1>1, <1>11, <2>1, <2>2, TouchStep DEF Ops!FillForm
<1>12. CASE Ops!CancelJob
  <2>1. Ops!Begin(p, Ops!Task("cancel", 0, 0, "call"))
    BY <1>1, <1>12 DEF Ops!CancelJob, Ops!NoHost
  <2> QED
    BY <1>2, <1>3, <2>1, BeginStep DEF Kinds, Steps
<1>13. CASE Ops!Poll
  <2>1. Ops!Begin(p, Ops!Task("poll", 0, p.active, "poll"))
    BY <1>1, <1>13 DEF Ops!Poll, Ops!NoHost
  <2> QED
    BY <1>2, <1>3, <2>1, BeginStep DEF Kinds, Steps
<1>14. ASSUME NEW f \in {"login", "mcp", "cloud"}, Ops!RunPlatform(f) PROVE OpsInv'
  <2>1. PICK q : q = [p EXCEPT !.section = f]
    OBVIOUS
  <2>2. q \in PageSet(made) /\ PageFits(q)
    BY <1>2, <2>1 DEF PageSet, PageFits
  <2>3. Ops!Begin(q, Ops!Task("platform", p.platform, 0, "call"))
    BY <1>1, <1>14, <2>1 DEF Ops!RunPlatform, Ops!NoHost
  <2> QED
    BY <1>3, <2>2, <2>3, BeginStep DEF Kinds, Steps
<1> QED
  BY <1>4, <1>5, <1>6, <1>7, <1>8, <1>9, <1>10, <1>11, <1>12, <1>13, <1>14
     DEF Ops!UserNext, Ops!RunPlatformLogin, Ops!RunPlatformMCP, Ops!RunPlatformCloud

(* What the user does to a host that is shown.                             *)
LEMMA HostOpStep ==
  ASSUME OpsInv, MaxTasks \in Nat, MaxPageOps \in Nat, NEW h \in Ops!Shown, Ops!HostNext(h)
  PROVE  OpsInv'
<1>1. PICK p : p = tab
  OBVIOUS
<1>2. made \in Nat /\ p \in PageSet(made) /\ PageFits(p)
  BY <1>1 DEF OpsInv, HostsInv, TabInv
<1>3. PICK list : list = p.hosts
  OBVIOUS
<1>4. list \in Seq(HostSet(made))
  BY <1>2, <1>3 DEF PageSet
<1>5. PICK i \in DOMAIN list : h = list[i]
  BY <1>1, <1>3 DEF Ops!Shown, Ops!ToSet
<1>6. PICK id : id = h.id
  OBVIOUS
<1>7. id \in Ops!HostIDs(list) /\ id \in 1..made /\ id \in IdOrNone(made)
  BY <1>2, <1>4, <1>5, <1>6, IdsOf, IdsIn
<1>8. 0 \in Held(made) /\ p.editing \in Held(made)
  <2>1. 0 \in IdOrNone(made)
    BY <1>2, IdsIn
  <2> QED
    BY <1>2, <2>1 DEF Held, PageSet
<1>9. CASE Ops!ToggleHostSelection(h)
  <2>1. PICK sel : sel = IF id \in p.selected THEN p.selected \ {id} ELSE p.selected \cup {id}
    OBVIOUS
  <2>2. PICK q : q = [p EXCEPT !.selected = sel]
    OBVIOUS
  <2>3. sel \subseteq Ops!HostIDs(list) /\ sel \subseteq 1..made
    BY <1>2, <1>3, <1>7, <2>1 DEF PageSet, PageFits
  <2>4. q \in PageSet(made) /\ PageFits(q)
    BY <1>2, <1>3, <2>2, <2>3 DEF PageSet, PageFits
  <2>5. Ops!Touch(q)
    BY <1>1, <1>6, <1>9, <2>1, <2>2 DEF Ops!ToggleHostSelection
  <2> QED
    BY <2>4, <2>5, TouchStep
<1>10. CASE Ops!StartEditHost(h)
  <2>1. PICK f : f = IF h.local THEN "local" ELSE "ssh"
    OBVIOUS
  <2>2. PICK q : q = [p EXCEPT !.editing = id, !.form = f]
    OBVIOUS
  <2>3. q \in PageSet(made) /\ PageFits(q)
    BY <1>2, <1>7, <2>1, <2>2 DEF PageSet, PageFits, Forms
  <2>4. Ops!Touch(q)
    BY <1>1, <1>6, <1>10, <2>1, <2>2 DEF Ops!StartEditHost
  <2> QED
    BY <2>3, <2>4, TouchStep
<1>11. PICK b : b = [p EXCEPT !.busy = id]
  OBVIOUS
<1>12. b \in PageSet(made) /\ PageFits(b)
  BY <1>2, <1>7, <1>11 DEF PageSet, PageFits
<1>13. CASE Ops!ProbeHost(h)
  <2>1. Ops!Begin(b, Ops!Task("probe", id, 0, "call"))
    BY <1>1, <1>6, <1>11, <1>13 DEF Ops!ProbeHost, Ops!NoHost
  <2> QED
    BY <1>7, <1>8, <1>12, <2>1, BeginStep DEF Kinds, Steps
<1>14. CASE Ops!AskDeleteHost(h)
  <2>1. Ops!Begin(b, Ops!Task("delete", id, p.editing, "call"))
    BY <1>1, <1>6, <1>11, <1>14 DEF Ops!AskDeleteHost
  <2> QED
    BY <1>7, <1>8, <1>12, <2>1, BeginStep DEF Kinds, Steps
<1>15. CASE Ops!SelectPlatformHost(h)
  <2>1. PICK q : q = [p EXCEPT !.platform = id]
    OBVIOUS
  <2>2. q \in PageSet(made) /\ PageFits(q)
    BY <1>2, <1>3, <1>7, <2>1 DEF PageSet, PageFits
  <2>3. Ops!Touch(q)
    BY <1>1, <1>6, <1>15, <2>1 DEF Ops!SelectPlatformHost
  <2> QED
    BY <2>2, <2>3, TouchStep
<1> QED
  BY <1>9, <1>10, <1>13, <1>14, <1>15 DEF Ops!HostNext

(* Projects, sessions and what other clients do.                           *)
LEMMA PlaceOpStep ==
  ASSUME OpsInv, MaxTasks \in Nat, MaxPageOps \in Nat, NEW spot \in Places,
         Ops!ProjectNext(spot)
  PROVE  OpsInv'
<1>1. PICK p : p = tab
  OBVIOUS
<1>2. made \in Nat /\ p \in PageSet(made) /\ PageFits(p)
  BY <1>1 DEF OpsInv, HostsInv, TabInv
<1>3. 0 \in Held(made) /\ BOOLEAN \subseteq Held(made)
  BY <1>2, IdsIn DEF Held
<1>4. CASE Ops!SaveProject(spot)
  <2>1. PICK q : q = [p EXCEPT !.saving = TRUE]
    OBVIOUS
  <2>2. q \in PageSet(made) /\ PageFits(q)
    BY <1>2, <2>1 DEF PageSet, PageFits
  <2>3. Ops!Begin(q, Ops!Task("project", spot, 0, "call"))
    BY <1>1, <1>4, <2>1 DEF Ops!SaveProject, Ops!NoHost
  <2> QED
    BY <1>3, <2>2, <2>3, BeginStep DEF Kinds, Steps
<1>5. CASE Ops!ArchiveProject(spot)
  <2>1. PICK q : q = [p EXCEPT !.deleting = TRUE]
    OBVIOUS
  <2>2. q \in PageSet(made) /\ PageFits(q)
    BY <1>2, <2>1 DEF PageSet, PageFits
  <2>3. PICK held, step : held = (spot \in p.filled)
                          /\ step = IF spot \in p.sources THEN "count" ELSE "resolve"
    OBVIOUS
  <2>4. held \in Held(made) /\ step \in Steps
    <3>1. held \in BOOLEAN
      BY <2>3
    <3> QED
      BY <1>3, <2>3, <3>1 DEF Steps
  <2>5. Ops!Begin(q, Ops!Task("archive", spot, held, step))
    BY <1>1, <1>5, <2>1, <2>3 DEF Ops!ArchiveProject
  <2> QED
    BY <2>2, <2>4, <2>5, BeginStep DEF Kinds
<1>6. ASSUME UNCHANGED <<hosts, tab, tasks, made>>, PlacesInv' PROVE OpsInv'
  BY <1>6 DEF OpsInv, HostsInv, TabInv, TasksInv
<1>7. CASE Ops!StartSession(spot)
  <2>1. PlacesInv'
    BY <1>7, OpCounts DEF Ops!StartSession, OpsInv, PlacesInv
  <2> QED
    BY <1>6, <1>7, <2>1 DEF Ops!StartSession
<1>8. CASE Ops!SessionStarted(spot)
  <2>1. PlacesInv'
    BY <1>8 DEF Ops!SessionStarted, OpsInv, PlacesInv
  <2> QED
    BY <1>6, <1>8, <2>1 DEF Ops!SessionStarted
<1>9. CASE Ops!SessionArchived(spot)
  <2>1. PlacesInv'
    BY <1>9, OpCounts DEF Ops!SessionArchived, OpsInv, PlacesInv
  <2> QED
    BY <1>6, <1>9, <2>1 DEF Ops!SessionArchived
<1>10. CASE Ops!SessionRead(spot) \/ Ops!SessionWritten(spot)
  <2>1. PlacesInv'
    BY <1>10 DEF Ops!SessionRead, Ops!SessionWritten, OpsInv, PlacesInv
  <2> QED
    BY <1>6, <1>10, <2>1 DEF Ops!SessionRead, Ops!SessionWritten
<1> QED
  BY <1>4, <1>5, <1>7, <1>8, <1>9, <1>10 DEF Ops!ProjectNext

LEMMA OthersOpStep ==
  ASSUME OpsInv, MaxPageOps \in Nat,
         Ops!JobRuns \/ \E id \in Ops!HostIDs(hosts) : Ops!HostLeaves(id)
  PROVE  OpsInv'
<1>1. ASSUME UNCHANGED <<tab, tasks, made>>, PlacesInv', HostsInv' PROVE OpsInv'
  BY <1>1 DEF OpsInv, TabInv, TasksInv
<1>2. CASE Ops!JobRuns
  <2>1. PlacesInv'
    BY <1>2, OpCounts DEF Ops!JobRuns, OpsInv, PlacesInv, JobStates
  <2>2. HostsInv'
    BY <1>2 DEF Ops!JobRuns, OpsInv, HostsInv
  <2> QED
    BY <1>1, <1>2, <2>1, <2>2 DEF Ops!JobRuns
<1>3. ASSUME NEW id \in Ops!HostIDs(hosts), Ops!HostLeaves(id) PROVE OpsInv'
  <2>1. PlacesInv'
    BY <1>3, OpCounts DEF Ops!HostLeaves, OpsInv, PlacesInv
  <2>2. HostsInv'
    BY <1>3, HostGone DEF Ops!HostLeaves, OpsInv
  <2> QED
    BY <1>1, <1>3, <2>1, <2>2 DEF Ops!HostLeaves
<1> QED
  BY <1>2, <1>3

-----------------------------------------------------------------------------
(* What the handlers do.                                                   *)

(* Calls that fail, and lists that are read and land.                      *)
LEMMA ListsOpStep ==
  ASSUME OpsInv, MaxTasks \in Nat, MaxPageOps \in Nat, NEW t \in tasks,
         \/ Ops!Fails(t) \/ Ops!ListsRead(t) \/ Ops!EnsureLocalCodexHost(t)
         \/ Ops!ListsLand(t) \/ \E ok \in BOOLEAN : Ops!SourcesLand(t, ok)
  PROVE  OpsInv'
<1>1. PICK p : p = tab
  OBVIOUS
<1>2. made \in Nat /\ p \in PageSet(made) /\ PageFits(p) /\ pageOps \in 0..MaxPageOps
  BY <1>1 DEF OpsInv, HostsInv, TabInv, PlacesInv
<1>3. t \in TaskSet(made) /\ Meant(t, made)
  BY DEF OpsInv, TasksInv
<1>4. CASE Ops!Fails(t)
  <2>1. PICK q : /\ q = p \/ q = [p EXCEPT !.refreshing = FALSE] \/ q = [p EXCEPT !.sources = {}]
                 /\ Ops!Ends(IF t.kind = "unlock" THEN [q EXCEPT !.auth = "locked"] ELSE q, t)
                 /\ Ops!Op /\ UNCHANGED Ops!server
    BY <1>1, <1>4 DEF Ops!Fails
  <2>2. q \in PageSet(made) /\ PageFits(q)
    <3>1. CASE q = [p EXCEPT !.refreshing = FALSE]
      BY <1>2, <3>1 DEF PageSet, PageFits
    <3>2. CASE q = [p EXCEPT !.sources = {}]
      BY <1>2, <3>2 DEF PageSet, PageFits
    <3> QED
      BY <1>2, <2>1, <3>1, <3>2
  <2>3. PICK r : r = IF t.kind = "unlock" THEN [q EXCEPT !.auth = "locked"] ELSE q
    OBVIOUS
  <2>4. r \in PageSet(made) /\ PageFits(r)
    <3>1. CASE r = q
      BY <2>2, <3>1
    <3>2. CASE r = [q EXCEPT !.auth = "locked"]
      BY <2>2, <3>2 DEF PageSet, PageFits
    <3> QED
      BY <2>3, <3>1, <3>2
  <2> QED
    BY <2>1, <2>3, <2>4, OpCounts, EndStep
<1>5. CASE Ops!ListsRead(t)
  <2>1. PICK got, step : /\ got = Ops!Lists(t) /\ step \in {"land", "ensure"}
                         /\ tasks' = (tasks \ {t}) \cup {[[t EXCEPT !.got = got] EXCEPT !.step = step]}
    BY <1>5 DEF Ops!ListsRead
  <2>2. UNCHANGED <<hosts, projects, sessions, starting, job, made, tab, pageOps>>
    BY <1>5 DEF Ops!ListsRead, Ops!server
  <2>3. got \in GotSet(made)
    <3>1. PICK g : g = t.got
      OBVIOUS
    <3>2. g \in GotSet(made)
      BY <1>3, <3>1 DEF TaskSet
    <3>3. got = [g EXCEPT !.hosts = hosts, !.job = job]
      BY <2>1, <3>1 DEF Ops!Lists
    <3>4. hosts \in Seq(HostSet(made)) /\ job \in JobStates
      BY DEF OpsInv, HostsInv, PlacesInv
    <3> QED
      BY <3>2, <3>3, <3>4 DEF GotSet
  <2>4. PICK u : u = [t EXCEPT !.got = got]
    OBVIOUS
  <2>5. u \in TaskSet(made) /\ Meant(u, made)
    BY <1>3, <2>3, <2>4 DEF TaskSet, Meant
  <2>6. PICK v : v = [u EXCEPT !.step = step]
    OBVIOUS
  <2>7. v \in TaskSet(made') /\ Meant(v, made')
    BY <1>2, <2>1, <2>2, <2>5, <2>6, NextStep DEF Steps
  <2>8. tasks' = (tasks \ {t}) \cup {v}
    BY <2>1, <2>4, <2>6
  <2>9. HostsInv' /\ PlacesInv'
    BY <2>2 DEF OpsInv, HostsInv, PlacesInv
  <2>10. tab' \in PageSet(made) /\ PageFits(tab')
    BY <1>1, <1>2, <2>2
  <2> QED
    BY <2>2, <2>7, <2>8, <2>9, <2>10, GoStep
<1>6. CASE Ops!EnsureLocalCodexHost(t)
  <2>1. PICK h : h = [id |-> made + 1, local |-> TRUE]
    OBVIOUS
  <2>2. /\ hosts' = Append(hosts, h) /\ made' = made + 1
        /\ UNCHANGED <<projects, sessions, starting, job, tab, pageOps>>
        /\ Ops!Goes(t, "relist")
    BY <1>6, <2>1 DEF Ops!EnsureLocalCodexHost
  <2>3. HostsInv'
    <3>1. h \in HostSet(made') /\ h.id = made + 1
      BY <1>2, <2>1, <2>2 DEF HostSet
    <3>2. made + 1 \notin Ops!HostIDs(hosts)
      BY <1>2, IdsOf DEF OpsInv, HostsInv
    <3>3. HostsInv
      BY DEF OpsInv
    <3> QED
      BY <2>2, <3>1, <3>2, <3>3, HostAdded
  <2>4. PlacesInv'
    BY <2>2 DEF OpsInv, PlacesInv
  <2>5. PICK u : u = [t EXCEPT !.step = "relist"]
    OBVIOUS
  <2>6. u \in TaskSet(made') /\ Meant(u, made')
    BY <1>2, <1>3, <2>2, <2>5, NextStep DEF Steps
  <2>7. tasks' = (tasks \ {t}) \cup {u}
    BY <2>2, <2>5 DEF Ops!Goes
  <2>8. tab' \in PageSet(made) /\ PageFits(tab')
    BY <1>1, <1>2, <2>2
  <2> QED
    BY <2>2, <2>3, <2>4, <2>6, <2>7, <2>8, GoStep
<1>7. CASE Ops!ListsLand(t)
  <2>1. PICK w : w = Ops!WithLists(p, t.got)
    OBVIOUS
  <2>2. w \in PageSet(made) /\ PageFits(w)
    <3>1. t.got \in GotSet(made)
      BY <1>3 DEF TaskSet
    <3> QED
      BY <1>2, <2>1, <3>1, ListsFit
  <2>3. PICK u : u = [t EXCEPT !.step = "sources"]
    OBVIOUS
  <2>4. tab' = w /\ Ops!Goes(t, "sources") /\ UNCHANGED Ops!server /\ pageOps' = pageOps
    BY <1>1, <1>7, <2>1 DEF Ops!ListsLand
  <2>5. UNCHANGED <<hosts, projects, sessions, starting, job, made>>
    BY <2>4 DEF Ops!server
  <2>6. u \in TaskSet(made') /\ Meant(u, made')
    BY <1>2, <1>3, <2>3, <2>5, NextStep DEF Steps
  <2>7. tasks' = (tasks \ {t}) \cup {u}
    BY <2>3, <2>4 DEF Ops!Goes
  <2>8. HostsInv' /\ PlacesInv'
    BY <2>4, <2>5 DEF OpsInv, HostsInv, PlacesInv
  <2> QED
    BY <2>2, <2>4, <2>5, <2>6, <2>7, <2>8, GoStep
<1>8. ASSUME NEW ok \in BOOLEAN, Ops!SourcesLand(t, ok) PROVE OpsInv'
  <2>1. PICK src, fil, act :
          /\ src = IF ok /\ sessions # {} THEN projects ELSE {}
          /\ fil = IF ok THEN sessions ELSE p.filled
          /\ act = IF t.got.job = "running" THEN "running" ELSE "none"
    OBVIOUS
  <2>2. src \subseteq Places /\ fil \subseteq Places /\ act \in JobStates
    BY <1>2, <2>1 DEF OpsInv, PlacesInv, PageSet, JobStates
  <2>3. PICK q : q = [p EXCEPT !.sources = src, !.filled = fil, !.active = act,
                               !.refreshing = FALSE]
    OBVIOUS
  <2>4. q \in PageSet(made) /\ PageFits(q)
    BY <1>2, <2>2, <2>3 DEF PageSet, PageFits
  <2>5. PICK r : r = IF t.kind = "unlock" THEN [q EXCEPT !.auth = "ready"] ELSE q
    OBVIOUS
  <2>6. r \in PageSet(made) /\ PageFits(r)
    <3>1. CASE r = q
      BY <2>4, <3>1
    <3>2. CASE r = [q EXCEPT !.auth = "ready"]
      BY <2>4, <3>2 DEF PageSet, PageFits
    <3> QED
      BY <2>5, <3>1, <3>2
  <2>7. Ops!Ends(r, t) /\ UNCHANGED Ops!server
    BY <1>1, <1>8, <2>1, <2>3, <2>5 DEF Ops!SourcesLand
  <2>8. pageOps' \in 0..MaxPageOps
    BY <1>2, <1>8, OpCounts DEF Ops!SourcesLand
  <2> QED
    BY <2>6, <2>7, <2>8, EndStep
<1> QED
  BY <1>4, <1>5, <1>6, <1>7, <1>8

(* Handlers of hosts and jobs.                                             *)
LEMMA HandlerOpStep ==
  ASSUME OpsInv, MaxTasks \in Nat, MaxPageOps \in Nat, NEW t \in tasks,
         \/ Ops!HostSaved(t) \/ Ops!Probed(t) \/ Ops!HostDeleted(t)
         \/ Ops!JobCanceled(t) \/ Ops!PollRead(t) \/ Ops!PollLands(t)
         \/ Ops!PlatformAnswers(t)
  PROVE  OpsInv'
<1>1. PICK p : p = tab
  OBVIOUS
<1>2. /\ made \in Nat /\ p \in PageSet(made) /\ PageFits(p) /\ pageOps \in 0..MaxPageOps
      /\ HostsInv /\ PlacesInv
  BY <1>1 DEF OpsInv, HostsInv, TabInv, PlacesInv
<1>3. t \in TaskSet(made) /\ Meant(t, made)
  BY DEF OpsInv, TasksInv
<1>4. ASSUME NEW step \in Steps, Ops!Goes(t, step), made' = made \/ made' = made + 1,
             HostsInv', PlacesInv', tab' \in PageSet(made), PageFits(tab')
      PROVE  OpsInv'
  <2>1. PICK u : u = [t EXCEPT !.step = step]
    OBVIOUS
  <2>2. u \in TaskSet(made') /\ Meant(u, made')
    BY <1>2, <1>3, <1>4, <2>1, NextStep
  <2>3. tasks' = (tasks \ {t}) \cup {u}
    BY <1>4, <2>1 DEF Ops!Goes
  <2> QED
    BY <1>4, <2>2, <2>3, GoStep
<1>5. CASE Ops!HostSaved(t)
  <2>1. PICK id, local : /\ id = IF t.on = 0 THEN made + 1 ELSE t.on
                         /\ local = (t.held = "local")
    OBVIOUS
  <2>2. /\ hosts' = Ops!UpsertHost([id |-> id, local |-> local])
        /\ made' = IF t.on = 0 THEN made + 1 ELSE made
        /\ UNCHANGED <<projects, sessions, starting, job, pageOps>>
        /\ Ops!Goes(t, "lists") /\ t.kind = "save"
    BY <1>5, <2>1 DEF Ops!HostSaved, Ops!NoHost
  <2>3. made' = made \/ (made' = made + 1 /\ id = made')
    BY <2>1, <2>2
  <2>4. id \in 1..made' /\ local \in BOOLEAN
    <3>1. t.on \in IdOrNone(made)
      BY <1>3, <2>2 DEF Meant
    <3>2. t.on # 0 => t.on \in 1..made
      BY <1>2, <3>1, IdsIn
    <3>3. local \in BOOLEAN
      BY <2>1
    <3> QED
      BY <1>2, <2>1, <2>2, <3>2, <3>3
  <2>5. HostsInv'
    BY <1>2, <2>2, <2>3, <2>4, HostUpserted
  <2>6. PlacesInv'
    BY <1>2, <2>2 DEF PlacesInv
  <2>7. tab' = [p EXCEPT !.form = "", !.editing = 0, !.refreshing = TRUE]
    BY <1>1, <1>5 DEF Ops!HostSaved, Ops!NoHost
  <2>8. tab' \in PageSet(made) /\ PageFits(tab')
    <3>1. 0 \in IdOrNone(made) /\ "" \in Forms
      BY <1>2, IdsIn DEF Forms
    <3>2. PICK q : q = tab'
      OBVIOUS
    <3> QED
      BY <1>2, <2>7, <3>1, <3>2 DEF PageSet, PageFits
  <2>9. made' = made \/ made' = made + 1
    BY <2>3
  <2> QED
    BY <1>4, <2>2, <2>5, <2>6, <2>8, <2>9 DEF Steps
<1>6. CASE Ops!Probed(t) \/ Ops!PlatformAnswers(t)
  <2>1. Ops!Ends(p, t) /\ UNCHANGED Ops!server /\ pageOps' = pageOps
    BY <1>1, <1>6 DEF Ops!Probed, Ops!PlatformAnswers
  <2> QED
    BY <1>2, <2>1, EndStep
<1>7. CASE Ops!HostDeleted(t)
  <2>1. PICK id, held : id = t.on /\ held = t.held
    OBVIOUS
  <2>2. PICK q : q = [p EXCEPT !.selected = p.selected \ {id}, !.refreshing = TRUE]
    OBVIOUS
  <2>3. q \in PageSet(made) /\ PageFits(q)
    BY <1>2, <2>2 DEF PageSet, PageFits
  <2>4. PICK r : r = IF held = id THEN [q EXCEPT !.editing = 0, !.form = ""] ELSE q
    OBVIOUS
  <2>5. r \in PageSet(made) /\ PageFits(r)
    <3>1. 0 \in IdOrNone(made) /\ "" \in Forms
      BY <1>2, IdsIn DEF Forms
    <3>2. CASE r = q
      BY <2>3, <3>2
    <3>3. CASE r = [q EXCEPT !.editing = 0, !.form = ""]
      BY <2>3, <3>1, <3>3 DEF PageSet, PageFits
    <3> QED
      BY <2>4, <3>2, <3>3
  <2>6. /\ id \in Ops!HostIDs(hosts) /\ hosts' = Ops!DeleteHost(id) /\ made' = made
        /\ tab' = r /\ Ops!Goes(t, "lists")
        /\ UNCHANGED <<projects, sessions, starting, job, pageOps>>
    BY <1>1, <1>7, <2>1, <2>2, <2>4 DEF Ops!HostDeleted, Ops!NoHost
  <2>7. HostsInv'
    BY <1>2, <2>6, HostGone
  <2>8. PlacesInv'
    BY <1>2, <2>6 DEF PlacesInv
  <2> QED
    BY <1>4, <2>5, <2>6, <2>7, <2>8 DEF Steps
<1>8. CASE Ops!JobCanceled(t)
  <2>1. PICK q : q = [p EXCEPT !.refreshing = TRUE]
    OBVIOUS
  <2>2. q \in PageSet(made) /\ PageFits(q)
    BY <1>2, <2>1 DEF PageSet, PageFits
  <2>3. /\ tab' = q /\ Ops!Goes(t, "lists") /\ job' = "ended"
        /\ UNCHANGED <<hosts, projects, sessions, starting, made, pageOps>>
    BY <1>1, <1>8, <2>1 DEF Ops!JobCanceled
  <2>4. HostsInv' /\ PlacesInv'
    BY <1>2, <2>3 DEF HostsInv, PlacesInv, JobStates
  <2> QED
    BY <1>4, <2>2, <2>3, <2>4 DEF Steps
<1>9. CASE Ops!PollRead(t)
  <2>1. UNCHANGED <<hosts, projects, sessions, starting, job, made, tab, pageOps>>
    BY <1>9 DEF Ops!PollRead, Ops!server
  <2>2. PICK g, u : g = [t.got EXCEPT !.job = job] /\ u = [t EXCEPT !.got = g]
    OBVIOUS
  <2>3. g \in GotSet(made)
    <3>1. PICK x : x = t.got
      OBVIOUS
    <3>2. x \in GotSet(made) /\ job \in JobStates
      BY <1>2, <1>3, <3>1 DEF TaskSet, PlacesInv
    <3> QED
      BY <2>2, <3>1, <3>2 DEF GotSet
  <2>4. u \in TaskSet(made) /\ Meant(u, made)
    BY <1>3, <2>2, <2>3 DEF TaskSet, Meant
  <2>5. PICK v : v = [u EXCEPT !.step = "polled"]
    OBVIOUS
  <2>6. v \in TaskSet(made') /\ Meant(v, made')
    BY <1>2, <2>1, <2>4, <2>5, NextStep DEF Steps
  <2>7. tasks' = (tasks \ {t}) \cup {v}
    BY <1>3, <1>9, <2>2, <2>5 DEF Ops!PollRead, TaskSet
  <2>8. HostsInv' /\ PlacesInv' /\ tab' \in PageSet(made) /\ PageFits(tab')
    BY <1>1, <1>2, <2>1 DEF HostsInv, PlacesInv
  <2> QED
    BY <2>1, <2>6, <2>7, <2>8, GoStep
<1>10. CASE Ops!PollLands(t)
  <2>1. PICK j, a : j = t.got.job
                    /\ a = IF p.active = "none" /\ t.got.job = "running" THEN "running" ELSE p.active
    OBVIOUS
  <2>2. j \in JobStates /\ a \in JobStates
    <3>1. t.got \in GotSet(made)
      BY <1>3 DEF TaskSet
    <3>2. j \in JobStates
      BY <2>1, <3>1 DEF GotSet
    <3>3. p.active \in JobStates
      BY <1>2 DEF PageSet
    <3> QED
      BY <2>1, <3>2, <3>3 DEF JobStates
  <2>3. PICK q : q = [p EXCEPT !.jobs = j, !.active = a]
    OBVIOUS
  <2>4. q \in PageSet(made) /\ PageFits(q)
    BY <1>2, <2>2, <2>3 DEF PageSet, PageFits
  <2>5. (Ops!Ends(q, t) \/ Ops!Ends(p, t)) /\ UNCHANGED Ops!server /\ pageOps' = pageOps
    BY <1>1, <1>10, <2>1, <2>3 DEF Ops!PollLands
  <2> QED
    BY <1>2, <2>4, <2>5, EndStep
<1> QED
  BY <1>5, <1>6, <1>7, <1>8, <1>9, <1>10

(* Handlers of projects.                                                   *)
LEMMA ProjectOpStep ==
  ASSUME OpsInv, MaxTasks \in Nat, MaxPageOps \in Nat, NEW t \in tasks,
         \/ Ops!ProjectSaved(t) \/ Ops!ProjectDeleted(t) \/ Ops!ProjectsRefreshed(t)
         \/ \E ok \in BOOLEAN : Ops!ProjectResolved(t, ok) \/ Ops!SessionsCounted(t, ok)
  PROVE  OpsInv'
<1>1. PICK p : p = tab
  OBVIOUS
<1>2. /\ made \in Nat /\ p \in PageSet(made) /\ PageFits(p) /\ pageOps \in 0..MaxPageOps
      /\ HostsInv /\ PlacesInv
  BY <1>1 DEF OpsInv, HostsInv, TabInv, PlacesInv
<1>3. t \in TaskSet(made) /\ Meant(t, made)
  BY DEF OpsInv, TasksInv
<1>4. PICK q : q = [p EXCEPT !.sources = projects]
  OBVIOUS
<1>5. q \in PageSet(made) /\ PageFits(q)
  BY <1>2, <1>4 DEF PageSet, PageFits, PlacesInv
<1>6. ASSUME NEW step \in Steps, Ops!Goes(t, step), UNCHANGED <<hosts, made>>,
             PlacesInv', tab' = p \/ tab' = q
      PROVE  OpsInv'
  <2>1. PICK u : u = [t EXCEPT !.step = step]
    OBVIOUS
  <2>2. u \in TaskSet(made') /\ Meant(u, made')
    BY <1>2, <1>3, <1>6, <2>1, NextStep
  <2>3. tasks' = (tasks \ {t}) \cup {u}
    BY <1>6, <2>1 DEF Ops!Goes
  <2>4. HostsInv'
    BY <1>2, <1>6 DEF HostsInv
  <2>5. tab' \in PageSet(made) /\ PageFits(tab')
    BY <1>2, <1>5, <1>6
  <2> QED
    BY <1>6, <2>2, <2>3, <2>4, <2>5, GoStep
<1>7. CASE Ops!ProjectSaved(t)
  <2>1. t.on \in Places
    BY <1>3, <1>7 DEF Ops!ProjectSaved, Meant
  <2>2. PlacesInv'
    BY <1>2, <1>7, <2>1 DEF Ops!ProjectSaved, PlacesInv
  <2> QED
    BY <1>1, <1>6, <1>7, <2>2 DEF Ops!ProjectSaved, Steps
<1>8. CASE Ops!ProjectDeleted(t)
  <2>1. /\ UNCHANGED <<hosts, sessions, starting, job, made, pageOps>>
        /\ projects' \subseteq projects
    BY <1>8 DEF Ops!ProjectDeleted, Ops!DeleteProject
  <2>2. PlacesInv'
    BY <1>2, <2>1 DEF PlacesInv
  <2>3. CASE projects' = projects
    <3>1. Ops!Ends(p, t)
      BY <1>1, <1>8, <2>3 DEF Ops!ProjectDeleted
    <3>2. PICK r : r = Ops!Finished(p, t)
      OBVIOUS
    <3>3. r \in PageSet(made) /\ PageFits(r)
      BY <1>2, <3>2, FinishedFits
    <3>4. tab' = r /\ tasks' = tasks \ {t}
      BY <3>1, <3>2 DEF Ops!Ends
    <3>5. TasksInv'
      BY <2>1, <3>4, TasksEnd DEF OpsInv
    <3>6. HostsInv' /\ TabInv'
      BY <1>2, <2>1, <3>3, <3>4 DEF HostsInv, TabInv
    <3> QED
      BY <2>2, <3>5, <3>6 DEF OpsInv
  <2>4. CASE projects' # projects
    BY <1>1, <1>6, <1>8, <2>1, <2>2, <2>4 DEF Ops!ProjectDeleted, Steps
  <2> QED
    BY <2>3, <2>4
<1>9. CASE Ops!ProjectsRefreshed(t)
  <2>1. PICK r : r = [p EXCEPT !.sources = projects, !.filled = sessions]
    OBVIOUS
  <2>2. r \in PageSet(made) /\ PageFits(r)
    BY <1>2, <2>1 DEF PageSet, PageFits, PlacesInv
  <2>3. Ops!Ends(r, t) /\ UNCHANGED Ops!server /\ pageOps' = pageOps
    BY <1>1, <1>9, <2>1 DEF Ops!ProjectsRefreshed
  <2> QED
    BY <1>2, <2>2, <2>3, EndStep
<1>10. ASSUME NEW ok \in BOOLEAN, Ops!ProjectResolved(t, ok) PROVE OpsInv'
  <2>1. UNCHANGED Ops!server /\ pageOps' = pageOps
    BY <1>10 DEF Ops!ProjectResolved
  <2>2. PlacesInv'
    BY <1>2, <2>1 DEF Ops!server, PlacesInv
  <2>3. \/ tab' = q /\ Ops!Goes(t, "count")
        \/ Ops!Ends(p, t) \/ Ops!Ends(q, t)
    BY <1>1, <1>4, <1>10 DEF Ops!ProjectResolved
  <2>4. CASE tab' = q /\ Ops!Goes(t, "count")
    BY <1>6, <2>1, <2>2, <2>4 DEF Ops!server, Steps
  <2> QED
    BY <1>2, <1>5, <2>1, <2>3, <2>4, EndStep
<1>11. ASSUME NEW ok \in BOOLEAN, Ops!SessionsCounted(t, ok) PROVE OpsInv'
  <2>1. UNCHANGED Ops!server /\ pageOps' = pageOps
    BY <1>11 DEF Ops!SessionsCounted
  <2>2. PlacesInv'
    BY <1>2, <2>1 DEF Ops!server, PlacesInv
  <2>3. (tab' = p /\ Ops!Goes(t, "call")) \/ Ops!Ends(p, t)
    BY <1>1, <1>11 DEF Ops!SessionsCounted
  <2>4. CASE tab' = p /\ Ops!Goes(t, "call")
    BY <1>6, <2>1, <2>2, <2>4 DEF Ops!server, Steps
  <2> QED
    BY <1>2, <2>1, <2>3, <2>4, EndStep
<1> QED
  BY <1>7, <1>8, <1>9, <1>10, <1>11

LEMMA OpsInit ==
  ASSUME Ops!Init, MaxTasks \in Nat, MaxPageOps \in Nat
  PROVE  OpsInv
<1>1. PICK a, b : a = [id |-> 1, local |-> TRUE] /\ b = [id |-> 2, local |-> FALSE]
  OBVIOUS
<1>2. hosts = <<a, b>> /\ made = 2
  BY <1>1 DEF Ops!Init
<1>3. a \in HostSet(2) /\ b \in HostSet(2) /\ a.id = 1 /\ b.id = 2
  BY <1>1 DEF HostSet
<1>4. HostsInv
  <2>1. hosts \in Seq(HostSet(2))
    BY <1>2, <1>3
  <2>2. DOMAIN hosts = 1..2 /\ hosts[1] = a /\ hosts[2] = b
    BY <1>2
  <2>3. OwnIDs(hosts)
    BY <1>3, <2>2 DEF OwnIDs
  <2> QED
    BY <1>2, <2>1, <2>3 DEF HostsInv
<1>5. PlacesInv
  BY DEF Ops!Init, PlacesInv, JobStates
<1>6. TabInv
  <2>1. PICK e : e = Ops!EmptyPage
    OBVIOUS
  <2>2. PICK p : p = [e EXCEPT !.auth = "ready"]
    OBVIOUS
  <2>3. p \in PageSet(made)
    <3>1. e \in PageSet(made)
      BY <1>2, <2>1, EmptyFits
    <3> QED
      BY <2>2, <3>1 DEF PageSet
  <2>4. PICK got : got = [hosts |-> hosts, job |-> job]
    OBVIOUS
  <2>5. got \in GotSet(made)
    <3>1. hosts \in Seq(HostSet(made)) /\ job \in JobStates
      BY <1>4, <1>5 DEF HostsInv, PlacesInv
    <3> QED
      BY <2>4, <3>1 DEF GotSet
  <2>6. tab = Ops!WithLists(p, got)
    BY <2>1, <2>2, <2>4 DEF Ops!Init
  <2> QED
    BY <1>2, <2>3, <2>5, <2>6, ListsFit DEF TabInv
<1>7. TasksInv
  <2>1. tasks = {}
    BY DEF Ops!Init
  <2>2. IsFiniteSet(tasks) /\ Cardinality(tasks) = 0
    BY <2>1, FS_EmptySet
  <2> QED
    BY <2>1, <2>2 DEF TasksInv
<1> QED
  BY <1>4, <1>5, <1>6, <1>7 DEF OpsInv

LEMMA OpsStep ==
  ASSUME OpsInv, MaxTasks \in Nat, MaxPageOps \in Nat, [Ops!Next]_Ops!vars
  PROVE  OpsInv'
<1>1. ASSUME NEW t \in tasks, Ops!TaskNext(t) PROVE OpsInv'
  BY <1>1, ListsOpStep, HandlerOpStep, ProjectOpStep DEF Ops!TaskNext
<1>2. CASE UNCHANGED Ops!vars
  BY <1>2 DEF Ops!vars, OpsInv, HostsInv, TabInv, TasksInv, PlacesInv
<1> QED
  BY <1>1, <1>2, HostOpStep, UserOpStep, PlaceOpStep, OthersOpStep DEF Ops!Next

(* The hosts a run would go to and the host of the platform panel are of   *)
(* those the page lists, whatever lists land after hosts were added,       *)
(* changed and deleted, here or by another client (loadWorkspace,          *)
(* host-actions.ts); and each host of the server has an id of its own      *)
(* (UpsertHost, DeleteHost).                                               *)
THEOREM TargetsAreListed ==
  ASSUME MaxTasks \in Nat, MaxPageOps \in Nat
  PROVE  Ops!Spec => [](Ops!TypeOK /\ Ops!TargetsListed)
<1>1. Ops!Init => OpsInv
  BY OpsInit
<1>2. OpsInv /\ [Ops!Next]_Ops!vars => OpsInv'
  BY OpsStep
<1>3. OpsInv => Ops!TypeOK /\ Ops!TargetsListed
  <2> SUFFICES ASSUME OpsInv PROVE Ops!TypeOK /\ Ops!TargetsListed
    OBVIOUS
  <2>1. Ops!IsInjective([i \in DOMAIN hosts |-> hosts[i].id])
    BY DEF Ops!IsInjective, OpsInv, HostsInv, OwnIDs
  <2>2. Ops!HostIDs(hosts) \subseteq 1..made
    BY IdsOf DEF OpsInv, HostsInv
  <2>3. PICK p : p = tab
    OBVIOUS
  <2>4. p \in PageSet(made) /\ PageFits(p)
    BY <2>3 DEF OpsInv, TabInv
  <2>5. p.auth \in {"locked", "checking", "ready"}
    BY <2>4 DEF PageSet
  <2>6. Ops!Cardinality(tasks) <= MaxTasks
    <3>1. Ops!Cardinality(tasks) = Cardinality(tasks)
      BY Zenon DEF Ops!Cardinality, Cardinality
    <3> QED
      BY <3>1 DEF OpsInv, TasksInv
  <2> QED
    BY <2>1, <2>2, <2>3, <2>4, <2>5, <2>6
       DEF Ops!TypeOK, Ops!TargetsListed, Ops!NoHost, PageFits, OpsInv, PlacesInv, JobStates
<1> QED
  BY <1>1, <1>2, <1>3, PTL DEF Ops!Spec

=============================================================================
