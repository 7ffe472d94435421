------------------------- MODULE CodexBridgeProofs -------------------------
(***************************************************************************)
(* Proofs about CodexBridge for every number of goroutines, of processes   *)
(* and of faults.                                                          *)
(***************************************************************************)
EXTENDS CodexBridge, TLAPS

-----------------------------------------------------------------------------
(* The goroutines: what a step does to the one that takes it, and to the   *)
(* others.                                                                 *)

Jobs == {"init", "greet", "call", "note", "drop"}

(* Where a goroutine is when no more than n processes have been started.   *)
Places(n) == [at : ThreadAt, job : Jobs, try : {1, 2}, own : 0..n, to : 0..n]

(* A goroutine that takes no step itself stays where it is or is woken.    *)
Kept(u) ==
  /\ thread[u].at = "waiting" => thread'[u].at \in {"waiting", "ensure"}
  /\ thread[u].at # "waiting" => thread'[u].at = thread[u].at
  /\ thread'[u].job = thread[u].job
  /\ thread'[u].try = thread[u].try
  /\ thread'[u].own = thread[u].own
  /\ thread'[u].to = thread[u].to

OthersKept(t) == \A u \in Threads : u # t => Kept(u)

LEMMA PlaceChanged ==
  ASSUME NEW n \in Nat, NEW p \in Places(n)
  PROVE  /\ \A a \in ThreadAt : [p EXCEPT !.at = a] \in Places(n)
         /\ \A a \in ThreadAt, b \in Jobs :
              [p EXCEPT !.at = a, !.job = b] \in Places(n)
         /\ \A a \in ThreadAt, c \in 0..n :
              /\ [p EXCEPT !.at = a, !.to = c] \in Places(n)
              /\ [p EXCEPT !.to = c, !.at = a] \in Places(n)
              /\ [p EXCEPT !.at = a, !.own = c] \in Places(n)
         /\ \A a \in ThreadAt, b \in Jobs, c, d \in 0..n :
              [p EXCEPT !.at = a, !.job = b, !.own = c, !.to = d] \in Places(n)
  BY DEF Places

LEMMA WakeKeeps ==
  ASSUME NEW n \in Nat, NEW f \in [Threads -> Places(n)]
  PROVE  /\ Wake(f) \in [Threads -> Places(n)]
         /\ \A u \in Threads :
              /\ Wake(f)[u].at = IF f[u].at = "waiting" THEN "ensure" ELSE f[u].at
              /\ Wake(f)[u].job = f[u].job
              /\ Wake(f)[u].try = f[u].try
              /\ Wake(f)[u].own = f[u].own
              /\ Wake(f)[u].to = f[u].to
  BY DEF Places, Wake, ThreadAt

LEMMA MovedKeeps ==
  ASSUME NEW n \in Nat, thread \in [Threads -> Places(n)], NEW t \in Threads, NEW a \in ThreadAt
  PROVE  /\ Moved(t, a) \in [Threads -> Places(n)]
         /\ \A u \in Threads \ {t} : Moved(t, a)[u] = thread[u]
         /\ Moved(t, a)[t].at = a
         /\ Moved(t, a)[t].job = thread[t].job
         /\ Moved(t, a)[t].try = thread[t].try
         /\ Moved(t, a)[t].own = thread[t].own
         /\ Moved(t, a)[t].to = thread[t].to
  BY DEF Places, Moved, ThreadAt

LEMMA ReturnedKeeps ==
  ASSUME NEW n \in Nat, thread \in [Threads -> Places(n)], NEW t \in Threads, NEW a \in ThreadAt
  PROVE  /\ Returned(t, a) \in [Threads -> Places(n)]
         /\ \A u \in Threads \ {t} : Returned(t, a)[u] = thread[u]
         /\ Returned(t, a)[t].at = a
         /\ Returned(t, a)[t].job = Purpose(t)
         /\ Returned(t, a)[t].try = thread[t].try
         /\ Returned(t, a)[t].own = 0
         /\ Returned(t, a)[t].to = 0
<1>1. PICK b \in Jobs : b = Purpose(t)
  BY DEF Purpose, Jobs
<1>2. 0 \in 0..n
  OBVIOUS
<1>3. PICK p \in Places(n) : p = [thread[t] EXCEPT !.at = a, !.job = b, !.own = 0, !.to = 0]
  BY <1>2, PlaceChanged
<1>4. p.at = a /\ p.job = b /\ p.try = thread[t].try /\ p.own = 0 /\ p.to = 0
  BY <1>3 DEF Places
<1>5. Returned(t, a) = [thread EXCEPT ![t] = p]
  BY <1>1, <1>3 DEF Returned
<1> QED
  BY <1>1, <1>4, <1>5

-----------------------------------------------------------------------------
(* What each step does to the goroutines.                                  *)

(* It stays with what it does.                                             *)
SameTask(t) ==
  /\ thread'[t].job = thread[t].job
  /\ thread'[t].try = thread[t].try
  /\ thread'[t].own = thread[t].own
  /\ thread'[t].to = thread[t].to

(* It is back from ensureConnected or from its call.                       *)
Back(t, a) ==
  /\ thread'[t].at = a
  /\ thread'[t].job = Purpose(t)
  /\ thread'[t].try = thread[t].try
  /\ thread'[t].own = 0
  /\ thread'[t].to = 0

LEMMA PlacesGrow ==
  ASSUME NEW m \in Nat, NEW n \in Nat, m <= n
  PROVE  Places(m) \subseteq Places(n)
  BY DEF Places

ThreadsTyped == lastConn \in Nat /\ thread \in [Threads -> Places(lastConn)]

LEMMA TypedThreads ==
  ASSUME BridgeAssumption, TypeOK PROVE ThreadsTyped
  BY DEF TypeOK, ThreadsTyped, BridgeAssumption, Places, Jobs

LEMMA MovedEffect ==
  ASSUME ThreadsTyped, NEW t \in Threads, NEW a \in ThreadAt,
         lastConn' = lastConn,
         thread' = Moved(t, a)
  PROVE  ThreadsTyped' /\ OthersKept(t) /\ thread'[t].at = a /\ SameTask(t)
  BY MovedKeeps, WakeKeeps DEF ThreadsTyped, OthersKept, Kept, SameTask

LEMMA ReturnedEffect ==
  ASSUME ThreadsTyped, NEW t \in Threads, NEW a \in ThreadAt,
         lastConn' = lastConn,
         thread' = Returned(t, a) \/ (thread' = Wake(Returned(t, a)) /\ a # "waiting")
  PROVE  ThreadsTyped' /\ OthersKept(t) /\ Back(t, a)
  BY ReturnedKeeps, WakeKeeps DEF ThreadsTyped, OthersKept, Kept, Back

(* Connecting.                                                             *)
LEMMA PlacesNamed ==
  /\ \A t : NotConnected(t) \in ThreadAt \ {"waiting"} /\ Connected(t) \in ThreadAt \ {"waiting"}
  /\ {"idle", "ensure", "starting", "waiting", "register", "failed", "done", "wait", "write",
      "check", "dropping"} \subseteq ThreadAt
  BY DEF NotConnected, Connected, ThreadAt

LEMMA BeginEffect ==
  ASSUME ThreadsTyped, NEW t \in Threads, Begin(t)
  PROVE  /\ ThreadsTyped' /\ OthersKept(t)
         /\ t # Loop /\ thread[t].at = "idle"
         /\ thread'[t].at = "ensure" /\ SameTask(t)
<1>1. thread' = Moved(t, "ensure") /\ lastConn' = lastConn
  BY DEF Begin, processVars
<1> QED
  BY <1>1, PlacesNamed, MovedEffect DEF Begin

LEMMA EnsureEffect ==
  ASSUME ThreadsTyped, NEW t \in Threads, EnsureConnected(t)
  PROVE  /\ ThreadsTyped' /\ OthersKept(t)
         /\ thread[t].at = "ensure"
         /\ \/ closed /\ Back(t, NotConnected(t)) /\ connecting' = connecting
            \/ conn # 0 /\ Back(t, Connected(t)) /\ connecting' = connecting
            \/ /\ ~connecting /\ connecting' = TRUE /\ conn = 0
               /\ thread'[t].at = "starting" /\ SameTask(t)
            \/ connecting /\ connecting' = connecting /\ thread'[t].at = "waiting" /\ SameTask(t)
<1>1. lastConn' = lastConn
  BY DEF EnsureConnected, processVars
<1>2. CASE closed /\ thread' = Returned(t, NotConnected(t)) /\ UNCHANGED connecting
  BY <1>1, <1>2, PlacesNamed, ReturnedEffect DEF EnsureConnected
<1>3. CASE ~closed /\ conn # 0 /\ thread' = Returned(t, Connected(t)) /\ UNCHANGED connecting
  BY <1>1, <1>3, PlacesNamed, ReturnedEffect DEF EnsureConnected
<1>4. CASE ~closed /\ conn = 0 /\ ~connecting /\ connecting' = TRUE /\ thread' = Moved(t, "starting")
  BY <1>1, <1>4, PlacesNamed, MovedEffect DEF EnsureConnected
<1>5. CASE ~closed /\ conn = 0 /\ connecting /\ thread' = Moved(t, "waiting") /\ UNCHANGED connecting
  <2>1. /\ ThreadsTyped' /\ OthersKept(t) /\ thread[t].at = "ensure"
        /\ thread'[t].at = "waiting" /\ SameTask(t)
    BY <1>1, <1>5, PlacesNamed, MovedEffect DEF EnsureConnected
  <2> QED
    BY <1>5, <2>1
<1> QED
  BY <1>2, <1>3, <1>4, <1>5 DEF EnsureConnected

LEMMA StartFailsEffect ==
  ASSUME ThreadsTyped, NEW t \in Threads, StartFails(t)
  PROVE  ThreadsTyped' /\ OthersKept(t) /\ thread[t].at = "starting" /\ Back(t, NotConnected(t))
<1>1. thread' = Wake(Returned(t, NotConnected(t))) /\ lastConn' = lastConn
  BY DEF StartFails, processVars
<1> QED
  BY <1>1, PlacesNamed, ReturnedEffect DEF StartFails

LEMMA StartEffect ==
  ASSUME ThreadsTyped, NEW t \in Threads, StartProcess(t)
  PROVE  /\ ThreadsTyped' /\ OthersKept(t)
         /\ thread'[t].at = "started"
         /\ thread'[t].own = lastConn + 1
         /\ thread'[t].job = thread[t].job
         /\ thread'[t].try = thread[t].try
         /\ thread'[t].to = thread[t].to
<1>1. PICK n \in Nat : n = lastConn + 1 /\ lastConn <= n /\ lastConn' = n
  BY DEF StartProcess, ThreadsTyped
<1>2. thread \in [Threads -> Places(n)]
  BY <1>1, PlacesGrow DEF ThreadsTyped
<1>3. n \in 0..n /\ "started" \in ThreadAt
  BY DEF ThreadAt
<1>4. PICK p \in Places(n) : p = [thread[t] EXCEPT !.at = "started", !.own = n]
  BY <1>2, <1>3, PlaceChanged
<1>5. thread' = [thread EXCEPT ![t] = p]
  BY <1>1, <1>4 DEF StartProcess
<1>6. /\ p.at = "started" /\ p.own = n
      /\ p.job = thread[t].job /\ p.try = thread[t].try /\ p.to = thread[t].to
  BY <1>2, <1>4 DEF Places
<1> QED
  BY <1>1, <1>2, <1>5, <1>6 DEF ThreadsTyped, OthersKept, Kept

LEMMA InstallEffect ==
  ASSUME ThreadsTyped, NEW t \in Threads, Install(t)
  PROVE  /\ ThreadsTyped' /\ OthersKept(t)
         /\ \/ closed /\ conn' = conn /\ Back(t, NotConnected(t))
            \/ /\ ~closed /\ conn' = thread[t].own /\ process' = process
               /\ thread'[t].at = "register"
               /\ thread'[t].job = "init"
               /\ thread'[t].try = thread[t].try
               /\ thread'[t].own = thread[t].own
               /\ thread'[t].to = thread[t].to
<1>1. NotConnected(t) \in ThreadAt \ {"waiting"} /\ lastConn' = lastConn
  BY DEF NotConnected, ThreadAt, Install
<1>2. CASE closed /\ thread' = Wake(Returned(t, NotConnected(t))) /\ conn' = conn
  BY <1>1, <1>2, ReturnedEffect
<1>3. CASE /\ ~closed /\ conn' = thread[t].own /\ process' = process
           /\ thread' = Wake([thread EXCEPT ![t].at = "register", ![t].job = "init"])
  <2>1. PICK p \in Places(lastConn) : p = [thread[t] EXCEPT !.at = "register", !.job = "init"]
    BY PlaceChanged DEF ThreadsTyped, ThreadAt, Jobs
  <2>2. thread' = Wake([thread EXCEPT ![t] = p])
    BY <1>3, <2>1
  <2>3. /\ p.at = "register" /\ p.job = "init"
        /\ p.own = thread[t].own /\ p.try = thread[t].try /\ p.to = thread[t].to
    BY <2>1 DEF Places, ThreadsTyped
  <2>4. PICK f \in [Threads -> Places(lastConn)] : f = [thread EXCEPT ![t] = p]
    BY DEF ThreadsTyped
  <2>5. f[t] = p /\ \A u \in Threads \ {t} : f[u] = thread[u]
    BY <2>4 DEF ThreadsTyped
  <2>6. ThreadsTyped' /\ OthersKept(t)
    BY <1>1, <2>2, <2>4, <2>5, WakeKeeps DEF ThreadsTyped, OthersKept, Kept
  <2>7. /\ thread'[t].at = "register" /\ thread'[t].job = "init"
        /\ thread'[t].own = p.own /\ thread'[t].try = p.try /\ thread'[t].to = p.to
    BY <2>2, <2>3, <2>4, <2>5, WakeKeeps DEF ThreadsTyped
  <2> QED
    BY <1>3, <2>3, <2>6, <2>7
<1> QED
  BY <1>2, <1>3 DEF Install, InstallOrKill

(* Sending.                                                                *)
LEMMA RegisterEffect ==
  ASSUME ThreadsTyped, conn \in 0..lastConn, NEW t \in Threads, Register(t)
  PROVE  /\ ThreadsTyped' /\ OthersKept(t)
         /\ thread[t].at = "register"
         /\ \/ /\ conn # 0
               /\ pending' = IF HasAnswer(t) THEN pending \cup {Request(t)} ELSE pending
               /\ thread'[t].at = "write"
               /\ thread'[t].to = conn
               /\ thread'[t].job = thread[t].job
               /\ thread'[t].try = thread[t].try
               /\ thread'[t].own = thread[t].own
            \/ /\ conn = 0
               /\ pending' = pending
               /\ \/ thread[t].job = "call" /\ Back(t, "done")
                  \/ thread'[t].at = "failed" /\ SameTask(t)
<1>1. lastConn' = lastConn
  BY DEF Register, processVars
<1>2. CASE conn # 0 /\ thread' = [thread EXCEPT ![t].at = "write", ![t].to = conn]
  <2>1. PICK p \in Places(lastConn) : p = [thread[t] EXCEPT !.at = "write", !.to = conn]
    BY PlaceChanged DEF ThreadsTyped, ThreadAt
  <2>2. thread' = [thread EXCEPT ![t] = p]
    BY <1>2, <2>1
  <2>3. /\ p.at = "write" /\ p.to = conn
        /\ p.job = thread[t].job /\ p.try = thread[t].try /\ p.own = thread[t].own
    BY <2>1 DEF Places, ThreadsTyped
  <2>4. ThreadsTyped' /\ OthersKept(t) /\ thread'[t] = p
    BY <1>1, <2>2 DEF ThreadsTyped, OthersKept, Kept
  <2> QED
    BY <1>2, <2>3, <2>4 DEF Register
<1>3. CASE conn = 0 /\ closed /\ thread[t].job = "call" /\ thread' = Returned(t, "done")
  <2>1. ThreadsTyped' /\ OthersKept(t) /\ Back(t, "done")
    BY <1>1, <1>3, PlacesNamed, ReturnedEffect
  <2> QED
    BY <1>3, <2>1 DEF Register
<1>4. CASE conn = 0 /\ thread' = Moved(t, "failed")
  <2>1. ThreadsTyped' /\ OthersKept(t) /\ thread'[t].at = "failed" /\ SameTask(t)
    BY <1>1, <1>4, PlacesNamed, MovedEffect
  <2> QED
    BY <1>4, <2>1 DEF Register
<1> QED
  BY <1>2, <1>3, <1>4 DEF Register

LEMMA WriteEffect ==
  ASSUME ThreadsTyped, NEW t \in Threads, Write(t), thread[t].job # "drop"
  PROVE  /\ ThreadsTyped' /\ OthersKept(t)
         /\ thread[t].at = "write"
         /\ \/ HasAnswer(t) /\ thread'[t].at = "wait" /\ SameTask(t)
            \/ thread[t].job = "greet" /\ Back(t, Connected(t))
            \/ thread[t].job = "note" /\ Back(t, "done")
<1>1. lastConn' = lastConn
  BY DEF Write
<1>2. CASE HasAnswer(t)
  <2>1. thread' = Moved(t, "wait")
    BY <1>2 DEF Write, HasAnswer
  <2> QED
    BY <1>1, <1>2, <2>1, PlacesNamed, MovedEffect DEF Write
<1>3. CASE thread[t].job = "greet"
  <2>1. thread' = Returned(t, Connected(t))
    BY <1>3 DEF Write, HasAnswer
  <2> QED
    BY <1>1, <1>3, <2>1, PlacesNamed, ReturnedEffect DEF Write
<1>4. CASE thread[t].job = "note"
  <2>1. thread' = Returned(t, "done")
    BY <1>4 DEF Write, HasAnswer
  <2> QED
    BY <1>1, <1>4, <2>1, PlacesNamed, ReturnedEffect DEF Write
<1>5. thread[t].job \in Jobs
  BY DEF ThreadsTyped, Places
<1> QED
  BY <1>2, <1>3, <1>4, <1>5 DEF Jobs, HasAnswer

LEMMA ReceiveEffect ==
  ASSUME ThreadsTyped, NEW t \in Threads, Receive(t)
  PROVE  /\ ThreadsTyped' /\ OthersKept(t)
         /\ thread[t].at = "wait" /\ channel[Request(t)] # "none"
         /\ \/ thread'[t].at = "failed" /\ SameTask(t)
            \/ /\ thread[t].job = "init"
               /\ thread'[t].at = "register"
               /\ thread'[t].job = "greet"
               /\ thread'[t].try = thread[t].try
               /\ thread'[t].own = thread[t].own
               /\ thread'[t].to = thread[t].to
            \/ thread[t].job # "init" /\ Back(t, "done")
<1>1. lastConn' = lastConn
  BY DEF Receive, processVars
<1>2. CASE thread' = Moved(t, "failed")
  BY <1>1, <1>2, PlacesNamed, MovedEffect DEF Receive
<1>3. CASE thread[t].job = "init" /\ thread' = [thread EXCEPT ![t].at = "register", ![t].job = "greet"]
  <2>1. PICK p \in Places(lastConn) : p = [thread[t] EXCEPT !.at = "register", !.job = "greet"]
    BY PlaceChanged DEF ThreadsTyped, ThreadAt, Jobs
  <2>2. thread' = [thread EXCEPT ![t] = p]
    BY <1>3, <2>1
  <2>3. /\ p.at = "register" /\ p.job = "greet"
        /\ p.own = thread[t].own /\ p.try = thread[t].try /\ p.to = thread[t].to
    BY <2>1 DEF Places, ThreadsTyped
  <2>4. ThreadsTyped' /\ OthersKept(t) /\ thread'[t] = p
    BY <1>1, <2>2 DEF ThreadsTyped, OthersKept, Kept
  <2> QED
    BY <1>3, <2>3, <2>4 DEF Receive
<1>4. CASE thread[t].job # "init" /\ thread' = Returned(t, "done")
  BY <1>1, <1>4, PlacesNamed, ReturnedEffect DEF Receive
<1> QED
  BY <1>2, <1>3, <1>4 DEF Receive

LEMMA TimeOutEffect ==
  ASSUME ThreadsTyped, NEW t \in Threads, TimeOut(t)
  PROVE  /\ ThreadsTyped' /\ OthersKept(t)
         /\ thread[t].at = "wait"
         /\ pending' = pending \ {Request(t)}
         /\ \/ thread[t].job = "init" /\ thread'[t].at = "failed" /\ SameTask(t)
            \/ thread[t].job # "init" /\ Back(t, "done")
<1>1. lastConn' = lastConn
  BY DEF TimeOut, processVars
<1>2. CASE thread[t].job = "init" /\ thread' = Moved(t, "failed")
  BY <1>1, <1>2, PlacesNamed, MovedEffect DEF TimeOut
<1>3. CASE thread[t].job # "init" /\ thread' = Returned(t, "done")
  BY <1>1, <1>3, PlacesNamed, ReturnedEffect DEF TimeOut
<1> QED
  BY <1>2, <1>3 DEF TimeOut

LEMMA DroppedEffect ==
  ASSUME ThreadsTyped, NEW t \in Threads, Dropped(t)
  PROVE  /\ ThreadsTyped' /\ OthersKept(t)
         /\ thread[t].at = "dropping" /\ thread'[t].at = "failed" /\ SameTask(t)
<1>1. lastConn' = lastConn /\ thread' = Moved(t, "failed")
  BY DEF Dropped, processVars
<1> QED
  BY <1>1, PlacesNamed, MovedEffect DEF Dropped

LEMMA ConnectFailsEffect ==
  ASSUME ThreadsTyped, NEW t \in Threads, ConnectFails(t)
  PROVE  /\ ThreadsTyped' /\ OthersKept(t)
         /\ thread[t].at = "failed" /\ thread[t].job = "drop" /\ Back(t, NotConnected(t))
<1>1. lastConn' = lastConn /\ thread' = Returned(t, NotConnected(t))
  BY DEF ConnectFails, processVars
<1> QED
  BY <1>1, PlacesNamed, ReturnedEffect DEF ConnectFails

LEMMA TryFailsEffect ==
  ASSUME ThreadsTyped, NEW t \in Threads, TryFails(t)
  PROVE  /\ ThreadsTyped' /\ OthersKept(t)
         /\ thread[t].at = "failed"
         /\ \/ /\ thread[t].job = "call" /\ thread[t].try = 1
               /\ thread'[t].at = "ensure"
               /\ thread'[t].job = Purpose(t)
               /\ thread'[t].try = 2
               /\ thread'[t].own = 0
               /\ thread'[t].to = 0
            \/ thread[t].job \in {"call", "note"} /\ Back(t, "done")
<1>1. lastConn' = lastConn
  BY DEF TryFails, processVars
<1>2. CASE /\ thread[t].job = "call" /\ thread[t].try = 1
           /\ thread' = [Returned(t, "ensure") EXCEPT ![t].try = 2]
  <2>1. PICK f \in [Threads -> Places(lastConn)] : f = Returned(t, "ensure")
    BY PlacesNamed, ReturnedKeeps DEF ThreadsTyped
  <2>2. /\ f[t].at = "ensure" /\ f[t].job = Purpose(t) /\ f[t].own = 0 /\ f[t].to = 0
        /\ \A u \in Threads \ {t} : f[u] = thread[u]
    BY <2>1, PlacesNamed, ReturnedKeeps DEF ThreadsTyped
  <2>3. PICK p \in Places(lastConn) : p = [f[t] EXCEPT !.try = 2]
    BY DEF Places
  <2>4. thread' = [f EXCEPT ![t] = p]
    BY <1>2, <2>1, <2>3
  <2>5. p.try = 2 /\ p.at = f[t].at /\ p.job = f[t].job /\ p.own = f[t].own /\ p.to = f[t].to
    BY <2>3 DEF Places
  <2>6. ThreadsTyped' /\ OthersKept(t) /\ thread'[t] = p
    BY <1>1, <2>2, <2>4 DEF ThreadsTyped, OthersKept, Kept
  <2> QED
    BY <1>2, <2>2, <2>5, <2>6 DEF TryFails
<1>3. CASE thread' = Returned(t, "done")
  BY <1>1, <1>3, PlacesNamed, ReturnedEffect DEF TryFails
<1> QED
  BY <1>2, <1>3 DEF TryFails

(* Losing a connection: a goroutine calls handleProcessDrop.               *)
LEMMA AfterDropKeeps ==
  ASSUME ThreadsTyped, NEW t \in Threads, NEW c \in 0..lastConn
  PROVE  /\ AfterDrop(t, c) \in [Threads -> Places(lastConn)]
         /\ \A u \in Threads \ {t} : AfterDrop(t, c)[u] = thread[u]
         /\ AfterDrop(t, c)[t].at = IF conn = c THEN "dropping" ELSE "failed"
         /\ AfterDrop(t, c)[t].job = thread[t].job
         /\ AfterDrop(t, c)[t].try = thread[t].try
         /\ AfterDrop(t, c)[t].own = thread[t].own
         /\ AfterDrop(t, c)[t].to = c
<1>1. PICK a \in ThreadAt : a = IF conn = c THEN "dropping" ELSE "failed"
  BY PlacesNamed
<1>2. PICK p \in Places(lastConn) : p = [thread[t] EXCEPT !.to = c, !.at = a]
  BY PlaceChanged DEF ThreadsTyped
<1>3. AfterDrop(t, c) = [thread EXCEPT ![t] = p]
  BY <1>1, <1>2 DEF AfterDrop
<1>4. /\ p.at = a /\ p.to = c
      /\ p.job = thread[t].job /\ p.try = thread[t].try /\ p.own = thread[t].own
  BY <1>2 DEF Places, ThreadsTyped
<1> QED
  BY <1>1, <1>3, <1>4 DEF ThreadsTyped

LEMMA DropWakes ==
  ASSUME ThreadsTyped, lastConn' = lastConn, NEW t \in Threads,
         NEW f \in [Threads -> Places(lastConn)],
         thread' = f \/ thread' = Wake(f),
         \A u \in Threads \ {t} : f[u] = thread[u],
         f[t].at # "waiting"
  PROVE  /\ ThreadsTyped' /\ OthersKept(t)
         /\ thread'[t].at = f[t].at /\ thread'[t].job = f[t].job /\ thread'[t].try = f[t].try
         /\ thread'[t].own = f[t].own /\ thread'[t].to = f[t].to
  BY WakeKeeps DEF ThreadsTyped, OthersKept, Kept

LEMMA WriteFailsEffect ==
  ASSUME ThreadsTyped, NEW t \in Threads, WriteFails(t)
  PROVE  /\ ThreadsTyped' /\ OthersKept(t)
         /\ thread[t].at = "write" /\ SameTask(t)
         /\ thread'[t].at \in {"dropping", "failed"}
<1>1. PICK c \in 0..lastConn : c = thread[t].to
  BY DEF ThreadsTyped, Places
<1>2. PICK f \in [Threads -> Places(lastConn)] : f = AfterDrop(t, c)
  BY AfterDropKeeps
<1>3. lastConn' = lastConn /\ (thread' = f \/ thread' = Wake(f))
  BY <1>1, <1>2 DEF WriteFails, HandleProcessDrop, processVars
<1>4. /\ \A u \in Threads \ {t} : f[u] = thread[u]
      /\ f[t].at \in {"dropping", "failed"}
      /\ f[t].job = thread[t].job /\ f[t].try = thread[t].try
      /\ f[t].own = thread[t].own /\ f[t].to = thread[t].to
  BY <1>1, <1>2, AfterDropKeeps
<1> QED
  BY <1>3, <1>4, DropWakes DEF WriteFails, SameTask

LEMMA BootstrapFailsEffect ==
  ASSUME ThreadsTyped, NEW t \in Threads, BootstrapFails(t)
  PROVE  /\ ThreadsTyped' /\ OthersKept(t)
         /\ thread[t].at = "failed" /\ thread[t].job \in {"init", "greet"}
         /\ thread'[t].at \in {"dropping", "failed"}
         /\ thread'[t].job = "drop"
         /\ thread'[t].try = thread[t].try
         /\ thread'[t].own = thread[t].own
         /\ thread'[t].to = thread[t].own
<1>1. PICK c \in 0..lastConn : c = thread[t].own
  BY DEF ThreadsTyped, Places
<1>2. PICK g \in [Threads -> Places(lastConn)] : g = AfterDrop(t, c)
  BY AfterDropKeeps
<1>3. /\ \A u \in Threads \ {t} : g[u] = thread[u]
      /\ g[t].at \in {"dropping", "failed"} /\ g[t].try = thread[t].try
      /\ g[t].own = thread[t].own /\ g[t].to = c
  BY <1>2, AfterDropKeeps
<1>4. PICK p \in Places(lastConn) : p = [g[t] EXCEPT !.job = "drop"]
  BY DEF Places, Jobs
<1>5. p.job = "drop" /\ p.at = g[t].at /\ p.try = g[t].try /\ p.own = g[t].own /\ p.to = g[t].to
  BY <1>4 DEF Places
<1>6. PICK f \in [Threads -> Places(lastConn)] : f = [g EXCEPT ![t] = p]
  OBVIOUS
<1>7. lastConn' = lastConn /\ (thread' = f \/ thread' = Wake(f))
  BY <1>1, <1>2, <1>4, <1>6 DEF BootstrapFails, HandleProcessDrop, processVars
<1>8. (\A u \in Threads \ {t} : f[u] = thread[u]) /\ f[t] = p
  BY <1>3, <1>6
<1> QED
  BY <1>1, <1>3, <1>5, <1>7, <1>8, DropWakes DEF BootstrapFails

(* The loops of a connection, the goroutine that reconnects, and Close.    *)
AllKept == \A u \in Threads : Kept(u)

LEMMA SameKept ==
  ASSUME ThreadsTyped, thread' = thread, lastConn' = lastConn
  PROVE  ThreadsTyped' /\ AllKept
  BY DEF ThreadsTyped, AllKept, Kept

LEMMA WakeKept ==
  ASSUME ThreadsTyped, thread' = thread \/ thread' = Wake(thread), lastConn' = lastConn
  PROVE  ThreadsTyped' /\ AllKept
  BY WakeKeeps DEF ThreadsTyped, AllKept, Kept

(* The steps that belong to no goroutine of the bridge's callers.          *)
Background ==
  \/ \E c \in Conns, r \in Requests : Answer(c, r)
  \/ \E r \in Requests, a \in {"ok", "error"} : Dispatch(r, a)
  \/ \E c \in Conns : WaitLoop(c) \/ Kill(c) \/ Tell(c) \/ Exit(c) \/ ReadFails(c)
  \/ Close

LEMMA BackgroundEffect ==
  ASSUME ThreadsTyped, Background
  PROVE  ThreadsTyped' /\ AllKept /\ lastConn' = lastConn
<1>1. lastConn' = lastConn
  BY DEF Background, Answer, Dispatch, WaitLoop, Kill, Tell, Exit, ReadFails, Close, processVars
<1>2. thread' = thread \/ thread' = Wake(thread)
  BY DEF Background, Answer, Dispatch, WaitLoop, Kill, Tell, Exit, ReadFails, Close,
         HandleProcessDrop
<1> QED
  BY <1>1, <1>2, WakeKept

(* A step of the goroutine that reconnects, or its start.                  *)
LEMMA LoopEffect ==
  ASSUME ThreadsTyped,
         Check \/ BackedOff \/ Leave \/ \E c \in Conns : EndDrop(c) /\ drop[c].loop
  PROVE  /\ ThreadsTyped' /\ OthersKept(Loop) /\ SameTask(Loop) /\ lastConn' = lastConn
         /\ \/ Check /\ thread[Loop].at = "check" /\ thread'[Loop].at \in {"leaving", "ensure"}
            \/ BackedOff /\ thread[Loop].at = "backoff" /\ thread'[Loop].at = "check"
            \/ Leave /\ thread[Loop].at = "leaving" /\ thread'[Loop].at = "idle"
            \/ (\E c \in Conns : EndDrop(c) /\ drop[c].loop) /\ thread'[Loop].at = "check"
<1> Loop \in Threads /\ {"leaving", "ensure", "check", "idle"} \subseteq ThreadAt
  BY DEF Threads, ThreadAt
<1>1. CASE Check
  <2>1. PICK a \in {"leaving", "ensure"} : thread' = Moved(Loop, a)
    BY <1>1 DEF Check
  <2>2. lastConn' = lastConn
    BY <1>1 DEF Check, processVars
  <2> QED
    BY <1>1, <2>1, <2>2, MovedEffect DEF Check
<1>2. CASE BackedOff
  <2>1. thread' = Moved(Loop, "check") /\ lastConn' = lastConn
    BY <1>2 DEF BackedOff, processVars
  <2> QED
    BY <1>2, <2>1, MovedEffect DEF BackedOff
<1>3. CASE Leave
  <2>1. thread' = Moved(Loop, "idle") /\ lastConn' = lastConn
    BY <1>3 DEF Leave, processVars
  <2> QED
    BY <1>3, <2>1, MovedEffect DEF Leave
<1>4. CASE \E c \in Conns : EndDrop(c) /\ drop[c].loop
  <2>1. thread' = Moved(Loop, "check") /\ lastConn' = lastConn
    BY <1>4 DEF EndDrop, processVars
  <2> QED
    BY <1>4, <2>1, MovedEffect
<1> QED
  BY <1>1, <1>2, <1>3, <1>4

LEMMA QuietEndDrop ==
  ASSUME ThreadsTyped, NEW c \in Conns, EndDrop(c), ~drop[c].loop
  PROVE  ThreadsTyped' /\ AllKept /\ lastConn' = lastConn
<1>1. thread' = thread /\ lastConn' = lastConn
  BY DEF EndDrop, processVars
<1> QED
  BY <1>1, SameKept

-----------------------------------------------------------------------------
(* Types.                                                                  *)

(* Whoever is connected, sending or being told has a number for it; a      *)
(* message is sent on behalf of a task, and only requests are waited for.  *)
PlaceOK(t) ==
  /\ thread[t].at \in {"write", "wait", "dropping"} => thread[t].to # 0
  /\ thread[t].at = "started" \/ thread[t].job \in {"init", "greet"} => thread[t].own # 0
  /\ thread[t].job = "call" => t \in Callers
  /\ thread[t].at \in {"register", "write"} => thread[t].job # "drop"
  /\ thread[t].at = "wait" => HasAnswer(t)

SharedTyped ==
  /\ closed \in BOOLEAN /\ connecting \in BOOLEAN /\ reconnecting \in BOOLEAN
  /\ lastConn \in 0..MaxConns
  /\ conn \in 0..lastConn
  /\ process \in [Conns -> {"none", "running", "exited"}]
  /\ pending \subseteq Requests
  /\ channel \in [Requests -> {"none", "ok", "error", "dropped"}]
  /\ inbox \subseteq Conns \X Requests
  /\ outbox \subseteq Requests \X {"ok", "error"}
  /\ drop \in [Conns -> [at : {"none", "kill", "tell", "closeTell", "closeKill", "done"},
                         told : SUBSET Requests, loop : BOOLEAN]]
  /\ faults \in [FaultKinds -> Nat]

Typed == SharedTyped /\ ThreadsTyped /\ \A t \in Threads : PlaceOK(t)

LEMMA TypedImpliesTypeOK ==
  ASSUME Typed PROVE TypeOK
  BY DEF Typed, SharedTyped, ThreadsTyped, PlaceOK, TypeOK, Places, Jobs

LEMMA TypedInit ==
  ASSUME BridgeAssumption, Init PROVE Typed
<1>1. ThreadsTyped
  BY DEF Init, ThreadsTyped, Places, Purpose, ThreadAt, Jobs
<1>2. ASSUME NEW t \in Threads PROVE PlaceOK(t)
  BY <1>2 DEF Init, PlaceOK, Purpose
<1>3. SharedTyped
  <2>1. /\ drop \in [Conns -> [at : {"none", "kill", "tell", "closeTell", "closeKill", "done"},
                               told : SUBSET Requests, loop : BOOLEAN]]
        /\ process \in [Conns -> {"none", "running", "exited"}]
        /\ channel \in [Requests -> {"none", "ok", "error", "dropped"}]
        /\ faults \in [FaultKinds -> Nat]
    BY DEF Init
  <2>2. closed \in BOOLEAN /\ connecting \in BOOLEAN /\ reconnecting \in BOOLEAN
    BY DEF Init
  <2>3. lastConn \in 0..MaxConns /\ conn \in 0..lastConn
    BY DEF Init, BridgeAssumption
  <2>4. pending = {} /\ inbox = {} /\ outbox = {}
    BY DEF Init
  <2> QED
    BY <2>1, <2>2, <2>3, <2>4 DEF SharedTyped
<1> QED
  BY <1>1, <1>2, <1>3 DEF Typed

LEMMA KeptPlaceOK ==
  ASSUME NEW u \in Threads, PlaceOK(u), Kept(u)
  PROVE  PlaceOK(u)'
  BY DEF PlaceOK, Kept, HasAnswer

LEMMA BackPlaceOK ==
  ASSUME NEW t \in Threads, NEW a \in {"done", NotConnected(t), Connected(t)}, Back(t, a)
  PROVE  PlaceOK(t)'
<1>1. a \in {"done", "register", "leaving", "backoff"} /\ (thread'[t].at = a)
  BY DEF Back, NotConnected, Connected
<1>2. thread'[t].job \in {"call", "note"} /\ (thread'[t].job = "call" => t \in Callers)
  BY DEF Back, Purpose
<1> QED
  BY <1>1, <1>2 DEF PlaceOK

(* A request belongs to its sender.                                        *)
LEMMA RequestTyped ==
  ASSUME Typed, BridgeAssumption, NEW t \in Threads, HasAnswer(t)
  PROVE  Request(t) \in Requests
<1>1. PlaceOK(t) /\ lastConn \in 0..MaxConns /\ thread[t] \in Places(lastConn)
  BY DEF Typed, SharedTyped, ThreadsTyped
<1>2. CASE thread[t].job = "init"
  <2>1. thread[t].own \in Conns
    BY <1>1, <1>2 DEF PlaceOK, Places, Conns, BridgeAssumption
  <2> QED
    BY <1>2, <2>1 DEF Request, Requests
<1>3. CASE thread[t].job = "call"
  BY <1>1, <1>3 DEF Request, Requests, PlaceOK, Places
<1> QED
  BY <1>2, <1>3 DEF HasAnswer

Drops == [at : {"none", "kill", "tell", "closeTell", "closeKill", "done"},
          told : SUBSET Requests, loop : BOOLEAN]

LEMMA DropChanged ==
  ASSUME NEW d \in Drops
  PROVE  /\ \A a \in {"tell", "done", "closeKill"} : [d EXCEPT !.at = a] \in Drops
         /\ \A s \in SUBSET Requests : [d EXCEPT !.told = s] \in Drops
         /\ \A a \in {"tell", "done", "closeKill"} :
              /\ [d EXCEPT !.at = a].at = a
              /\ [d EXCEPT !.at = a].told = d.told
              /\ [d EXCEPT !.at = a].loop = d.loop
         /\ \A s \in SUBSET Requests :
              /\ [d EXCEPT !.told = s].told = s
              /\ [d EXCEPT !.told = s].at = d.at
              /\ [d EXCEPT !.told = s].loop = d.loop
  BY DEF Drops

LEMMA DropTyped ==
  ASSUME SharedTyped PROVE drop \in [Conns -> Drops]
  BY DEF SharedTyped, Drops

LEMMA HandleTyped ==
  ASSUME SharedTyped, NEW c \in Conns, NEW left \in SUBSET Requests, NEW f,
         HandleProcessDrop(c, left, f), UNCHANGED <<closed, lastConn>>
  PROVE  /\ reconnecting' \in BOOLEAN
         /\ conn' \in 0..lastConn'
         /\ pending' \subseteq Requests
         /\ drop' \in [Conns -> Drops]
<1>0. drop \in [Conns -> Drops] /\ lastConn \in Nat /\ conn \in 0..lastConn
  BY DropTyped DEF SharedTyped
<1>1. Lost(left) \in Drops
  BY DEF Lost, Drops, SharedTyped
<1>2. CASE conn = c
  <2>1. conn' = 0 /\ pending' = {} /\ reconnecting' = (reconnecting \/ ~closed)
        /\ drop' = [drop EXCEPT ![c] = Lost(left)]
    BY <1>2 DEF HandleProcessDrop
  <2>2. reconnecting' \in BOOLEAN
    BY <2>1
  <2> QED
    BY <1>0, <1>1, <2>1, <2>2
<1>3. CASE conn # c
  <2>1. conn' = conn /\ pending' = left /\ reconnecting' = reconnecting /\ drop' = drop
    BY <1>3 DEF HandleProcessDrop
  <2> QED
    BY <1>0, <2>1 DEF SharedTyped
<1> QED
  BY <1>2, <1>3

LEMMA FaultTyped ==
  ASSUME SharedTyped, NEW k \in FaultKinds, Fault(k)
  PROVE  faults' \in [FaultKinds -> Nat]
<1>1. faults[k] + 1 \in Nat
  BY DEF SharedTyped
<1> QED
  BY <1>1 DEF SharedTyped, Fault

(* Steps of goroutines, as far as the state they share is concerned.       *)
LEMMA SharedConnect ==
  ASSUME BridgeAssumption, Typed, NEW t \in Threads, Begin(t) \/ Connect(t)
  PROVE  SharedTyped'
<1> USE DEF Typed, bridgeVars, processVars
<1>1. CASE Begin(t)
  BY <1>1 DEF Begin, SharedTyped
<1>2. CASE EnsureConnected(t)
  <2>1. connecting' \in BOOLEAN
    BY <1>2 DEF EnsureConnected, SharedTyped
  <2> QED
    BY <1>2, <2>1 DEF EnsureConnected, SharedTyped
<1>3. CASE StartProcess(t)
  <2>1. lastConn + 1 \in Conns /\ lastConn' \in 0..MaxConns /\ conn' \in 0..lastConn'
    BY <1>3 DEF StartProcess, SharedTyped, Conns, BridgeAssumption
  <2>2. process' \in [Conns -> {"none", "running", "exited"}]
    BY <1>3, <2>1 DEF StartProcess, SharedTyped
  <2>3. UNCHANGED <<closed, connecting, reconnecting, inbox, outbox, pending, channel, drop, faults>>
    BY <1>3 DEF StartProcess
  <2> QED
    BY <2>1, <2>2, <2>3 DEF SharedTyped
<1>4. CASE StartFails(t)
  <2>1. faults' \in [FaultKinds -> Nat]
    BY <1>4, FaultTyped DEF StartFails, FaultKinds
  <2>2. connecting' \in BOOLEAN
    BY <1>4 DEF StartFails
  <2> QED
    BY <1>4, <2>1, <2>2 DEF StartFails, SharedTyped
<1>5. CASE Install(t)
  <2>1. thread[t].own \in 0..lastConn
    BY DEF ThreadsTyped, Places
  <2>2. conn' \in 0..lastConn
    BY <1>5, <2>1 DEF Install, InstallOrKill, SharedTyped
  <2>3. process' \in [Conns -> {"none", "running", "exited"}]
    BY <1>5 DEF Install, InstallOrKill, SharedTyped
  <2>4. connecting' \in BOOLEAN
    BY <1>5 DEF Install
  <2> QED
    BY <1>5, <2>2, <2>3, <2>4 DEF Install, SharedTyped
<1> QED
  BY <1>1, <1>2, <1>3, <1>4, <1>5 DEF Connect

LEMMA SharedSend ==
  ASSUME BridgeAssumption, Typed, NEW t \in Threads, Send(t)
  PROVE  SharedTyped'
<1> USE DEF Typed, bridgeVars, processVars
<1>0. PlaceOK(t) /\ thread[t] \in Places(lastConn)
  BY DEF ThreadsTyped
<1>1. CASE Register(t)
  <2>1. pending' \subseteq Requests
    BY <1>1, RequestTyped DEF Register, SharedTyped
  <2> QED
    BY <1>1, <2>1 DEF Register, SharedTyped
<1>2. CASE Write(t)
  <2>1. thread[t].to \in Conns
    BY <1>0, <1>2 DEF Write, PlaceOK, SharedTyped, Conns, Places, BridgeAssumption
  <2>2. inbox' \subseteq Conns \X Requests
    BY <1>2, <2>1, RequestTyped DEF Write, SharedTyped
  <2> QED
    BY <1>2, <2>2 DEF Write, SharedTyped
<1>3. CASE WriteFails(t)
  <2>1. thread[t].to \in Conns
    BY <1>0, <1>3 DEF WriteFails, PlaceOK, SharedTyped, Conns, Places, BridgeAssumption
  <2>2. PICK left \in SUBSET Requests : left = pending \ {Request(t)}
    BY DEF SharedTyped
  <2>3. /\ HandleProcessDrop(thread[t].to, left, AfterDrop(t, thread[t].to))
        /\ UNCHANGED <<closed, connecting, processVars, channel, faults>>
    BY <1>3, <2>2 DEF WriteFails
  <2>4. reconnecting' \in BOOLEAN /\ conn' \in 0..lastConn' /\ pending' \subseteq Requests
        /\ drop' \in [Conns -> Drops]
    BY <2>1, <2>3, HandleTyped
  <2> QED
    BY <2>3, <2>4 DEF SharedTyped, Drops
<1>4. CASE BootstrapFails(t)
  <2>1. thread[t].own \in Conns
    BY <1>0, <1>4 DEF BootstrapFails, PlaceOK, SharedTyped, Conns, Places, BridgeAssumption
  <2>2. PICK left \in SUBSET Requests : left = pending
    BY DEF SharedTyped
  <2>3. /\ HandleProcessDrop(thread[t].own, left,
                             [AfterDrop(t, thread[t].own) EXCEPT ![t].job = "drop"])
        /\ UNCHANGED <<closed, connecting, processVars, channel, faults>>
    BY <1>4, <2>2 DEF BootstrapFails
  <2>4. reconnecting' \in BOOLEAN /\ conn' \in 0..lastConn' /\ pending' \subseteq Requests
        /\ drop' \in [Conns -> Drops]
    BY <2>1, <2>3, HandleTyped
  <2> QED
    BY <2>3, <2>4 DEF SharedTyped, Drops
<1>5. CASE TimeOut(t)
  <2>1. faults' \in [FaultKinds -> Nat]
    BY <1>5, FaultTyped DEF TimeOut, FaultKinds
  <2>2. pending' \subseteq Requests
    BY <1>5 DEF TimeOut, SharedTyped
  <2> QED
    BY <1>5, <2>1, <2>2 DEF TimeOut, SharedTyped
<1>6. CASE Receive(t) \/ Dropped(t) \/ ConnectFails(t) \/ TryFails(t)
  BY <1>6 DEF Receive, Dropped, ConnectFails, TryFails, SharedTyped
<1> QED
  BY <1>1, <1>2, <1>3, <1>4, <1>5, <1>6 DEF Send

(* The other steps.                                                        *)
LEMMA SharedRead ==
  ASSUME Typed, Read
  PROVE  SharedTyped'
<1> USE DEF Typed, bridgeVars, processVars
<1>1. ASSUME NEW c \in Conns, NEW r \in Requests, Answer(c, r) PROVE SharedTyped'
  <2>1. faults' \in [FaultKinds -> Nat]
    BY <1>1, FaultTyped DEF Answer, FaultKinds, SharedTyped
  <2>2. inbox' \subseteq Conns \X Requests /\ outbox' \subseteq Requests \X {"ok", "error"}
    BY <1>1 DEF Answer, SharedTyped
  <2> QED
    BY <1>1, <2>1, <2>2 DEF Answer, SharedTyped
<1>2. ASSUME NEW r \in Requests, NEW a \in {"ok", "error"}, Dispatch(r, a) PROVE SharedTyped'
  <2>1. outbox' \subseteq Requests \X {"ok", "error"} /\ pending' \subseteq Requests
    BY <1>2 DEF Dispatch, SharedTyped
  <2>2. channel' \in [Requests -> {"none", "ok", "error", "dropped"}]
    BY <1>2 DEF Dispatch, SharedTyped
  <2> QED
    BY <1>2, <2>1, <2>2 DEF Dispatch, SharedTyped
<1> QED
  BY <1>1, <1>2 DEF Read

LEMMA EndsTyped ==
  ASSUME SharedTyped, NEW c \in Conns, Ends(c)
  PROVE  /\ process' \in [Conns -> {"none", "running", "exited"}]
         /\ inbox' \subseteq Conns \X Requests
  BY DEF SharedTyped, Ends

LEMMA SharedConn ==
  ASSUME Typed, NEW c \in Conns, Clear(c) \/ Exit(c) \/ ReadFails(c)
  PROVE  SharedTyped'
<1> USE DEF Typed, bridgeVars, processVars
<1>0. drop \in [Conns -> Drops] /\ pending \in SUBSET Requests
  BY DropTyped DEF SharedTyped
<1>1. CASE WaitLoop(c)
  <2>1. reconnecting' \in BOOLEAN /\ conn' \in 0..lastConn' /\ pending' \subseteq Requests
        /\ drop' \in [Conns -> Drops]
    BY <1>0, <1>1, HandleTyped DEF WaitLoop
  <2> QED
    BY <1>1, <2>1 DEF WaitLoop, SharedTyped, Drops
<1>2. CASE ReadFails(c)
  <2>1. reconnecting' \in BOOLEAN /\ conn' \in 0..lastConn' /\ pending' \subseteq Requests
        /\ drop' \in [Conns -> Drops]
    BY <1>0, <1>2, HandleTyped DEF ReadFails
  <2>2. faults' \in [FaultKinds -> Nat]
    BY <1>2, FaultTyped DEF ReadFails, FaultKinds
  <2> QED
    BY <1>2, <2>1, <2>2 DEF ReadFails, SharedTyped, Drops
<1>3. CASE Exit(c)
  <2>1. faults' \in [FaultKinds -> Nat]
    BY <1>3, FaultTyped DEF Exit, FaultKinds
  <2>2. /\ process' \in [Conns -> {"none", "running", "exited"}]
        /\ inbox' \subseteq Conns \X Requests
    BY <1>3, EndsTyped DEF Exit
  <2> QED
    BY <1>3, <2>1, <2>2 DEF Exit, SharedTyped
<1>4. CASE Kill(c)
  <2>1. /\ process' \in [Conns -> {"none", "running", "exited"}]
        /\ inbox' \subseteq Conns \X Requests
    BY <1>4, EndsTyped DEF Kill
  <2>2. PICK a \in {"tell", "done"} : a = IF drop[c].at = "kill" THEN "tell" ELSE "done"
    OBVIOUS
  <2>3. PICK d \in Drops : d = [drop[c] EXCEPT !.at = a]
    BY <1>0, DropChanged
  <2>4. drop' = [drop EXCEPT ![c] = d]
    BY <1>4, <2>2, <2>3 DEF Kill
  <2>5. drop' \in [Conns -> Drops]
    BY <1>0, <2>4
  <2> QED
    BY <1>4, <2>1, <2>5 DEF Kill, SharedTyped, Drops
<1>5. CASE Tell(c)
  <2>1. PICK r \in drop[c].told :
          /\ channel' = [channel EXCEPT ![r] = IF @ = "none" THEN "dropped" ELSE @]
          /\ drop' = [drop EXCEPT ![c].told = @ \ {r}]
    BY <1>5 DEF Tell
  <2>2. PICK s \in SUBSET Requests : s = drop[c].told \ {r}
    BY <1>0 DEF Drops
  <2>3. PICK d \in Drops : d = [drop[c] EXCEPT !.told = s]
    BY <1>0, DropChanged
  <2>4. drop' = [drop EXCEPT ![c] = d]
    BY <2>1, <2>2, <2>3
  <2>5. drop' \in [Conns -> Drops]
    BY <1>0, <2>4
  <2>6. channel' \in [Requests -> {"none", "ok", "error", "dropped"}]
    BY <2>1 DEF SharedTyped
  <2> QED
    BY <1>5, <2>5, <2>6 DEF Tell, SharedTyped, Drops
<1>6. CASE EndDrop(c)
  <2>2. PICK a \in {"done", "closeKill"} : a = IF drop[c].at = "tell" THEN "done" ELSE "closeKill"
    OBVIOUS
  <2>3. PICK d \in Drops : d = [drop[c] EXCEPT !.at = a]
    BY <1>0, DropChanged
  <2>4. drop' = [drop EXCEPT ![c] = d]
    BY <1>6, <2>2, <2>3 DEF EndDrop
  <2>5. drop' \in [Conns -> Drops]
    BY <1>0, <2>4
  <2> QED
    BY <1>6, <2>5 DEF EndDrop, SharedTyped, Drops
<1> QED
  BY <1>1, <1>2, <1>3, <1>4, <1>5, <1>6 DEF Clear

LEMMA SharedRest ==
  ASSUME Typed, Reconnect \/ Close
  PROVE  SharedTyped'
<1> USE DEF Typed, bridgeVars, processVars
<1>0. drop \in [Conns -> Drops] /\ pending \in SUBSET Requests
  BY DropTyped DEF SharedTyped
<1>1. CASE Check \/ BackedOff
  BY <1>1 DEF Check, BackedOff, SharedTyped
<1>2. CASE Leave
  <2>1. reconnecting' \in BOOLEAN
    BY <1>2 DEF Leave
  <2> QED
    BY <1>2, <2>1 DEF Leave, SharedTyped
<1>3. CASE Close
  <2>1. [at |-> "closeTell", told |-> pending, loop |-> FALSE] \in Drops
    BY <1>0 DEF Drops
  <2>2. drop' \in [Conns -> Drops]
    BY <1>0, <1>3, <2>1 DEF Close
  <2>3. closed' \in BOOLEAN /\ conn' \in 0..lastConn' /\ pending' = {}
    BY <1>3 DEF Close, SharedTyped
  <2> QED
    BY <1>3, <2>2, <2>3 DEF Close, SharedTyped, Drops
<1> QED
  BY <1>1, <1>2, <1>3 DEF Reconnect

(* The places of the goroutines.                                           *)
LEMMA OwnStepPlaces ==
  ASSUME BridgeAssumption, Typed, NEW t \in Threads, Begin(t) \/ Connect(t) \/ Send(t)
  PROVE  ThreadsTyped' /\ OthersKept(t) /\ PlaceOK(t)'
<1> USE DEF Typed
<1>0. /\ PlaceOK(t) /\ thread[t] \in Places(lastConn)
      /\ lastConn \in Nat /\ conn \in 0..lastConn
  BY DEF ThreadsTyped, SharedTyped
<1>1. CASE Begin(t)
  BY <1>0, <1>1, BeginEffect DEF PlaceOK, SameTask
<1>2. CASE EnsureConnected(t)
  BY <1>0, <1>2, EnsureEffect, BackPlaceOK DEF PlaceOK, SameTask
<1>3. CASE StartProcess(t)
  <2>1. thread'[t].own # 0
    BY <1>0, <1>3, StartEffect
  <2> QED
    BY <1>0, <1>3, <2>1, StartEffect DEF PlaceOK
<1>4. CASE StartFails(t)
  BY <1>4, StartFailsEffect, BackPlaceOK
<1>5. CASE Install(t)
  <2>1. thread[t].own # 0
    BY <1>0, <1>5 DEF Install, PlaceOK
  <2> QED
    BY <1>5, <2>1, InstallEffect, BackPlaceOK DEF PlaceOK
<1>6. CASE Register(t)
  <2>1. ThreadsTyped' /\ OthersKept(t)
    BY <1>0, <1>6, RegisterEffect
  <2>2. CASE thread[t].job = "call" /\ Back(t, "done")
    BY <2>1, <2>2, BackPlaceOK
  <2>3. CASE thread'[t].at = "failed" /\ SameTask(t)
    BY <1>0, <2>1, <2>3 DEF PlaceOK, SameTask
  <2>4. CASE /\ conn # 0
             /\ thread'[t].at = "write"
             /\ thread'[t].to = conn
             /\ thread'[t].job = thread[t].job
             /\ thread'[t].own = thread[t].own
    <3>1. thread[t].at = "register"
      BY <1>6 DEF Register
    <3> QED
      BY <1>0, <2>1, <2>4, <3>1 DEF PlaceOK
  <2> QED
    BY <1>0, <1>6, <2>2, <2>3, <2>4, RegisterEffect
<1>7. CASE Write(t)
  <2>1. thread[t].job # "drop"
    BY <1>0, <1>7 DEF Write, PlaceOK
  <2> QED
    BY <1>0, <1>7, <2>1, WriteEffect, BackPlaceOK DEF PlaceOK, SameTask, HasAnswer
<1>8. CASE WriteFails(t)
  BY <1>0, <1>8, WriteFailsEffect DEF PlaceOK, SameTask
<1>9. CASE Receive(t)
  BY <1>0, <1>9, ReceiveEffect, BackPlaceOK DEF PlaceOK, SameTask
<1>10. CASE TimeOut(t)
  BY <1>0, <1>10, TimeOutEffect, BackPlaceOK DEF PlaceOK, SameTask
<1>11. CASE Dropped(t)
  BY <1>0, <1>11, DroppedEffect DEF PlaceOK, SameTask
<1>12. CASE BootstrapFails(t)
  BY <1>0, <1>12, BootstrapFailsEffect DEF PlaceOK
<1>13. CASE ConnectFails(t)
  BY <1>13, ConnectFailsEffect, BackPlaceOK
<1>14. CASE TryFails(t)
  <2>1. Purpose(t) \in {"call", "note"} /\ (Purpose(t) = "call" => t \in Callers)
    BY DEF Purpose
  <2>2. ThreadsTyped' /\ OthersKept(t)
    BY <1>14, TryFailsEffect
  <2>3. CASE Back(t, "done")
    BY <2>2, <2>3, BackPlaceOK
  <2>4. CASE thread'[t].at = "ensure" /\ thread'[t].job = Purpose(t)
    BY <2>1, <2>2, <2>4 DEF PlaceOK
  <2> QED
    BY <1>14, <2>3, <2>4, TryFailsEffect
<1> QED
  BY <1>1, <1>2, <1>3, <1>4, <1>5, <1>6, <1>7, <1>8, <1>9, <1>10, <1>11, <1>12, <1>13, <1>14
  DEF Connect, Send

LEMMA LoopStepPlaces ==
  ASSUME BridgeAssumption, Typed, Reconnect \/ \E c \in Conns : EndDrop(c)
  PROVE  ThreadsTyped' /\ OthersKept(Loop) /\ PlaceOK(Loop)'
<1> USE DEF Typed
<1>1. Loop \in Threads /\ PlaceOK(Loop)
  BY DEF Threads
<1>2. CASE Reconnect \/ \E c \in Conns : EndDrop(c) /\ drop[c].loop
  <2>1. /\ ThreadsTyped' /\ OthersKept(Loop) /\ SameTask(Loop)
        /\ thread'[Loop].at \in {"leaving", "ensure", "check", "idle"}
    BY <1>2, LoopEffect DEF Reconnect
  <2> QED
    BY <1>1, <2>1 DEF PlaceOK, SameTask
<1>3. ASSUME NEW c \in Conns, EndDrop(c), ~drop[c].loop PROVE ThreadsTyped' /\ AllKept
  BY <1>3, QuietEndDrop
<1> QED
  BY <1>1, <1>2, <1>3, KeptPlaceOK DEF AllKept, OthersKept

LEMMA TypedStep ==
  ASSUME BridgeAssumption, Typed, [Next]_vars
  PROVE  Typed'
<1>1. ASSUME NEW t \in Threads, Begin(t) \/ Connect(t) \/ Send(t) PROVE Typed'
  <2>1. ThreadsTyped' /\ OthersKept(t) /\ PlaceOK(t)'
    BY <1>1, OwnStepPlaces
  <2>2. \A u \in Threads : PlaceOK(u)'
    BY <2>1, KeptPlaceOK DEF OthersKept, Typed
  <2> QED
    BY <1>1, <2>1, <2>2, SharedConnect, SharedSend DEF Typed
<1>2. CASE Background
  <2>1. ThreadsTyped' /\ AllKept
    BY <1>2, BackgroundEffect DEF Typed
  <2>2. \A u \in Threads : PlaceOK(u)'
    BY <2>1, KeptPlaceOK DEF AllKept, Typed
  <2>3. SharedTyped'
    BY <1>2, SharedRead, SharedConn, SharedRest DEF Background, Read, Clear
  <2> QED
    BY <2>1, <2>2, <2>3 DEF Typed
<1>3. CASE Reconnect \/ \E c \in Conns : EndDrop(c)
  <2>1. ThreadsTyped' /\ OthersKept(Loop) /\ PlaceOK(Loop)'
    BY <1>3, LoopStepPlaces
  <2>2. \A u \in Threads : PlaceOK(u)'
    BY <2>1, KeptPlaceOK DEF OthersKept, Typed
  <2>3. SharedTyped'
    BY <1>3, SharedConn, SharedRest DEF Clear
  <2> QED
    BY <2>1, <2>2, <2>3 DEF Typed
<1>4. CASE UNCHANGED vars
  <2>1. ThreadsTyped' /\ AllKept
    BY <1>4, SameKept DEF Typed, vars, processVars
  <2>2. \A u \in Threads : PlaceOK(u)'
    BY <2>1, KeptPlaceOK DEF AllKept, Typed
  <2>3. SharedTyped'
    BY <1>4 DEF Typed, SharedTyped, vars, bridgeVars, processVars
  <2> QED
    BY <2>1, <2>2, <2>3 DEF Typed
<1> QED
  BY <1>1, <1>2, <1>3, <1>4 DEF Next, Background, Read, Clear

(* Every field of the bridge, every goroutine and every channel is always  *)
(* in a state of the code, for every number of goroutines, processes and   *)
(* faults (TypeOK).                                                        *)
THEOREM BridgeTypeCorrect == Spec => []TypeOK
<1>1. Init => Typed
  BY TypedInit, BridgeAssumption
<1>2. Typed /\ [Next]_vars => Typed'
  BY TypedStep, BridgeAssumption
<1>3. Typed => TypeOK
  BY TypedImpliesTypeOK
<1> QED
  BY <1>1, <1>2, <1>3, PTL DEF Spec

-----------------------------------------------------------------------------
(* Connecting.                                                             *)

(* Only one goroutine connects, and only while there is no connection.     *)
ConnectingAlone ==
  \A t \in Threads :
    thread[t].at \in {"starting", "started"} =>
      /\ connecting
      /\ conn = 0
      /\ \A u \in Threads : thread[u].at \in {"starting", "started"} => u = t

(* A step that starts and installs nothing.                                *)
Unrelated == connecting' = connecting /\ lastConn' = lastConn /\ (conn' = conn \/ conn' = 0)

LEMMA SendUnrelated ==
  ASSUME Typed, NEW t \in Threads, Begin(t) \/ Send(t)
  PROVE  /\ Unrelated
         /\ thread[t].at \notin {"starting", "started"}
         /\ thread'[t].at \notin {"starting", "started"}
         /\ process' = process
<1>1. Unrelated /\ process' = process
  BY DEF Unrelated, Begin, Send, Register, Write, WriteFails, Receive, TimeOut, Dropped,
         BootstrapFails, ConnectFails, TryFails, HandleProcessDrop, bridgeVars, processVars
<1>2. thread[t].at \in {"idle", "register", "write", "wait", "dropping", "failed"}
  BY DEF Begin, Send, Register, Write, WriteFails, Receive, TimeOut, Dropped,
         BootstrapFails, ConnectFails, TryFails
<1>3. NotConnected(t) \in {"backoff", "done"} /\ Connected(t) \in {"leaving", "register"}
  BY DEF NotConnected, Connected
<1>4. ThreadsTyped /\ conn \in 0..lastConn /\ PlaceOK(t)
  BY DEF Typed, SharedTyped
<1>5. thread'[t].at \notin {"starting", "started"}
  <2>1. CASE Begin(t)
    BY <1>4, <2>1, BeginEffect
  <2>2. CASE Register(t)
    BY <1>4, <2>2, RegisterEffect DEF Back
  <2>3. CASE Write(t)
    BY <1>3, <1>4, <2>3, WriteEffect DEF Back, PlaceOK, Write
  <2>4. CASE WriteFails(t) \/ BootstrapFails(t) \/ Dropped(t)
    BY <1>4, <2>4, WriteFailsEffect, BootstrapFailsEffect, DroppedEffect
  <2>5. CASE Receive(t) \/ TimeOut(t) \/ TryFails(t)
    BY <1>4, <2>5, ReceiveEffect, TimeOutEffect, TryFailsEffect DEF Back
  <2>6. CASE ConnectFails(t)
    BY <1>3, <1>4, <2>6, ConnectFailsEffect DEF Back
  <2> QED
    BY <2>1, <2>2, <2>3, <2>4, <2>5, <2>6 DEF Send
<1> QED
  BY <1>1, <1>2, <1>5

LEMMA BackgroundUnrelated ==
  ASSUME Background
  PROVE  Unrelated
  BY DEF Unrelated, Background, Answer, Dispatch, WaitLoop, Kill, Tell, Exit, ReadFails, Close,
         HandleProcessDrop, bridgeVars, processVars

LEMMA LoopUnrelated ==
  ASSUME Reconnect \/ \E c \in Conns : EndDrop(c)
  PROVE  Unrelated /\ conn' = conn /\ pending' = pending /\ channel' = channel /\ process' = process
  BY DEF Unrelated, Reconnect, Check, BackedOff, Leave, EndDrop, bridgeVars, processVars

LEMMA AloneKept ==
  ASSUME ConnectingAlone, Unrelated, NEW t \in Threads, OthersKept(t),
         Kept(t) \/ thread'[t].at \notin {"starting", "started"}
  PROVE  ConnectingAlone'
<1>1. \A u \in Threads : thread'[u].at \in {"starting", "started"} =>
                           thread[u].at \in {"starting", "started"}
  BY DEF OthersKept, Kept
<1> QED
  BY <1>1 DEF ConnectingAlone, Unrelated

LEMMA AloneConnect ==
  ASSUME Typed, ConnectingAlone, NEW t \in Threads, Connect(t)
  PROVE  ConnectingAlone'
<1>1. \A u \in Threads : u # t /\ thread'[u].at \in {"starting", "started"} =>
                           thread[u].at \in {"starting", "started"}
  BY OwnStepPlaces, BridgeAssumption DEF OthersKept, Kept
<1>2. ThreadsTyped
  BY DEF Typed
<1>3. CASE EnsureConnected(t)
  <2>1. conn' = conn
    BY <1>3 DEF EnsureConnected
  <2>2. CASE /\ ~connecting /\ connecting' /\ conn = 0 /\ thread'[t].at = "starting"
    BY <1>1, <2>1, <2>2 DEF ConnectingAlone
  <2>3. CASE connecting' = connecting /\ thread'[t].at \notin {"starting", "started"}
    BY <1>1, <2>1, <2>3 DEF ConnectingAlone
  <2>4. NotConnected(t) \in {"backoff", "done"} /\ Connected(t) \in {"leaving", "register"}
    BY DEF NotConnected, Connected
  <2> QED
    BY <1>2, <1>3, <2>2, <2>3, <2>4, EnsureEffect DEF Back
<1>4. CASE StartProcess(t)
  <2>1. conn' = conn /\ connecting' = connecting
    BY <1>4 DEF StartProcess, bridgeVars
  <2>2. thread[t].at = "starting"
    BY <1>4 DEF StartProcess
  <2> QED
    BY <1>1, <2>1, <2>2 DEF ConnectingAlone
<1>5. CASE StartFails(t) \/ Install(t)
  <2>1. thread[t].at \in {"starting", "started"}
    BY <1>5 DEF StartFails, Install
  <2>2. thread'[t].at \notin {"starting", "started"}
    BY <1>2, <1>5, StartFailsEffect, InstallEffect DEF Back, NotConnected
  <2>3. \A u \in Threads : thread'[u].at \notin {"starting", "started"}
    BY <1>1, <2>1, <2>2 DEF ConnectingAlone
  <2> QED
    BY <2>3 DEF ConnectingAlone
<1> QED
  BY <1>3, <1>4, <1>5 DEF Connect

LEMMA AloneStep ==
  ASSUME Typed, ConnectingAlone, Next
  PROVE  ConnectingAlone'
<1>1. ASSUME NEW t \in Threads, Begin(t) \/ Send(t) PROVE ConnectingAlone'
  BY <1>1, SendUnrelated, OwnStepPlaces, AloneKept, BridgeAssumption
<1>2. ASSUME NEW t \in Threads, Connect(t) PROVE ConnectingAlone'
  BY <1>2, AloneConnect
<1>3. Loop \in Threads
  BY DEF Threads
<1>4. CASE Background
  <2>1. AllKept
    BY <1>4, BackgroundEffect DEF Typed
  <2> QED
    BY <1>3, <1>4, <2>1, BackgroundUnrelated, AloneKept DEF AllKept, OthersKept
<1>5. CASE Reconnect \/ \E c \in Conns : EndDrop(c) /\ drop[c].loop
  <2>1. OthersKept(Loop) /\ thread'[Loop].at \in {"leaving", "ensure", "check", "idle"}
    BY <1>5, LoopEffect DEF Typed, Reconnect
  <2> QED
    BY <1>3, <1>5, <2>1, LoopUnrelated, AloneKept
<1>6. ASSUME NEW c \in Conns, EndDrop(c), ~drop[c].loop PROVE ConnectingAlone'
  <2>1. AllKept
    BY <1>6, QuietEndDrop DEF Typed
  <2> QED
    BY <1>3, <1>6, <2>1, LoopUnrelated, AloneKept DEF AllKept, OthersKept
<1> QED
  BY <1>1, <1>2, <1>4, <1>5, <1>6 DEF Next, Background, Read, Clear

-----------------------------------------------------------------------------
(* Lost connections.                                                       *)

(* The connection is lost, and those in left are going to be told.         *)
Loses(left) ==
  \E c \in Conns :
    /\ conn = c /\ conn' = 0
    /\ pending' = {}
    /\ drop'[c].told = left
    /\ \/ drop'[c].at = "kill" /\ (drop'[c].loop => ~reconnecting /\ reconnecting')
       \/ drop'[c].at = "closeTell" /\ ~drop'[c].loop
    /\ \A d \in Conns \ {c} : drop'[d] = drop[d]
    /\ reconnecting => reconnecting'

(* No connection is lost; those in left are still pending.                 *)
Stays(left) ==
  UNCHANGED <<conn, drop, reconnecting>> /\ pending' = left

LEMMA HandleEffect ==
  ASSUME Typed, NEW c \in Conns, NEW left, NEW f, HandleProcessDrop(c, left, f)
  PROVE  Loses(left) \/ Stays(left)
<1>1. CASE conn = c
  <2>1. /\ conn' = 0 /\ pending' = {}
        /\ drop' = [drop EXCEPT ![c] = Lost(left)]
        /\ reconnecting' = (reconnecting \/ ~closed)
    BY <1>1 DEF HandleProcessDrop
  <2>2. drop'[c] = Lost(left) /\ \A d \in Conns \ {c} : drop'[d] = drop[d]
    BY <2>1, DropTyped DEF Typed
  <2>3. drop'[c].told = left /\ drop'[c].at = "kill"
    BY <2>2 DEF Lost
  <2>5. drop'[c].loop = (~closed /\ ~reconnecting)
    BY <2>2 DEF Lost
  <2>6. drop'[c].loop => ~reconnecting /\ ~closed
    BY <2>5, Zenon
  <2>4. (reconnecting => reconnecting') /\ (~closed => reconnecting')
    BY <2>1
  <2> QED
    BY <1>1, <2>1, <2>2, <2>3, <2>4, <2>6 DEF Loses
<1>2. CASE conn # c
  BY <1>2 DEF HandleProcessDrop, Stays
<1> QED
  BY <1>1, <1>2

LEMMA LossEffect ==
  ASSUME BridgeAssumption, Typed
  PROVE  /\ \A t \in Threads :
              /\ WriteFails(t) => Loses(pending \ {Request(t)}) \/ Stays(pending \ {Request(t)})
              /\ BootstrapFails(t) => Loses(pending) \/ Stays(pending)
         /\ \A c \in Conns : WaitLoop(c) \/ ReadFails(c) => Loses(pending) \/ Stays(pending)
         /\ Close => Loses(pending) \/ (conn = 0 /\ Stays({}))
<1>1. ASSUME NEW t \in Threads, WriteFails(t)
      PROVE  Loses(pending \ {Request(t)}) \/ Stays(pending \ {Request(t)})
  <2>1. PlaceOK(t) /\ thread[t] \in Places(lastConn) /\ lastConn \in 0..MaxConns
    BY DEF Typed, ThreadsTyped, SharedTyped
  <2>2. thread[t].to \in Conns
    BY <1>1, <2>1 DEF WriteFails, PlaceOK, Conns, Places, BridgeAssumption
  <2> QED
    BY <1>1, <2>2, HandleEffect DEF WriteFails
<1>2. ASSUME NEW t \in Threads, BootstrapFails(t)
      PROVE  Loses(pending) \/ Stays(pending)
  <2>1. PlaceOK(t) /\ thread[t] \in Places(lastConn) /\ lastConn \in 0..MaxConns
    BY DEF Typed, ThreadsTyped, SharedTyped
  <2>2. thread[t].own \in Conns
    BY <1>2, <2>1 DEF BootstrapFails, PlaceOK, Conns, Places, BridgeAssumption
  <2> QED
    BY <1>2, <2>2, HandleEffect DEF BootstrapFails
<1>3. ASSUME NEW c \in Conns, WaitLoop(c) \/ ReadFails(c)
      PROVE  Loses(pending) \/ Stays(pending)
  BY <1>3, HandleEffect DEF WaitLoop, ReadFails
<1>4. ASSUME Close, conn = 0 PROVE Stays({})
  BY <1>4 DEF Close, Stays
<1>5. ASSUME Close, conn # 0 PROVE Loses(pending)
  <2>1. conn \in Conns
    BY <1>5 DEF Typed, SharedTyped, Conns, BridgeAssumption
  <2>2. /\ conn' = 0 /\ pending' = {} /\ reconnecting' = reconnecting
        /\ drop' = [drop EXCEPT ![conn] = [at |-> "closeTell", told |-> pending, loop |-> FALSE]]
    BY <1>5 DEF Close
  <2>3. /\ drop'[conn] = [at |-> "closeTell", told |-> pending, loop |-> FALSE]
        /\ \A d \in Conns \ {conn} : drop'[d] = drop[d]
    BY <2>1, <2>2, DropTyped DEF Typed
  <2>4. drop'[conn].at = "closeTell" /\ drop'[conn].told = pending
    BY <2>3
  <2>5. drop'[conn].loop = FALSE
    BY <2>3
  <2>6. ~drop'[conn].loop
    BY <2>5, Zenon
  <2>7. reconnecting => reconnecting'
    BY <2>2
  <2> QED
    BY <2>1, <2>2, <2>3, <2>4, <2>6, <2>7 DEF Loses
<1>6. Close => Loses(pending) \/ (conn = 0 /\ Stays({}))
  BY <1>4, <1>5
<1> QED
  BY <1>1, <1>2, <1>3, <1>6

(* What remains to do after the loss of c goes on.                         *)
Advances(c) ==
  /\ drop[c].at # "none" /\ drop'[c].at # "none"
  /\ drop'[c].loop = drop[c].loop
  /\ drop'[c].at \in {"closeTell", "closeKill"} => drop[c].at \in {"closeTell", "closeKill"}
  /\ \A d \in Conns \ {c} : drop'[d] = drop[d]
  /\ UNCHANGED <<conn, pending>>

LEMMA AdvanceKeeps ==
  ASSUME Typed, NEW c \in Conns, NEW a \in {"tell", "done", "closeKill"},
         drop' = [drop EXCEPT ![c].at = a]
  PROVE  /\ drop'[c].at = a /\ drop'[c].told = drop[c].told /\ drop'[c].loop = drop[c].loop
         /\ \A d \in Conns \ {c} : drop'[d] = drop[d]
<1>1. drop \in [Conns -> Drops] /\ drop[c] \in Drops
  BY DropTyped DEF Typed
<1> QED
  BY <1>1, DropChanged

LEMMA KillEffect ==
  ASSUME Typed, NEW c \in Conns, Kill(c)
  PROVE  /\ Advances(c) /\ drop'[c].told = drop[c].told
         /\ \/ drop[c].at = "kill" /\ drop'[c].at = "tell"
            \/ drop[c].at = "closeKill" /\ drop'[c].at = "done"
<1>1. UNCHANGED <<conn, pending>>
  BY DEF Kill, bridgeVars
<1>2. CASE drop[c].at = "kill"
  <2>1. drop' = [drop EXCEPT ![c].at = "tell"]
    BY <1>2 DEF Kill
  <2> QED
    BY <1>1, <1>2, <2>1, AdvanceKeeps DEF Advances
<1>3. CASE drop[c].at = "closeKill"
  <2>1. drop' = [drop EXCEPT ![c].at = "done"]
    BY <1>3 DEF Kill
  <2> QED
    BY <1>1, <1>3, <2>1, AdvanceKeeps DEF Advances
<1> QED
  BY <1>2, <1>3 DEF Kill

LEMMA EndDropEffect ==
  ASSUME Typed, NEW c \in Conns, EndDrop(c)
  PROVE  /\ Advances(c) /\ drop[c].told = {} /\ drop'[c].told = {}
         /\ \/ drop[c].at = "tell" /\ drop'[c].at = "done"
            \/ drop[c].at = "closeTell" /\ drop'[c].at = "closeKill"
<1>1. UNCHANGED <<conn, pending>> /\ drop[c].told = {}
  BY DEF EndDrop, bridgeVars
<1>2. CASE drop[c].at = "tell"
  <2>1. drop' = [drop EXCEPT ![c].at = "done"]
    BY <1>2 DEF EndDrop
  <2> QED
    BY <1>1, <1>2, <2>1, AdvanceKeeps DEF Advances
<1>3. CASE drop[c].at = "closeTell"
  <2>1. drop' = [drop EXCEPT ![c].at = "closeKill"]
    BY <1>3 DEF EndDrop
  <2> QED
    BY <1>1, <1>3, <2>1, AdvanceKeeps DEF Advances
<1> QED
  BY <1>2, <1>3 DEF EndDrop

LEMMA TellEffect ==
  ASSUME Typed, NEW c \in Conns, Tell(c)
  PROVE  /\ Advances(c) /\ drop'[c].at = drop[c].at
         /\ \E r \in drop[c].told :
              /\ channel' = [channel EXCEPT ![r] = IF @ = "none" THEN "dropped" ELSE @]
              /\ drop'[c].told = drop[c].told \ {r}
<1>0. drop \in [Conns -> Drops] /\ drop[c] \in Drops
  BY DropTyped DEF Typed
<1>1. PICK r \in drop[c].told :
        /\ channel' = [channel EXCEPT ![r] = IF @ = "none" THEN "dropped" ELSE @]
        /\ drop' = [drop EXCEPT ![c].told = @ \ {r}]
  BY DEF Tell
<1>2. PICK s \in SUBSET Requests : s = drop[c].told \ {r}
  BY <1>0 DEF Drops
<1>3. drop' = [drop EXCEPT ![c].told = s]
  BY <1>1, <1>2
<1>4. /\ drop'[c].at = drop[c].at /\ drop'[c].told = s /\ drop'[c].loop = drop[c].loop
      /\ \A d \in Conns \ {c} : drop'[d] = drop[d]
  BY <1>0, <1>3, DropChanged
<1>5. UNCHANGED <<conn, pending>> /\ drop[c].at \in {"tell", "closeTell"}
  BY DEF Tell, bridgeVars
<1> QED
  BY <1>1, <1>2, <1>4, <1>5 DEF Advances

(* What a step does to the connections.                                    *)
LEMMA ConnectionCases ==
  ASSUME Typed, Next
  PROVE  \/ UNCHANGED <<drop, conn, lastConn>>
         \/ \E t \in Threads : StartProcess(t) /\ UNCHANGED <<drop, conn>>
         \/ \E t \in Threads : Install(t) /\ UNCHANGED <<drop, lastConn>>
         \/ (\E left : Loses(left)) /\ lastConn' = lastConn
         \/ /\ \E c \in Conns : Advances(c) /\ (Kill(c) \/ Tell(c) \/ EndDrop(c))
            /\ lastConn' = lastConn
<1>1. ASSUME NEW t \in Threads, Begin(t) \/ EnsureConnected(t) \/ StartFails(t) \/ Register(t)
                                \/ Write(t) \/ Receive(t) \/ TimeOut(t) \/ Dropped(t)
                                \/ ConnectFails(t) \/ TryFails(t)
      PROVE  UNCHANGED <<drop, conn, lastConn>>
  BY <1>1 DEF Begin, EnsureConnected, StartFails, Register, Write, Receive, TimeOut, Dropped,
              ConnectFails, TryFails, bridgeVars, processVars
<1>2. ASSUME NEW t \in Threads, WriteFails(t) \/ BootstrapFails(t)
      PROVE  lastConn' = lastConn /\ (UNCHANGED <<drop, conn>> \/ \E left : Loses(left))
  BY <1>2, LossEffect, BridgeAssumption DEF WriteFails, BootstrapFails, processVars, Stays
<1>3. ASSUME NEW t \in Threads, StartProcess(t) PROVE UNCHANGED <<drop, conn>>
  BY <1>3 DEF StartProcess, bridgeVars
<1>4. ASSUME NEW t \in Threads, Install(t) PROVE UNCHANGED <<drop, lastConn>>
  BY <1>4 DEF Install
<1>5. ASSUME Read PROVE UNCHANGED <<drop, conn, lastConn>>
  BY <1>5 DEF Read, Answer, Dispatch, bridgeVars, processVars
<1>6. ASSUME NEW c \in Conns, WaitLoop(c) \/ ReadFails(c)
      PROVE  lastConn' = lastConn /\ (UNCHANGED <<drop, conn>> \/ \E left : Loses(left))
  BY <1>6, LossEffect, BridgeAssumption DEF WaitLoop, ReadFails, processVars, Stays
<1>7. ASSUME Close
      PROVE  lastConn' = lastConn /\ (UNCHANGED <<drop, conn>> \/ \E left : Loses(left))
  BY <1>7, LossEffect, BridgeAssumption DEF Close, processVars, Stays
<1>8. ASSUME NEW c \in Conns, Kill(c) \/ Tell(c) \/ EndDrop(c)
      PROVE  Advances(c) /\ lastConn' = lastConn
  BY <1>8, KillEffect, TellEffect, EndDropEffect DEF Kill, Tell, EndDrop, processVars
<1>9. ASSUME NEW c \in Conns, Exit(c) PROVE UNCHANGED <<drop, conn, lastConn>>
  BY <1>9 DEF Exit, bridgeVars
<1>10. ASSUME Reconnect PROVE UNCHANGED <<drop, conn, lastConn>>
  BY <1>10 DEF Reconnect, Check, BackedOff, Leave, bridgeVars, processVars
<1> QED
  BY <1>1, <1>2, <1>3, <1>4, <1>5, <1>6, <1>7, <1>8, <1>9, <1>10
  DEF Next, Connect, Send, Clear

(* Nobody but the one that has started a process is at "started".          *)
LEMMA StartedCases ==
  ASSUME Typed, Next, NEW u \in Threads, thread'[u].at = "started"
  PROVE  \/ StartProcess(u)
         \/ thread[u].at = "started" /\ thread'[u].own = thread[u].own
<1> USE DEF Kept
<1>1. ASSUME NEW t \in Threads, Begin(t) \/ Send(t), u = t PROVE FALSE
  BY <1>1, SendUnrelated
<1>2. ASSUME NEW t \in Threads, Begin(t) \/ Connect(t) \/ Send(t), u # t PROVE Kept(u)
  BY <1>2, OwnStepPlaces, BridgeAssumption DEF OthersKept
<1>3. ASSUME NEW t \in Threads, Connect(t), ~StartProcess(t), u = t PROVE FALSE
  <2>1. NotConnected(t) \in {"backoff", "done"} /\ Connected(t) \in {"leaving", "register"}
    BY DEF NotConnected, Connected
  <2>2. ThreadsTyped
    BY DEF Typed
  <2>3. CASE EnsureConnected(t)
    BY <1>3, <2>1, <2>2, <2>3, EnsureEffect DEF Back
  <2>4. CASE StartFails(t)
    BY <1>3, <2>1, <2>2, <2>4, StartFailsEffect DEF Back
  <2>5. CASE Install(t)
    BY <1>3, <2>1, <2>2, <2>5, InstallEffect DEF Back
  <2> QED
    BY <1>3, <2>3, <2>4, <2>5 DEF Connect
<1>4. CASE Background
  BY <1>4, BackgroundEffect DEF AllKept, Typed
<1>5. CASE Reconnect \/ \E c \in Conns : EndDrop(c) /\ drop[c].loop
  <2>1. OthersKept(Loop) /\ thread'[Loop].at \in {"leaving", "ensure", "check", "idle"}
    BY <1>5, LoopEffect DEF Typed, Reconnect
  <2> QED
    BY <2>1 DEF OthersKept
<1>6. ASSUME NEW c \in Conns, EndDrop(c), ~drop[c].loop PROVE Kept(u)
  BY <1>6, QuietEndDrop DEF Typed, AllKept
<1>7. CASE Kept(u)
  BY <1>7
<1> QED
  BY <1>1, <1>2, <1>3, <1>4, <1>5, <1>6, <1>7 DEF Next, Background, Read, Clear

(* The number of a connection is not used again: nothing has to be done    *)
(* for one that is not lost.                                               *)
DropFresh ==
  /\ \A c \in Conns :
       /\ drop[c].at = "none" => drop[c].told = {}
       /\ c > lastConn \/ c = conn => drop[c].at = "none"
       /\ drop[c].at \in {"closeTell", "closeKill"} => ~drop[c].loop
  /\ \A t \in Threads :
       thread[t].at = "started" => drop[thread[t].own].at = "none"

LEMMA DropStep ==
  ASSUME Typed, ConnectingAlone, DropFresh, Next
  PROVE  DropFresh'
<1>0. lastConn \in Nat /\ conn \in 0..lastConn
  BY DEF Typed, SharedTyped
<1>1. ASSUME UNCHANGED <<drop, conn, lastConn>> PROVE DropFresh'
  <2>1. ASSUME NEW u \in Threads, thread'[u].at = "started"
        PROVE  thread[u].at = "started" /\ thread'[u].own = thread[u].own
    <3>1. ~StartProcess(u)
      BY <1>0, <1>1 DEF StartProcess
    <3> QED
      BY <2>1, <3>1, StartedCases
  <2> QED
    BY <1>1, <2>1 DEF DropFresh
<1>2. ASSUME NEW t \in Threads, StartProcess(t), UNCHANGED <<drop, conn>> PROVE DropFresh'
  <2>1. lastConn' = lastConn + 1 /\ thread'[t].own = lastConn + 1 /\ lastConn + 1 \in Conns
    <3>1. thread'[t].own = lastConn + 1
      BY <1>2, StartEffect DEF Typed
    <3>2. lastConn + 1 \in Conns
      BY <1>2, BridgeAssumption DEF StartProcess, Typed, SharedTyped, Conns, BridgeAssumption
    <3> QED
      BY <1>2, <3>1, <3>2 DEF StartProcess
  <2>2. \A c \in Conns : c > lastConn' => c > lastConn
    BY <1>0, <2>1 DEF Conns
  <2>3. drop[lastConn + 1].at = "none"
    BY <1>0, <2>1 DEF DropFresh
  <2>4. ASSUME NEW u \in Threads, u # t, thread'[u].at = "started"
        PROVE  thread[u].at = "started" /\ thread'[u].own = thread[u].own
    BY <1>2, <2>4, OwnStepPlaces, BridgeAssumption DEF Connect, OthersKept, Kept
  <2> QED
    BY <1>2, <2>1, <2>2, <2>3, <2>4 DEF DropFresh
<1>3. ASSUME NEW t \in Threads, Install(t), UNCHANGED <<drop, lastConn>> PROVE DropFresh'
  <2>1. thread[t].at = "started" /\ (conn' = conn \/ conn' = thread[t].own)
    BY <1>3 DEF Install, InstallOrKill
  <2>2. ASSUME NEW u \in Threads, thread'[u].at = "started"
        PROVE  thread[u].at = "started" /\ thread'[u].own = thread[u].own
    <3>1. ~StartProcess(u)
      BY <1>0, <1>3 DEF StartProcess
    <3> QED
      BY <2>2, <3>1, StartedCases
  <2> QED
    BY <1>3, <2>1, <2>2 DEF DropFresh
<1>4. ASSUME NEW left, Loses(left), lastConn' = lastConn PROVE DropFresh'
  <2>1. PICK c \in Conns :
          /\ conn = c /\ conn' = 0
          /\ drop'[c].at = "kill" \/ (drop'[c].at = "closeTell" /\ ~drop'[c].loop)
          /\ \A d \in Conns \ {c} : drop'[d] = drop[d]
    BY <1>4 DEF Loses
  <2>2. ASSUME NEW u \in Threads, thread'[u].at = "started" PROVE FALSE
    <3>1. ~StartProcess(u)
      BY <1>0, <1>4 DEF StartProcess
    <3>2. thread[u].at = "started"
      BY <2>2, <3>1, StartedCases
    <3> QED
      BY <2>1, <3>2 DEF ConnectingAlone, Conns
  <2>3. \A d \in Conns : d # conn' /\ ~(c > lastConn')
    BY <1>0, <1>4, <2>1 DEF Conns
  <2> QED
    BY <1>4, <2>1, <2>2, <2>3 DEF DropFresh
<1>5. ASSUME NEW c \in Conns, Advances(c), lastConn' = lastConn PROVE DropFresh'
  <2>1. ASSUME NEW u \in Threads, thread'[u].at = "started"
        PROVE  thread[u].at = "started" /\ thread'[u].own = thread[u].own
    <3>1. ~StartProcess(u)
      BY <1>0, <1>5 DEF StartProcess
    <3> QED
      BY <2>1, <3>1, StartedCases
  <2>2. ASSUME NEW u \in Threads, thread'[u].at = "started"
        PROVE  drop'[thread'[u].own].at = "none"
    <3>1. PlaceOK(u) /\ thread[u] \in Places(lastConn) /\ lastConn \in 0..MaxConns
      BY DEF Typed, ThreadsTyped, SharedTyped
    <3>2. thread[u].own \in Conns
      BY <2>1, <2>2, <3>1, BridgeAssumption DEF PlaceOK, Places, Conns, BridgeAssumption
    <3>3. drop[thread[u].own].at = "none"
      BY <2>1, <2>2 DEF DropFresh
    <3> QED
      BY <1>5, <2>1, <2>2, <3>2, <3>3 DEF Advances
  <2> QED
    BY <1>5, <2>2 DEF DropFresh, Advances
<1> QED
  BY <1>1, <1>2, <1>3, <1>4, <1>5, ConnectionCases

-----------------------------------------------------------------------------
(* The goroutine that reconnects.                                          *)

(* It is started after the loss of c has been dealt with.                  *)
LoopDue(c) == drop[c].loop /\ drop[c].at \in {"kill", "tell"}

(* reconnecting is set as long as it runs or is going to be started, and   *)
(* it is started once.                                                     *)
LoopOnce ==
  /\ \A c \in Conns :
       LoopDue(c) => /\ reconnecting
                     /\ thread[Loop].at = "idle"
                     /\ \A d \in Conns : LoopDue(d) => d = c
  /\ thread[Loop].at # "idle" => reconnecting

LEMMA LoopKept ==
  ASSUME LoopOnce, reconnecting => reconnecting',
         Kept(Loop) \/ thread[Loop].at # "idle",
         \A c \in Conns : LoopDue(c)' => LoopDue(c)
  PROVE  LoopOnce'
<1>1. thread'[Loop].at # "idle" => thread[Loop].at # "idle" \/ ~Kept(Loop)
  BY DEF Kept
<1>2. CASE thread[Loop].at # "idle"
  BY <1>2 DEF LoopOnce
<1>3. CASE thread[Loop].at = "idle" /\ Kept(Loop)
  <2>1. thread'[Loop].at = "idle"
    BY <1>3 DEF Kept
  <2> QED
    BY <1>3, <2>1 DEF LoopOnce
<1> QED
  BY <1>2, <1>3

(* A step that loses a connection while it does not run may start it.      *)
LEMMA LoopLoses ==
  ASSUME LoopOnce, NEW left, Loses(left), Kept(Loop) \/ thread[Loop].at # "idle"
  PROVE  LoopOnce'
<1>1. PICK c \in Conns :
        /\ \/ drop'[c].at = "kill" /\ (drop'[c].loop => ~reconnecting /\ reconnecting')
           \/ drop'[c].at = "closeTell" /\ ~drop'[c].loop
        /\ \A d \in Conns \ {c} : drop'[d] = drop[d]
        /\ reconnecting => reconnecting'
  BY DEF Loses
<1>2. \A d \in Conns \ {c} : LoopDue(d)' <=> LoopDue(d)
  BY <1>1 DEF LoopDue
<1>3. CASE LoopDue(c)'
  <2>1. ~reconnecting /\ reconnecting'
    BY <1>1, <1>3 DEF LoopDue
  <2>2. thread[Loop].at = "idle" /\ thread'[Loop].at = "idle"
    BY <2>1 DEF LoopOnce, Kept
  <2>3. \A d \in Conns \ {c} : ~LoopDue(d)'
    BY <1>2, <2>1 DEF LoopOnce
  <2> QED
    BY <2>1, <2>2, <2>3 DEF LoopOnce
<1>4. CASE ~LoopDue(c)'
  BY <1>1, <1>2, <1>4, LoopKept
<1> QED
  BY <1>3, <1>4

LEMMA LoopStep ==
  ASSUME Typed, DropFresh, LoopOnce, Next
  PROVE  LoopOnce'
<1>0. Loop \in Threads
  BY DEF Threads
<1>1. ASSUME NEW t \in Threads, Begin(t) \/ Connect(t) \/ Send(t)
      PROVE  Kept(Loop) \/ thread[Loop].at # "idle"
  <2>1. CASE t # Loop
    BY <1>0, <1>1, <2>1, OwnStepPlaces, BridgeAssumption DEF OthersKept
  <2>2. CASE t = Loop
    <3>1. thread[t].at # "idle"
      BY <1>1, <2>2
      DEF Begin, Connect, EnsureConnected, StartProcess, StartFails, Install, Send, Register,
          Write, WriteFails, Receive, TimeOut, Dropped, BootstrapFails, ConnectFails, TryFails
    <3> QED
      BY <2>2, <3>1
  <2> QED
    BY <2>1, <2>2
<1>2. ASSUME NEW t \in Threads, Begin(t) \/ Connect(t) \/ Send(t), drop' = drop,
             reconnecting' = reconnecting
      PROVE  LoopOnce'
  BY <1>1, <1>2, LoopKept DEF LoopDue
<1>3. ASSUME NEW t \in Threads, Begin(t) \/ Connect(t) \/ Send(t)
      PROVE  LoopOnce'
  <2>1. CASE WriteFails(t) \/ BootstrapFails(t)
    BY <1>1, <1>2, <1>3, <2>1, LossEffect, LoopLoses, BridgeAssumption DEF Stays
  <2>2. CASE ~(WriteFails(t) \/ BootstrapFails(t))
    <3>1. UNCHANGED <<drop, reconnecting>>
      BY <1>3, <2>2 DEF Begin, Connect, EnsureConnected, StartProcess, StartFails, Install,
         Send, Register, Write, Receive, TimeOut, Dropped, ConnectFails, TryFails, bridgeVars
    <3> QED
      BY <1>2, <1>3, <3>1
  <2> QED
    BY <2>1, <2>2
<1>4. CASE Background
  <2>1. Kept(Loop)
    BY <1>0, <1>4, BackgroundEffect DEF AllKept, Typed
  <2>2. CASE UNCHANGED <<drop, reconnecting>>
    BY <2>1, <2>2, LoopKept DEF LoopDue
  <2>3. CASE \E left : Loses(left)
    BY <2>1, <2>3, LoopLoses
  <2>4. ASSUME NEW c \in Conns, Kill(c) \/ Tell(c) PROVE LoopOnce'
    <3>1. /\ drop'[c].loop = drop[c].loop
          /\ drop'[c].at \in {"kill", "tell"} => drop[c].at \in {"kill", "tell"}
          /\ \A d \in Conns \ {c} : drop'[d] = drop[d]
      BY <2>4, KillEffect, TellEffect DEF Advances
    <3>2. reconnecting' = reconnecting
      BY <2>4 DEF Kill, Tell, bridgeVars
    <3>3. \A d \in Conns : LoopDue(d)' => LoopDue(d)
      BY <3>1 DEF LoopDue
    <3> QED
      BY <2>1, <3>2, <3>3, LoopKept
  <2>5. ASSUME NEW c \in Conns, WaitLoop(c) \/ ReadFails(c) PROVE LoopOnce'
    BY <2>2, <2>3, <2>5, LossEffect, BridgeAssumption DEF Stays
  <2>6. ASSUME Close PROVE LoopOnce'
    BY <2>2, <2>3, <2>6, LossEffect, BridgeAssumption DEF Stays
  <2>7. ASSUME NEW c \in Conns, NEW r \in Requests, Answer(c, r) PROVE LoopOnce'
    BY <2>2, <2>7 DEF Answer, bridgeVars
  <2>8. ASSUME NEW c \in Conns, Exit(c) PROVE LoopOnce'
    BY <2>2, <2>8 DEF Exit, bridgeVars
  <2>9. ASSUME NEW r \in Requests, NEW a \in {"ok", "error"}, Dispatch(r, a) PROVE LoopOnce'
    BY <2>2, <2>9 DEF Dispatch, bridgeVars
  <2> QED
    BY <1>4, <2>4, <2>5, <2>6, <2>7, <2>8, <2>9 DEF Background
<1>5. CASE Check \/ BackedOff
  <2>1. thread[Loop].at # "idle"
    BY <1>5 DEF Check, BackedOff
  <2>2. UNCHANGED <<drop, reconnecting>>
    BY <1>5 DEF Check, BackedOff, bridgeVars
  <2> QED
    BY <2>1, <2>2, LoopKept DEF LoopDue
<1>6. CASE Leave
  <2>1. thread'[Loop].at = "idle" /\ thread[Loop].at # "idle" /\ drop' = drop
    <3>1. thread' = Moved(Loop, "idle") /\ lastConn' = lastConn
      BY <1>6 DEF Leave, processVars
    <3>2. thread'[Loop].at = "idle"
      BY <1>0, <3>1, PlacesNamed, MovedEffect DEF Typed
    <3> QED
      BY <1>6, <3>2 DEF Leave
  <2>2. \A c \in Conns : ~LoopDue(c)'
    BY <2>1 DEF LoopOnce, LoopDue
  <2> QED
    BY <2>1, <2>2 DEF LoopOnce
<1>7. ASSUME NEW c \in Conns, EndDrop(c), drop[c].loop PROVE LoopOnce'
  <2>1. drop[c].at = "tell" /\ drop'[c].at = "done"
        /\ \A d \in Conns \ {c} : drop'[d] = drop[d]
    BY <1>7, EndDropEffect DEF DropFresh, Advances
  <2>2. reconnecting /\ \A d \in Conns : LoopDue(d) => d = c
    BY <1>7, <2>1 DEF LoopOnce, LoopDue
  <2>3. \A d \in Conns : ~LoopDue(d)'
    BY <2>1, <2>2 DEF LoopDue
  <2>4. reconnecting' = reconnecting
    BY <1>7 DEF EndDrop, bridgeVars
  <2> QED
    BY <2>2, <2>3, <2>4 DEF LoopOnce
<1>8. ASSUME NEW c \in Conns, EndDrop(c), ~drop[c].loop PROVE LoopOnce'
  <2>1. drop'[c].loop = drop[c].loop /\ \A d \in Conns \ {c} : drop'[d] = drop[d]
    BY <1>8, EndDropEffect DEF Advances
  <2>2. \A d \in Conns : LoopDue(d)' => LoopDue(d)
    BY <1>8, <2>1 DEF LoopDue
  <2>3. Kept(Loop)
    BY <1>0, <1>8, QuietEndDrop DEF Typed, AllKept
  <2>4. reconnecting' = reconnecting
    BY <1>8 DEF EndDrop, bridgeVars
  <2> QED
    BY <2>2, <2>3, <2>4, LoopKept
<1> QED
  BY <1>3, <1>4, <1>5, <1>6, <1>7, <1>8 DEF Next, Background, Read, Clear, Reconnect

-----------------------------------------------------------------------------
(* The processes.                                                          *)

Doomed(c) == drop[c].at \in {"kill", "closeTell", "closeKill"}
Live(c) == process[c] = "running" /\ ~Doomed(c)

(* A process that nobody is going to kill is the connection, or is about   *)
(* to be installed.                                                        *)
ProcessKnown ==
  \A c \in Conns :
    Live(c) => conn = c \/ \E t \in Threads : thread[t].at = "started" /\ thread[t].own = c

LEMMA KnownImpliesOneProcess ==
  ASSUME ProcessKnown, ConnectingAlone
  PROVE  OneProcess
<1>1. ASSUME NEW c \in Conns, Live(c), NEW d \in Conns, Live(d) PROVE c = d
  BY <1>1 DEF ProcessKnown, ConnectingAlone, Conns
<1> QED
  BY <1>1 DEF OneProcess, ProcessKnown, Live, Doomed

(* A process runs only after it has been started.                          *)
LEMMA RunningCases ==
  ASSUME Typed, Next, NEW c \in Conns, process'[c] = "running"
  PROVE  \/ process[c] = "running"
         \/ \E t \in Threads : StartProcess(t) /\ c = lastConn + 1
<1> USE DEF Typed, SharedTyped
<1>1. ASSUME NEW t \in Threads, StartProcess(t), c # lastConn + 1 PROVE process[c] = "running"
  BY <1>1 DEF StartProcess
<1>2. ASSUME NEW t \in Threads, Install(t) PROVE process[c] = "running"
  BY <1>2 DEF Install, InstallOrKill
<1>3. ASSUME NEW d \in Conns, Ends(d) PROVE process[c] = "running"
  BY <1>3 DEF Ends
<1>4. CASE process' = process
  BY <1>4
<1>5. ASSUME NEW t \in Threads, Begin(t) \/ EnsureConnected(t) \/ StartFails(t) \/ Send(t)
      PROVE  process' = process
  BY <1>5 DEF Begin, EnsureConnected, StartFails, Send, Register, Write, WriteFails, Receive,
     TimeOut, Dropped, BootstrapFails, ConnectFails, TryFails, processVars
<1>6. ASSUME Read \/ Reconnect \/ Close
      PROVE  process' = process
  BY <1>6 DEF Read, Answer, Dispatch, Reconnect, Check, BackedOff, Leave, Close, processVars
<1>7. ASSUME NEW d \in Conns, WaitLoop(d) \/ ReadFails(d) \/ Tell(d) \/ EndDrop(d)
      PROVE  process' = process
  BY <1>7 DEF WaitLoop, ReadFails, Tell, EndDrop, processVars
<1>8. ASSUME NEW d \in Conns, Exit(d) \/ Kill(d) PROVE Ends(d)
  BY <1>8 DEF Exit, Kill
<1> QED
  BY <1>1, <1>2, <1>3, <1>4, <1>5, <1>6, <1>7, <1>8 DEF Next, Connect, Clear

(* Only Install moves the goroutine that has started a process.            *)
LEMMA StartedStays ==
  ASSUME Typed, DropFresh, LoopOnce, Next, NEW u \in Threads, thread[u].at = "started",
         ~Install(u)
  PROVE  thread'[u].at = "started" /\ thread'[u].own = thread[u].own
<1>0. Loop \in Threads
  BY DEF Threads
<1>1. ASSUME NEW t \in Threads, Begin(t) \/ Connect(t) \/ Send(t) PROVE Kept(u)
  <2>1. t # u
    BY <1>1, SendUnrelated DEF Connect, EnsureConnected, StartProcess, StartFails
  <2> QED
    BY <1>1, <2>1, OwnStepPlaces, BridgeAssumption DEF OthersKept
<1>2. CASE Background
  BY <1>2, BackgroundEffect DEF AllKept, Typed, Kept
<1>3. CASE Reconnect
  <2>1. OthersKept(Loop)
    BY <1>3, LoopEffect DEF Typed, Reconnect
  <2>2. u # Loop
    BY <1>3 DEF Reconnect, Check, BackedOff, Leave
  <2> QED
    BY <2>1, <2>2 DEF OthersKept, Kept
<1>4. ASSUME NEW c \in Conns, EndDrop(c), drop[c].loop PROVE Kept(u)
  <2>1. OthersKept(Loop)
    BY <1>4, LoopEffect DEF Typed
  <2>2. thread[Loop].at = "idle"
    BY <1>4, EndDropEffect DEF DropFresh, LoopOnce, LoopDue
  <2> QED
    BY <2>1, <2>2 DEF OthersKept
<1>5. ASSUME NEW c \in Conns, EndDrop(c), ~drop[c].loop PROVE Kept(u)
  BY <1>5, QuietEndDrop DEF Typed, AllKept
<1> QED
  BY <1>1, <1>2, <1>3, <1>4, <1>5 DEF Next, Background, Read, Clear, Kept

LEMMA ProcessStep ==
  ASSUME Typed, ConnectingAlone, DropFresh, LoopOnce, ProcessKnown, Next
  PROVE  ProcessKnown'
<1> SUFFICES ASSUME NEW c \in Conns, Live(c)'
             PROVE  conn' = c \/ \E t \in Threads : thread'[t].at = "started" /\ thread'[t].own = c
  BY DEF ProcessKnown
<1>0. process'[c] = "running" /\ ~Doomed(c)' /\ c # 0
  BY DEF Live, Conns
<1>1. ASSUME NEW t \in Threads, StartProcess(t), c = lastConn + 1
      PROVE  thread'[t].at = "started" /\ thread'[t].own = c
  BY <1>1, StartEffect DEF Typed
<1>2. CASE process[c] = "running"
  <2>1. ASSUME NEW t \in Threads, StartProcess(t), Live(c) PROVE FALSE
    <3>1. thread[t].at = "starting"
      BY <2>1 DEF StartProcess
    <3> QED
      BY <1>0, <2>1, <3>1 DEF ProcessKnown, ConnectingAlone
  <2>2. ASSUME NEW t \in Threads, Install(t), Live(c) PROVE conn' = c
    <3>1. thread[t].at = "started" /\ conn = 0
      BY <2>2 DEF Install, ConnectingAlone
    <3>2. thread[t].own = c
      BY <1>0, <2>2, <3>1 DEF ProcessKnown, ConnectingAlone
    <3>3. ~(process' = [process EXCEPT ![c] = "exited"])
      BY <1>0 DEF Typed, SharedTyped
    <3> QED
      BY <2>2, <3>2, <3>3 DEF Install, InstallOrKill
  <2>3. ASSUME NEW u \in Threads, thread[u].at = "started", thread[u].own = c,
               \A t \in Threads : ~Install(t)
        PROVE  thread'[u].at = "started" /\ thread'[u].own = c
    BY <2>3, StartedStays
  <2>4. ASSUME UNCHANGED <<drop, conn>>, Live(c), \A t \in Threads : ~Install(t)
        PROVE  conn' = c \/ \E t \in Threads : thread'[t].at = "started" /\ thread'[t].own = c
    BY <2>3, <2>4 DEF ProcessKnown
  <2>5. ASSUME UNCHANGED drop PROVE Live(c)
    BY <1>0, <1>2, <2>5 DEF Live, Doomed
  <2>6. ASSUME NEW left, Loses(left), \A t \in Threads : ~Install(t)
        PROVE  \E t \in Threads : thread'[t].at = "started" /\ thread'[t].own = c
    <3>1. PICK d \in Conns : /\ conn = d
                             /\ drop'[d].at \in {"kill", "closeTell"}
                             /\ \A e \in Conns \ {d} : drop'[e] = drop[e]
      BY <2>6 DEF Loses
    <3>2. c # d
      BY <1>0, <3>1 DEF Doomed
    <3>3. Live(c)
      BY <1>0, <1>2, <3>1, <3>2 DEF Live, Doomed
    <3> QED
      BY <2>3, <2>6, <3>1, <3>2, <3>3 DEF ProcessKnown
  <2>7. ASSUME NEW d \in Conns, Advances(d), Kill(d) \/ Tell(d) \/ EndDrop(d),
               \A t \in Threads : ~Install(t)
        PROVE  conn' = c \/ \E t \in Threads : thread'[t].at = "started" /\ thread'[t].own = c
    <3>1. Live(c)
      <4>1. CASE c # d
        BY <1>0, <1>2, <2>7, <4>1 DEF Live, Doomed, Advances
      <4>2. CASE c = d /\ Kill(d)
        BY <1>0, <4>2 DEF Kill, Ends, Typed, SharedTyped
      <4>3. CASE c = d /\ Tell(d)
        BY <1>0, <1>2, <4>3, TellEffect DEF Live, Doomed
      <4>4. CASE c = d /\ EndDrop(d)
        BY <1>0, <1>2, <4>4, EndDropEffect DEF Live, Doomed
      <4> QED
        BY <2>7, <4>1, <4>2, <4>3, <4>4
    <3>2. conn' = conn
      BY <2>7 DEF Advances
    <3> QED
      BY <2>3, <2>7, <3>1, <3>2 DEF ProcessKnown
  <2>8. ASSUME NEW t \in Threads, Install(t) PROVE conn' = c
    <3>1. UNCHANGED drop
      BY <2>8 DEF Install
    <3> QED
      BY <2>2, <2>5, <2>8, <3>1
  <2>9. ASSUME NEW t \in Threads, StartProcess(t) PROVE FALSE
    <3>1. UNCHANGED drop
      BY <2>9 DEF StartProcess
    <3> QED
      BY <2>1, <2>5, <2>9, <3>1
  <2> QED
    BY <2>4, <2>5, <2>6, <2>7, <2>8, <2>9, ConnectionCases
<1> QED
  BY <1>0, <1>1, <1>2, RunningCases

-----------------------------------------------------------------------------
(* The requests.                                                           *)

(* Somebody is about to be told that the connection of r is lost.          *)
Told(r) == \E c \in Conns : r \in drop[c].told

(* The request has been registered, and not given up.                      *)
Used(r) == r \in pending \/ channel[r] # "none" \/ Told(r)

(* A pending request is waited for by its sender, on the connection there  *)
(* is, and has no answer yet.                                              *)
PendingOK(r) ==
  /\ thread[r[1]].at \in {"write", "wait"}
  /\ Request(r[1]) = r
  /\ thread[r[1]].to = conn
  /\ HasAnswer(r[1])
  /\ channel[r] = "none"
  /\ ~Told(r)

AllPendingOK == \A r \in pending : PendingOK(r)

(* The call of t has been sent in its present try, or is over.             *)
Sent(t) == thread[t].job = "call" /\ thread[t].at \in {"write", "wait", "dropping", "failed", "done"}

(* Nothing is known of a request that has not been sent: no answer to an   *)
(* earlier one can be taken for its own.                                   *)
Fresh(t) ==
  /\ thread[t].at = "started" \/ (thread[t].at = "register" /\ thread[t].job = "init") =>
       ~Used(<<t, 0, thread[t].own>>)
  /\ \A c \in Conns : c > lastConn => ~Used(<<t, 0, c>>)
  /\ t \in Callers =>
       /\ thread[t].try = 1 => ~Used(<<t, 2, 0>>)
       /\ ~Sent(t) => ~Used(<<t, thread[t].try, 0>>)

(* Who waits for an answer, or is about to, gets one or is told.           *)
Reached(t) ==
  thread[t].at \in {"write", "wait"} /\ HasAnswer(t) => Used(Request(t))

LEMMA RequestSender ==
  /\ \A t : Request(t)[1] = t
  /\ \A r \in Requests : r[1] \in Threads
<1>1. ASSUME NEW t PROVE Request(t)[1] = t
  BY DEF Request
<1>2. ASSUME NEW r \in Requests PROVE r[1] \in Threads
  BY <1>2 DEF Requests, Threads
<1> QED
  BY <1>1, <1>2

LEMMA SameRequest ==
  ASSUME NEW t \in Threads, SameTask(t) \/ Kept(t)
  PROVE  Request(t)' = Request(t) /\ (HasAnswer(t)' <=> HasAnswer(t))
  BY DEF SameTask, Kept, Request, HasAnswer

(* Only Register adds a request.                                           *)
Shrinks ==
  /\ pending' \subseteq pending
  /\ \A r \in Requests : Used(r)' => Used(r)
  /\ \A r \in pending' : channel'[r] = channel[r] /\ ~Told(r)'

LEMMA QuietShrinks ==
  ASSUME AllPendingOK, pending' \subseteq pending, UNCHANGED <<channel, drop>>
  PROVE  Shrinks
  BY DEF AllPendingOK, PendingOK, Shrinks, Used, Told

LEMMA LosesShrinks ==
  ASSUME Typed, NEW left, left \subseteq pending, Loses(left) \/ Stays(left), channel' = channel,
         AllPendingOK
  PROVE  Shrinks
<1>1. CASE Stays(left)
  BY <1>1, QuietShrinks DEF Stays
<1>2. CASE Loses(left)
  <2>1. PICK c \in Conns : /\ pending' = {} /\ drop'[c].told = left
                           /\ \A d \in Conns \ {c} : drop'[d] = drop[d]
    BY <1>2 DEF Loses
  <2>2. ASSUME NEW r, Told(r)' PROVE Told(r) \/ r \in pending
    BY <2>1, <2>2 DEF Told
  <2> QED
    BY <2>1, <2>2 DEF Shrinks, Used
<1> QED
  BY <1>1, <1>2

LEMMA AdvanceShrinks ==
  ASSUME Typed, AllPendingOK, NEW c \in Conns, Advances(c), channel' = channel,
         drop'[c].told \subseteq drop[c].told
  PROVE  Shrinks
<1>1. ASSUME NEW r, Told(r)' PROVE Told(r)
  BY <1>1 DEF Told, Advances
<1> QED
  BY <1>1 DEF Shrinks, Used, Advances, AllPendingOK, PendingOK

LEMMA TellShrinks ==
  ASSUME Typed, AllPendingOK, NEW c \in Conns, Tell(c)
  PROVE  Shrinks
<1>1. Advances(c)
  BY TellEffect
<1>2. PICK q \in drop[c].told :
        /\ channel' = [channel EXCEPT ![q] = IF @ = "none" THEN "dropped" ELSE @]
        /\ drop'[c].told = drop[c].told \ {q}
  BY TellEffect
<1>3. ASSUME NEW r, Told(r)' PROVE Told(r)
  BY <1>1, <1>2, <1>3 DEF Told, Advances
<1>4. Told(q)
  BY DEF Told
<1>5. \A r \in Requests : r # q => channel'[r] = channel[r]
  BY <1>2 DEF Typed, SharedTyped
<1>6. pending' = pending /\ pending \subseteq Requests
  BY <1>1 DEF Advances, Typed, SharedTyped
<1>7. \A r \in pending : r # q
  BY <1>4 DEF AllPendingOK, PendingOK
<1>8. ASSUME NEW r \in Requests, Used(r)' PROVE Used(r)
  BY <1>3, <1>4, <1>5, <1>6, <1>8 DEF Used
<1>9. \A r \in pending' : channel'[r] = channel[r] /\ ~Told(r)'
  BY <1>3, <1>5, <1>6, <1>7 DEF AllPendingOK, PendingOK
<1> QED
  BY <1>6, <1>8, <1>9 DEF Shrinks

LEMMA DispatchShrinks ==
  ASSUME Typed, AllPendingOK, NEW q \in Requests, NEW a \in {"ok", "error"}, Dispatch(q, a)
  PROVE  Shrinks
<1>1. /\ pending' = pending \ {q} /\ drop' = drop
      /\ channel' = IF q \in pending THEN [channel EXCEPT ![q] = a] ELSE channel
  BY DEF Dispatch
<1>2. \A r \in Requests : r # q => channel'[r] = channel[r]
  BY <1>1 DEF Typed, SharedTyped
<1>3. pending \subseteq Requests
  BY DEF Typed, SharedTyped
<1>4. \A r : Told(r)' <=> Told(r)
  BY <1>1 DEF Told
<1>5. ASSUME NEW r \in Requests, Used(r)' PROVE Used(r)
  <2>1. CASE r = q
    BY <1>1, <1>4, <1>5, <2>1 DEF Used
  <2>2. CASE r # q
    BY <1>1, <1>2, <1>4, <1>5, <2>2 DEF Used
  <2> QED
    BY <2>1, <2>2
<1>6. \A r \in pending' : channel'[r] = channel[r] /\ ~Told(r)'
  BY <1>1, <1>2, <1>3, <1>4 DEF AllPendingOK, PendingOK
<1> QED
  BY <1>1, <1>5, <1>6 DEF Shrinks

(* What a step does to the requests.                                       *)
Adds(t) ==
  /\ Register(t) /\ conn # 0 /\ HasAnswer(t)
  /\ pending' = pending \cup {Request(t)}
  /\ UNCHANGED <<conn, lastConn, channel, drop>>

LEMMA RequestCases ==
  ASSUME Typed, AllPendingOK, Next
  PROVE  Shrinks \/ \E t \in Threads : Adds(t)
<1>1. ASSUME NEW t \in Threads, Register(t) PROVE Shrinks \/ Adds(t)
  <2>1. UNCHANGED <<conn, lastConn, channel, drop>>
    BY <1>1 DEF Register, bridgeVars, processVars
  <2>2. CASE conn # 0 /\ HasAnswer(t)
    BY <1>1, <2>1, <2>2 DEF Adds, Register
  <2>3. CASE conn = 0 \/ ~HasAnswer(t)
    <3>1. pending' \subseteq pending
      BY <1>1, <2>3 DEF Register
    <3> QED
      BY <2>1, <3>1, QuietShrinks
  <2> QED
    BY <2>2, <2>3
<1>2. ASSUME NEW t \in Threads, Begin(t) \/ Connect(t) \/ Write(t) \/ Receive(t) \/ TimeOut(t)
                                \/ Dropped(t) \/ ConnectFails(t) \/ TryFails(t)
      PROVE  Shrinks
  <2>1. pending' \subseteq pending /\ UNCHANGED <<channel, drop>>
    BY <1>2 DEF Begin, Connect, EnsureConnected, StartProcess, StartFails, Install, Write,
       Receive, TimeOut, Dropped, ConnectFails, TryFails
  <2> QED
    BY <2>1, QuietShrinks
<1>3. ASSUME NEW t \in Threads, WriteFails(t) \/ BootstrapFails(t) PROVE Shrinks
  <2>1. channel' = channel
    BY <1>3 DEF WriteFails, BootstrapFails
  <2>2. \E left \in SUBSET pending : Loses(left) \/ Stays(left)
    BY <1>3, LossEffect, BridgeAssumption
  <2> QED
    BY <2>1, <2>2, LosesShrinks
<1>4. ASSUME NEW c \in Conns, WaitLoop(c) \/ ReadFails(c) PROVE Shrinks
  <2>1. channel' = channel
    BY <1>4 DEF WaitLoop, ReadFails
  <2> QED
    BY <1>4, <2>1, LossEffect, LosesShrinks, BridgeAssumption
<1>5. ASSUME Close PROVE Shrinks
  <2>1. channel' = channel
    BY <1>5 DEF Close
  <2> QED
    BY <1>5, <2>1, LossEffect, LosesShrinks, BridgeAssumption
<1>6. ASSUME NEW c \in Conns, Kill(c) \/ EndDrop(c) PROVE Shrinks
  <2>1. channel' = channel
    BY <1>6 DEF Kill, EndDrop
  <2> QED
    BY <1>6, <2>1, KillEffect, EndDropEffect, AdvanceShrinks
<1>7. ASSUME NEW c \in Conns, Tell(c) PROVE Shrinks
  BY <1>7, TellShrinks
<1>8. ASSUME NEW q \in Requests, NEW a \in {"ok", "error"}, Dispatch(q, a) PROVE Shrinks
  BY <1>8, DispatchShrinks
<1>9. ASSUME UNCHANGED <<pending, channel, drop>> PROVE Shrinks
  BY <1>9, QuietShrinks
<1>10. ASSUME NEW c \in Conns, NEW r \in Requests, Answer(c, r)
       PROVE  UNCHANGED <<pending, channel, drop>>
  BY <1>10 DEF Answer
<1>11. ASSUME NEW c \in Conns, Exit(c) PROVE UNCHANGED <<pending, channel, drop>>
  BY <1>11 DEF Exit
<1>12. ASSUME Reconnect PROVE UNCHANGED <<pending, channel, drop>>
  BY <1>12 DEF Reconnect, Check, BackedOff, Leave
<1> QED
  BY <1>1, <1>2, <1>3, <1>4, <1>5, <1>6, <1>7, <1>8, <1>9, <1>10, <1>11, <1>12
  DEF Next, Read, Clear, Send

(* A request that was used is, unless its sender has given it up.          *)
LEMMA UsedStays ==
  ASSUME Typed, DropFresh, AllPendingOK, Next, NEW r \in Requests, Used(r), ~Used(r)'
  PROVE  \E t \in Threads : r = Request(t) /\ (TimeOut(t) \/ WriteFails(t))
<1>1. ASSUME pending \subseteq pending', UNCHANGED <<channel, drop>> PROVE FALSE
  BY <1>1 DEF Used, Told
<1>2. ASSUME NEW t \in Threads, Begin(t) \/ Connect(t) \/ Register(t) \/ Write(t) \/ Receive(t)
                                \/ Dropped(t) \/ ConnectFails(t) \/ TryFails(t)
      PROVE  FALSE
  <2>1. pending \subseteq pending' /\ UNCHANGED <<channel, drop>>
    BY <1>2 DEF Begin, Connect, EnsureConnected, StartProcess, StartFails, Install, Register,
       Write, Receive, Dropped, ConnectFails, TryFails
  <2> QED
    BY <1>1, <2>1
<1>3. ASSUME NEW t \in Threads, TimeOut(t) PROVE r = Request(t)
  <2>1. pending' = pending \ {Request(t)} /\ UNCHANGED <<channel, drop>>
    BY <1>3 DEF TimeOut
  <2> QED
    BY <2>1 DEF Used, Told
<1>4. ASSUME NEW left, Loses(left) \/ Stays(left), channel' = channel,
             r \in left
      PROVE  FALSE
  <2>1. CASE Stays(left)
    BY <1>4, <2>1 DEF Stays, Used, Told
  <2>2. CASE Loses(left)
    <3>1. PICK c \in Conns : /\ conn = c /\ drop'[c].told = left
                             /\ \A d \in Conns \ {c} : drop'[d] = drop[d]
      BY <2>2 DEF Loses
    <3> QED
      BY <1>4, <3>1 DEF Told, Used
  <2> QED
    BY <1>4, <2>1, <2>2
<1>5. ASSUME NEW left, left \subseteq pending, Loses(left) \/ Stays(left), channel' = channel,
             r \notin left
      PROVE  r \in pending
  <2>1. CASE Stays(left)
    BY <1>5, <2>1 DEF Stays, Used, Told
  <2>2. CASE Loses(left)
    <3>1. PICK c \in Conns : /\ conn = c /\ drop'[c].told = left
                             /\ \A d \in Conns \ {c} : drop'[d] = drop[d]
      BY <2>2 DEF Loses
    <3>2. drop[c].told = {}
      BY <3>1 DEF DropFresh
    <3> QED
      BY <1>5, <3>1, <3>2 DEF Told, Used
  <2> QED
    BY <1>5, <2>1, <2>2
<1>6. ASSUME Loses(pending) \/ Stays(pending), channel' = channel PROVE FALSE
  BY <1>4, <1>5, <1>6
<1>7. ASSUME NEW t \in Threads, WriteFails(t) PROVE r = Request(t)
  <2>1. channel' = channel
    BY <1>7 DEF WriteFails
  <2>2. Loses(pending \ {Request(t)}) \/ Stays(pending \ {Request(t)})
    BY <1>7, LossEffect, BridgeAssumption
  <2>3. PICK left : left = pending \ {Request(t)}
    OBVIOUS
  <2>4. CASE r \in left
    BY <1>4, <2>1, <2>2, <2>3, <2>4
  <2>5. CASE r \notin left
    <3>1. r \in pending
      BY <1>5, <2>1, <2>2, <2>3, <2>5
    <3> QED
      BY <2>3, <2>5, <3>1
  <2> QED
    BY <2>4, <2>5
<1>8. ASSUME NEW t \in Threads, BootstrapFails(t) PROVE FALSE
  <2>1. channel' = channel
    BY <1>8 DEF BootstrapFails
  <2> QED
    BY <1>6, <1>8, <2>1, LossEffect, BridgeAssumption
<1>9. ASSUME NEW c \in Conns, WaitLoop(c) \/ ReadFails(c) PROVE FALSE
  <2>1. channel' = channel
    BY <1>9 DEF WaitLoop, ReadFails
  <2> QED
    BY <1>6, <1>9, <2>1, LossEffect, BridgeAssumption
<1>10. ASSUME Close PROVE FALSE
  <2>1. channel' = channel
    BY <1>10 DEF Close
  <2>2. CASE conn = 0 /\ Stays({})
    <3>1. pending = {}
      <4>1. \A q \in pending : q[1] \in Threads
        BY RequestSender DEF Typed, SharedTyped
      <4>2. \A q \in pending : thread[q[1]].to # 0
        BY <4>1 DEF AllPendingOK, PendingOK, Typed, PlaceOK
      <4> QED
        BY <2>2, <4>2 DEF AllPendingOK, PendingOK
    <3> QED
      BY <1>1, <2>1, <2>2, <3>1 DEF Stays
  <2> QED
    BY <1>6, <1>10, <2>1, <2>2, LossEffect, BridgeAssumption
<1>11. ASSUME NEW c \in Conns, Advances(c), channel' = channel, drop'[c].told = drop[c].told
       PROVE  FALSE
  <2>1. \A d \in Conns : drop'[d].told = drop[d].told
    BY <1>11 DEF Advances
  <2> QED
    BY <1>11, <2>1 DEF Used, Told, Advances
<1>12. ASSUME NEW c \in Conns, Kill(c) \/ EndDrop(c) PROVE FALSE
  <2>1. channel' = channel
    BY <1>12 DEF Kill, EndDrop
  <2> QED
    BY <1>11, <1>12, <2>1, KillEffect, EndDropEffect
<1>13. ASSUME NEW c \in Conns, Tell(c) PROVE FALSE
  <2>1. Advances(c)
    BY <1>13, TellEffect
  <2>2. PICK q \in drop[c].told :
          /\ channel' = [channel EXCEPT ![q] = IF @ = "none" THEN "dropped" ELSE @]
          /\ drop'[c].told = drop[c].told \ {q}
    BY <1>13, TellEffect
  <2>3. CASE r = q
    BY <2>2, <2>3 DEF Used, Typed, SharedTyped
  <2>4. CASE r # q
    <3>1. channel'[r] = channel[r]
      BY <2>2, <2>4 DEF Typed, SharedTyped
    <3>2. Told(r) => Told(r)'
      BY <2>1, <2>2, <2>4 DEF Told, Advances
    <3> QED
      BY <2>1, <3>1, <3>2 DEF Used, Advances
  <2> QED
    BY <2>3, <2>4
<1>14. ASSUME NEW q \in Requests, NEW a \in {"ok", "error"}, Dispatch(q, a) PROVE FALSE
  <2>1. /\ pending' = pending \ {q} /\ drop' = drop
        /\ channel' = IF q \in pending THEN [channel EXCEPT ![q] = a] ELSE channel
    BY <1>14 DEF Dispatch
  <2>2. Told(r)' <=> Told(r)
    BY <2>1 DEF Told
  <2>3. CASE r = q /\ q \in pending
    BY <2>1, <2>3 DEF Used, Typed, SharedTyped
  <2>4. CASE r # q
    <3>1. channel'[r] = channel[r]
      BY <2>1, <2>4 DEF Typed, SharedTyped
    <3> QED
      BY <2>1, <2>2, <2>4, <3>1 DEF Used
  <2>5. CASE q \notin pending
    BY <2>1, <2>2, <2>5 DEF Used
  <2> QED
    BY <2>3, <2>4, <2>5
<1>15. ASSUME NEW c \in Conns, NEW q \in Requests, Answer(c, q) PROVE FALSE
  BY <1>1, <1>15 DEF Answer
<1>16. ASSUME NEW c \in Conns, Exit(c) PROVE FALSE
  BY <1>1, <1>16 DEF Exit
<1>17. ASSUME Reconnect PROVE FALSE
  BY <1>1, <1>17 DEF Reconnect, Check, BackedOff, Leave
<1> QED
  BY <1>2, <1>3, <1>7, <1>8, <1>9, <1>10, <1>12, <1>13, <1>14, <1>15, <1>16, <1>17
  DEF Next, Read, Clear, Send

(* Who sends: the goroutines on their way from register to wait.           *)
LEMMA OwnOrKept ==
  ASSUME Typed, DropFresh, LoopOnce, Next, NEW u \in Threads
  PROVE  \/ Kept(u)
         \/ Begin(u) \/ Connect(u) \/ Send(u)
         \/ u = Loop /\ thread'[u].at \in {"leaving", "ensure", "check", "idle"} /\ SameTask(u)
            /\ thread[u].at \notin {"write", "wait"}
<1>1. ASSUME NEW t \in Threads, Begin(t) \/ Connect(t) \/ Send(t), t # u PROVE Kept(u)
  BY <1>1, OwnStepPlaces, BridgeAssumption DEF OthersKept
<1>2. CASE Background
  BY <1>2, BackgroundEffect DEF AllKept, Typed
<1>3. CASE Reconnect \/ \E c \in Conns : EndDrop(c) /\ drop[c].loop
  <2>1. /\ OthersKept(Loop) /\ SameTask(Loop)
        /\ thread'[Loop].at \in {"leaving", "ensure", "check", "idle"}
    BY <1>3, LoopEffect DEF Typed, Reconnect
  <2>2. CASE u # Loop
    BY <2>1, <2>2 DEF OthersKept
  <2>3. CASE u = Loop
    <3>1. thread[Loop].at \notin {"write", "wait"}
      <4>1. CASE Reconnect
        BY <4>1 DEF Reconnect, Check, BackedOff, Leave
      <4>2. ASSUME NEW c \in Conns, EndDrop(c), drop[c].loop PROVE thread[Loop].at = "idle"
        BY <4>2, EndDropEffect DEF DropFresh, LoopOnce, LoopDue
      <4> QED
        BY <1>3, <4>1, <4>2
    <3> QED
      BY <2>1, <2>3, <3>1
  <2> QED
    BY <2>2, <2>3
<1>4. ASSUME NEW c \in Conns, EndDrop(c), ~drop[c].loop PROVE Kept(u)
  BY <1>4, QuietEndDrop DEF Typed, AllKept
<1> QED
  BY <1>1, <1>2, <1>3, <1>4 DEF Next, Background, Read, Clear

(* The pending request of a goroutine stays its request.                   *)
LEMMA PendingCases ==
  ASSUME Typed, DropFresh, LoopOnce, AllPendingOK, Next,
         NEW r \in pending, r \in pending'
  PROVE  thread'[r[1]].at \in {"write", "wait"} /\ (SameTask(r[1]) \/ Kept(r[1]))
<1>1. PICK u \in Threads : u = r[1]
  BY RequestSender DEF Typed, SharedTyped
<1>2. /\ thread[u].at \in {"write", "wait"} /\ HasAnswer(u)
      /\ Request(u) = r /\ channel[r] = "none"
  BY <1>1 DEF AllPendingOK, PendingOK
<1>3. CASE Kept(u)
  BY <1>1, <1>2, <1>3 DEF Kept
<1>4. CASE Begin(u) \/ Connect(u) \/ Send(u)
  <2>1. ThreadsTyped /\ PlaceOK(u)
    BY DEF Typed
  <2>2. CASE Write(u)
    <3>1. thread[u].job # "drop" /\ thread[u].job # "greet" /\ thread[u].job # "note"
      BY <1>2 DEF HasAnswer
    <3> QED
      BY <1>1, <2>1, <2>2, <3>1, WriteEffect
  <2>3. CASE WriteFails(u)
    <3>1. r \notin pending'
      <4>1. Loses(pending \ {r}) \/ Stays(pending \ {r})
        BY <1>2, <2>3, LossEffect, BridgeAssumption
      <4> QED
        BY <4>1 DEF Loses, Stays
    <3> QED
      BY <3>1
  <2>4. CASE Receive(u)
    BY <1>2, <2>1, <2>4, ReceiveEffect
  <2>5. CASE TimeOut(u)
    BY <1>2, <2>1, <2>5, TimeOutEffect
  <2>6. CASE Begin(u) \/ Connect(u) \/ Register(u) \/ Dropped(u) \/ BootstrapFails(u)
             \/ ConnectFails(u) \/ TryFails(u)
    BY <1>2, <2>6 DEF Begin, Connect, EnsureConnected, StartProcess, StartFails, Install,
       Register, Dropped, BootstrapFails, ConnectFails, TryFails
  <2> QED
    BY <1>4, <2>2, <2>3, <2>4, <2>5, <2>6 DEF Send
<1>5. CASE thread[u].at \notin {"write", "wait"}
  BY <1>2, <1>5
<1> QED
  BY <1>3, <1>4, <1>5, OwnOrKept

(* A goroutine that sends has registered, or registers now.                *)
LEMMA SenderCases ==
  ASSUME Typed, DropFresh, LoopOnce, Next, NEW u \in Threads,
         thread'[u].at \in {"write", "wait"}
  PROVE  \/ /\ thread[u].at \in {"write", "wait"} /\ (SameTask(u) \/ Kept(u))
            /\ ~TimeOut(u) /\ ~WriteFails(u)
         \/ /\ Register(u) /\ conn # 0
            /\ Request(u)' = Request(u) /\ (HasAnswer(u)' <=> HasAnswer(u))
<1>0. ThreadsTyped /\ PlaceOK(u) /\ conn \in 0..lastConn
  BY DEF Typed, SharedTyped
<1>1. NotConnected(u) \in {"backoff", "done"} /\ Connected(u) \in {"leaving", "register"}
  BY DEF NotConnected, Connected
<1>2. ~TimeOut(u) /\ ~WriteFails(u)
  BY <1>0, TimeOutEffect, WriteFailsEffect DEF Back
<1>3. CASE Kept(u)
  BY <1>2, <1>3 DEF Kept
<1>4. CASE Begin(u) \/ Connect(u) \/ Send(u)
  <2>1. CASE Register(u)
    <3>1. /\ conn # 0 /\ thread'[u].job = thread[u].job
          /\ thread'[u].try = thread[u].try /\ thread'[u].own = thread[u].own
      BY <1>0, <2>1, RegisterEffect DEF Back
    <3> QED
      BY <2>1, <3>1 DEF Request, HasAnswer
  <2>2. CASE Write(u)
    <3>1. thread[u].job # "drop"
      BY <1>0, <2>2 DEF Write, PlaceOK
    <3> QED
      BY <1>0, <1>1, <1>2, <2>2, <3>1, WriteEffect DEF Back
  <2>3. CASE Begin(u)
    BY <1>0, <2>3, BeginEffect
  <2>4. CASE Connect(u)
    BY <1>0, <1>1, <2>4, EnsureEffect, StartEffect, StartFailsEffect, InstallEffect
    DEF Back, Connect
  <2>5. CASE Receive(u) \/ Dropped(u) \/ BootstrapFails(u) \/ TryFails(u)
    BY <1>0, <2>5, ReceiveEffect, DroppedEffect, BootstrapFailsEffect, TryFailsEffect DEF Back
  <2>6. CASE ConnectFails(u)
    BY <1>0, <1>1, <2>6, ConnectFailsEffect DEF Back
  <2> QED
    BY <1>2, <1>4, <2>1, <2>2, <2>3, <2>4, <2>5, <2>6 DEF Send
<1> QED
  BY <1>3, <1>4, OwnOrKept

(* A goroutine about to register "initialize" has been since it started    *)
(* the process.                                                            *)
LEMMA BootstrapCases ==
  ASSUME Typed, DropFresh, LoopOnce, Next, NEW u \in Threads,
         thread'[u].at = "register" /\ thread'[u].job = "init"
  PROVE  /\ \/ thread[u].at = "started"
            \/ thread[u].at = "register" /\ thread[u].job = "init"
         /\ thread'[u].own = thread[u].own
         /\ ~Register(u)
<1>0. ThreadsTyped /\ PlaceOK(u) /\ conn \in 0..lastConn
  BY DEF Typed, SharedTyped
<1>1. /\ NotConnected(u) \in {"backoff", "done"} /\ Connected(u) \in {"leaving", "register"}
      /\ Purpose(u) # "init"
  BY DEF NotConnected, Connected, Purpose
<1>2. ~Register(u)
  BY <1>0, RegisterEffect DEF Back
<1>3. CASE Kept(u)
  BY <1>2, <1>3 DEF Kept
<1>4. CASE Begin(u) \/ Connect(u) \/ Send(u)
  <2>1. CASE Install(u)
    <3>1. thread[u].at = "started"
      BY <2>1 DEF Install
    <3> QED
      BY <1>0, <1>1, <1>2, <2>1, <3>1, InstallEffect DEF Back
  <2>2. CASE Begin(u) \/ EnsureConnected(u) \/ StartProcess(u) \/ StartFails(u)
    BY <1>0, <1>1, <2>2, BeginEffect, EnsureEffect, StartEffect, StartFailsEffect DEF Back
  <2>3. CASE Write(u)
    <3>1. thread[u].job # "drop"
      BY <1>0, <2>3 DEF Write, PlaceOK
    <3> QED
      BY <1>0, <1>1, <2>3, <3>1, WriteEffect DEF Back
  <2>4. CASE WriteFails(u) \/ Receive(u) \/ TimeOut(u) \/ Dropped(u)
    BY <1>0, <1>1, <2>4, WriteFailsEffect, ReceiveEffect, TimeOutEffect, DroppedEffect DEF Back
  <2>5. CASE BootstrapFails(u) \/ ConnectFails(u) \/ TryFails(u)
    BY <1>0, <1>1, <2>5, BootstrapFailsEffect, ConnectFailsEffect, TryFailsEffect DEF Back
  <2> QED
    BY <1>2, <1>4, <2>1, <2>2, <2>3, <2>4, <2>5 DEF Connect, Send
<1> QED
  BY <1>3, <1>4, OwnOrKept

(* A try of a call is sent once; only a try that was sent is followed by   *)
(* another, and by one.                                                    *)
LEMMA CallCases ==
  ASSUME Typed, DropFresh, LoopOnce, Next, NEW u \in Callers
  PROVE  /\ thread'[u].try = 1 => thread[u].try = 1
         /\ ~Sent(u)' => \/ ~Sent(u) /\ thread'[u].try = thread[u].try
                         \/ thread[u].try = 1 /\ thread'[u].try = 2
         /\ Register(u) /\ HasAnswer(u) /\ conn # 0 => Sent(u)' \/ thread[u].job = "init"
<1>0. /\ ThreadsTyped /\ PlaceOK(u) /\ conn \in 0..lastConn /\ u \in Threads
      /\ Purpose(u) = "call" /\ u # Loop
  BY BridgeAssumption DEF Typed, SharedTyped, Threads, Purpose, BridgeAssumption
<1>2. CASE Register(u)
  <2>1. thread[u].at = "register" /\ thread'[u].try = thread[u].try /\ ~Sent(u)
    BY <1>0, <1>2, RegisterEffect DEF Back, SameTask, Sent
  <2>2. ASSUME HasAnswer(u), conn # 0, thread[u].job # "init" PROVE Sent(u)'
    BY <1>0, <1>2, <2>2, RegisterEffect DEF Sent, HasAnswer
  <2> QED
    BY <2>1, <2>2
<1>1. CASE Kept(u) /\ ~Register(u)
  BY <1>1 DEF Kept, Sent
<1>3. CASE (Begin(u) \/ Connect(u)) /\ ~Register(u)
  <2>1. ~Sent(u)
    BY <1>3 DEF Begin, Connect, EnsureConnected, StartProcess, StartFails, Install, Sent
  <2>2. thread'[u].try = thread[u].try
    BY <1>0, <1>3, BeginEffect, EnsureEffect, StartEffect, StartFailsEffect, InstallEffect
    DEF Back, SameTask, Connect
  <2> QED
    BY <1>3, <2>1, <2>2
<1>4. CASE Write(u) /\ ~Register(u)
  <2>1. thread[u].job # "drop"
    BY <1>0, <1>4 DEF Write, PlaceOK
  <2> QED
    BY <1>0, <1>4, <2>1, WriteEffect DEF Back, SameTask, Sent
<1>5. CASE (WriteFails(u) \/ Dropped(u)) /\ ~Register(u)
  BY <1>0, <1>5, WriteFailsEffect, DroppedEffect DEF SameTask, Sent
<1>6. CASE (Receive(u) \/ TimeOut(u)) /\ ~Register(u)
  BY <1>0, <1>6, ReceiveEffect, TimeOutEffect DEF Back, SameTask, Sent
<1>7. CASE (BootstrapFails(u) \/ ConnectFails(u)) /\ ~Register(u)
  BY <1>0, <1>7, BootstrapFailsEffect, ConnectFailsEffect DEF Back, Sent
<1>8. CASE TryFails(u) /\ ~Register(u)
  BY <1>0, <1>8, TryFailsEffect DEF Back, Sent
<1> QED
  BY <1>0, <1>1, <1>2, <1>3, <1>4, <1>5, <1>6, <1>7, <1>8, OwnOrKept DEF Send

LEMMA FreshStep ==
  ASSUME Typed, DropFresh, LoopOnce, AllPendingOK, Next, NEW u \in Threads, Fresh(u)
  PROVE  Fresh(u)'
<1>0. lastConn \in Nat /\ lastConn <= MaxConns /\ ThreadsTyped /\ PlaceOK(u)
      /\ thread[u] \in Places(lastConn)
  BY DEF Typed, SharedTyped, ThreadsTyped
<1>1. ASSUME NEW r \in Requests, ~Used(r),
             \A t \in Threads : Adds(t) => r # Request(t)
      PROVE  ~Used(r)'
  BY <1>1, RequestCases DEF Shrinks, Adds, Used, Told
<1>2. ASSUME NEW c \in Conns, ~Used(<<u, 0, c>>), ~Adds(u) \/ c # thread[u].own
      PROVE  ~Used(<<u, 0, c>>)'
  <2>1. <<u, 0, c>> \in Requests
    BY DEF Requests
  <2>2. ASSUME NEW t \in Threads, Adds(t) PROVE <<u, 0, c>> # Request(t)
    <3>1. CASE t # u
      BY <3>1 DEF Request
    <3>2. CASE t = u /\ thread[u].job = "init"
      BY <1>2, <2>2, <3>2 DEF Request
    <3>3. CASE t = u /\ thread[u].job # "init"
      BY <1>0, <3>3 DEF Request, Places
    <3> QED
      BY <3>1, <3>2, <3>3
  <2> QED
    BY <1>1, <1>2, <2>1, <2>2
<1>3. ASSUME NEW k \in {1, 2}, u \in Callers, ~Used(<<u, k, 0>>),
             ~Adds(u) \/ thread[u].job = "init" \/ thread[u].try # k
      PROVE  ~Used(<<u, k, 0>>)'
  <2>1. <<u, k, 0>> \in Requests
    BY <1>3 DEF Requests
  <2>2. ASSUME NEW t \in Threads, Adds(t) PROVE <<u, k, 0>> # Request(t)
    <3>1. CASE t # u
      BY <3>1 DEF Request
    <3>2. CASE t = u /\ thread[u].job = "init"
      BY <3>2 DEF Request
    <3>3. CASE t = u /\ thread[u].job # "init"
      BY <1>3, <2>2, <3>3 DEF Request
    <3> QED
      BY <3>1, <3>2, <3>3
  <2> QED
    BY <1>1, <1>3, <2>1, <2>2
<1>4. ASSUME NEW c \in Conns, c > lastConn' PROVE ~Used(<<u, 0, c>>)'
  <2>1. lastConn' = lastConn \/ lastConn' = lastConn + 1
    BY ConnectionCases DEF StartProcess
  <2>2. c > lastConn
    BY <1>0, <1>4, <2>1 DEF Conns
  <2>3. c # thread[u].own
    BY <1>0, <2>2 DEF Places, Conns
  <2> QED
    BY <1>2, <2>2, <2>3 DEF Fresh
<1>5. ASSUME NEW c \in Conns, thread'[u].own = c, thread'[u].at = "started"
      PROVE  ~Used(<<u, 0, c>>)'
  <2>1. CASE StartProcess(u)
    <3>1. c = lastConn + 1
      BY <1>0, <1>5, <2>1, StartEffect
    <3>2. c > lastConn
      BY <1>0, <3>1
    <3>3. ~Used(<<u, 0, c>>) /\ c # thread[u].own
      BY <1>0, <3>2 DEF Fresh, Places, Conns
    <3> QED
      BY <1>2, <3>3
  <2>2. CASE thread[u].at = "started" /\ thread'[u].own = thread[u].own
    <3>1. ~Adds(u)
      BY <2>2 DEF Adds, Register
    <3> QED
      BY <1>2, <1>5, <2>2, <3>1 DEF Fresh
  <2> QED
    BY <1>5, <2>1, <2>2, StartedCases
<1>6. ASSUME NEW c \in Conns, thread'[u].own = c, thread'[u].at = "register", thread'[u].job = "init"
      PROVE  ~Used(<<u, 0, c>>)'
  <2>1. /\ \/ thread[u].at = "started"
           \/ thread[u].at = "register" /\ thread[u].job = "init"
        /\ thread'[u].own = thread[u].own
        /\ ~Adds(u)
    BY <1>6, BootstrapCases DEF Adds
  <2> QED
    BY <1>2, <1>6, <2>1 DEF Fresh
<1>7. ASSUME u \in Callers, thread'[u].try = 1 PROVE ~Used(<<u, 2, 0>>)'
  <2>1. thread[u].try = 1
    BY <1>7, CallCases
  <2> QED
    BY <1>3, <1>7, <2>1 DEF Fresh
<1>8. ASSUME NEW k \in {1, 2}, u \in Callers, thread'[u].try = k, ~Sent(u)'
      PROVE  ~Used(<<u, k, 0>>)'
  <2>1. CASE ~Sent(u) /\ thread'[u].try = thread[u].try
    <3>1. Adds(u) => thread[u].job = "init"
      BY <1>8, CallCases DEF Adds
    <3> QED
      BY <1>3, <1>8, <2>1, <3>1 DEF Fresh
  <2>2. CASE thread[u].try = 1 /\ thread'[u].try = 2
    BY <1>3, <1>8, <2>2 DEF Fresh
  <2> QED
    BY <1>8, <2>1, <2>2, CallCases
<1>9. PlaceOK(u)' /\ thread'[u] \in Places(lastConn') /\ lastConn' \in 0..MaxConns
  BY TypedStep, BridgeAssumption DEF Typed, SharedTyped, ThreadsTyped
<1>10. thread'[u].try \in {1, 2} /\ thread'[u].own \in Nat /\ thread'[u].own <= MaxConns
  BY <1>9, BridgeAssumption DEF Places, BridgeAssumption
<1>11. thread'[u].at = "started" \/ thread'[u].job = "init" => thread'[u].own \in Conns
  BY <1>9, <1>10, BridgeAssumption DEF PlaceOK, Conns, BridgeAssumption
<1>12. thread'[u].at = "started" \/ (thread'[u].at = "register" /\ thread'[u].job = "init")
       => ~Used(<<u, 0, thread[u].own>>)'
  BY <1>5, <1>6, <1>11 DEF Used, Told
<1>13. u \in Callers /\ ~Sent(u)' => ~Used(<<u, thread[u].try, 0>>)'
  BY <1>8, <1>10 DEF Used, Told
<1> QED
  BY <1>4, <1>7, <1>12, <1>13 DEF Fresh

(* The connection changes only when nothing is pending.                    *)
LEMMA PendingConn ==
  ASSUME Typed, ConnectingAlone, AllPendingOK, Next, NEW r \in pending, r \in pending'
  PROVE  conn' = conn
<1>1. conn # 0
  <2>1. r[1] \in Threads
    BY RequestSender DEF Typed, SharedTyped
  <2> QED
    BY <2>1 DEF AllPendingOK, PendingOK, Typed, PlaceOK
<1>2. ASSUME NEW t \in Threads, Install(t) PROVE conn' = conn
  BY <1>1, <1>2 DEF ConnectingAlone, Install
<1>3. ASSUME NEW left, Loses(left) PROVE conn' = conn
  BY <1>3 DEF Loses
<1>4. ASSUME NEW c \in Conns, Advances(c) PROVE conn' = conn
  BY <1>4 DEF Advances
<1> QED
  BY <1>2, <1>3, <1>4, ConnectionCases

(* A request is new when it is registered.                                 *)
LEMMA AddedIsNew ==
  ASSUME Typed, NEW t \in Threads, Fresh(t), Adds(t)
  PROVE  Request(t) \in Requests /\ ~Used(Request(t))
<1>1. thread[t].at = "register" /\ HasAnswer(t) /\ PlaceOK(t)
  BY DEF Adds, Register, Typed
<1>2. Request(t) \in Requests
  BY <1>1, RequestTyped, BridgeAssumption
<1>3. CASE thread[t].job = "init"
  BY <1>1, <1>2, <1>3 DEF Fresh, Request
<1>4. CASE thread[t].job = "call"
  <2>1. t \in Callers /\ ~Sent(t)
    BY <1>1, <1>4 DEF PlaceOK, Sent
  <2> QED
    BY <1>2, <1>4, <2>1 DEF Fresh, Request
<1> QED
  BY <1>1, <1>2, <1>3, <1>4 DEF HasAnswer

LEMMA PendingStep ==
  ASSUME Typed, ConnectingAlone, DropFresh, LoopOnce, AllPendingOK,
         \A t \in Threads : Fresh(t), Next
  PROVE  AllPendingOK'
<1> SUFFICES ASSUME NEW r \in pending' PROVE PendingOK(r)'
  BY DEF AllPendingOK
<1>1. CASE r \in pending /\ ~Told(r)' /\ channel'[r] = channel[r]
  <2>1. PICK u \in Threads : u = r[1]
    BY <1>1, RequestSender DEF Typed, SharedTyped
  <2>2. /\ thread[u].at \in {"write", "wait"} /\ HasAnswer(u)
        /\ Request(u) = r /\ channel[r] = "none" /\ thread[u].to = conn
    BY <1>1, <2>1 DEF AllPendingOK, PendingOK
  <2>3. thread'[u].at \in {"write", "wait"} /\ (SameTask(u) \/ Kept(u))
    BY <1>1, <2>1, PendingCases
  <2>4. Request(u)' = Request(u) /\ HasAnswer(u)'
    BY <2>2, <2>3, SameRequest
  <2>5. thread'[u].to = conn'
    BY <1>1, <2>2, <2>3, PendingConn DEF SameTask, Kept
  <2> QED
    BY <1>1, <2>1, <2>2, <2>3, <2>4, <2>5 DEF PendingOK
<1>2. CASE Shrinks
  BY <1>1, <1>2 DEF Shrinks
<1>3. ASSUME NEW t \in Threads, Adds(t) PROVE PendingOK(r)'
  <2>1. ~Used(Request(t))
    BY <1>3, AddedIsNew
  <2>2. \A q : Told(q)' <=> Told(q)
    BY <1>3 DEF Adds, Told
  <2>3. CASE r \in pending
    BY <1>1, <1>3, <2>2, <2>3 DEF Adds, AllPendingOK, PendingOK
  <2>4. CASE r = Request(t)
    <3>1. /\ thread'[t].at = "write" /\ thread'[t].to = conn
          /\ thread'[t].job = thread[t].job
          /\ thread'[t].try = thread[t].try
          /\ thread'[t].own = thread[t].own
      BY <1>3, RegisterEffect DEF Adds, Typed, SharedTyped
    <3>2. Request(t)' = r /\ HasAnswer(t)' /\ r[1] = t
      BY <1>3, <2>4, <3>1, RequestSender DEF Request, HasAnswer, Adds
    <3>3. channel'[r] = "none" /\ ~Told(r)' /\ conn' = conn
      BY <1>3, <2>1, <2>2, <2>4 DEF Adds, Used
    <3> QED
      BY <3>1, <3>2, <3>3 DEF PendingOK
  <2> QED
    BY <1>3, <2>3, <2>4 DEF Adds
<1> QED
  BY <1>2, <1>3, RequestCases

LEMMA ReachedStep ==
  ASSUME Typed, DropFresh, LoopOnce, AllPendingOK, Next, NEW u \in Threads, Reached(u)
  PROVE  Reached(u)'
<1> SUFFICES ASSUME thread'[u].at \in {"write", "wait"}, HasAnswer(u)'
             PROVE  Used(Request(u))'
  BY DEF Reached
<1>1. PICK r : r = Request(u)
  OBVIOUS
<1>2. CASE /\ thread[u].at \in {"write", "wait"} /\ (SameTask(u) \/ Kept(u))
           /\ ~TimeOut(u) /\ ~WriteFails(u)
  <2>1. Request(u)' = r /\ HasAnswer(u)
    BY <1>1, <1>2, SameRequest
  <2>2. Used(r) /\ r \in Requests
    BY <1>1, <1>2, <2>1, RequestTyped, BridgeAssumption DEF Reached
  <2>3. ASSUME NEW t \in Threads, r = Request(t) PROVE t = u
    BY <1>1, <2>3 DEF Request
  <2>4. Used(r)'
    BY <1>2, <2>2, <2>3, UsedStays
  <2> QED
    BY <2>1, <2>4 DEF Used, Told
<1>3. CASE /\ Register(u) /\ conn # 0
           /\ Request(u)' = Request(u) /\ (HasAnswer(u)' <=> HasAnswer(u))
  <2>1. r \in pending' /\ Request(u)' = r
    BY <1>1, <1>3 DEF Register
  <2> QED
    BY <2>1 DEF Used
<1> QED
  BY <1>2, <1>3, SenderCases

-----------------------------------------------------------------------------
(* The inductive invariant.                                                *)

BridgeInv ==
  /\ Typed
  /\ ConnectingAlone
  /\ DropFresh
  /\ LoopOnce
  /\ ProcessKnown
  /\ AllPendingOK
  /\ \A t \in Threads : Fresh(t) /\ Reached(t)

LEMMA BridgeInit ==
  ASSUME Init PROVE BridgeInv
<1>1. Typed
  BY TypedInit, BridgeAssumption
<1>2. \A t \in Threads : thread[t].at = "idle" /\ thread[t].try = 1
  BY DEF Init
<1>3. \A c \in Conns : drop[c].at = "none" /\ drop[c].told = {} /\ drop[c].loop = FALSE
  BY DEF Init
<1>4. ConnectingAlone
  BY <1>2 DEF ConnectingAlone
<1>5. DropFresh
  BY <1>2, <1>3 DEF DropFresh
<1>6. LoopOnce
  BY <1>2, <1>3 DEF LoopOnce, LoopDue, Threads
<1>7. ProcessKnown
  BY DEF Init, ProcessKnown, Live
<1>8. AllPendingOK
  BY DEF Init, AllPendingOK
<1>9. ASSUME NEW r \in Requests PROVE ~Used(r)
  BY <1>3, <1>9 DEF Init, Used, Told
<1>10. ASSUME NEW t \in Threads PROVE Fresh(t)
  <2>1. \A c \in Conns : ~Used(<<t, 0, c>>)
    BY <1>9 DEF Requests
  <2>2. t \in Callers => \A k \in {1, 2} : ~Used(<<t, k, 0>>)
    BY <1>9 DEF Requests
  <2> QED
    BY <1>2, <2>1, <2>2 DEF Fresh
<1>11. \A t \in Threads : Reached(t)
  BY <1>2 DEF Reached
<1> QED
  BY <1>1, <1>4, <1>5, <1>6, <1>7, <1>8, <1>10, <1>11 DEF BridgeInv

LEMMA BridgeStep ==
  ASSUME BridgeInv, [Next]_vars PROVE BridgeInv'
<1>1. CASE Next
  <2>1. Typed'
    BY TypedStep, BridgeAssumption DEF BridgeInv
  <2>2. ConnectingAlone' /\ DropFresh' /\ LoopOnce' /\ ProcessKnown'
    BY <1>1, AloneStep, DropStep, LoopStep, ProcessStep DEF BridgeInv
  <2>3. AllPendingOK'
    BY <1>1, PendingStep DEF BridgeInv
  <2>4. ASSUME NEW t \in Threads PROVE Fresh(t)' /\ Reached(t)'
    BY <1>1, <2>4, FreshStep, ReachedStep DEF BridgeInv
  <2> QED
    BY <2>1, <2>2, <2>3, <2>4 DEF BridgeInv
<1>2. CASE UNCHANGED vars
  <2>1. Typed'
    BY TypedStep, BridgeAssumption DEF BridgeInv
  <2>2. ConnectingAlone' /\ DropFresh' /\ LoopOnce' /\ ProcessKnown'
    BY <1>2
    DEF vars, bridgeVars, processVars, BridgeInv, ConnectingAlone, DropFresh, LoopOnce, LoopDue,
        ProcessKnown, Live, Doomed
  <2>3. AllPendingOK'
    BY <1>2 DEF vars, bridgeVars, BridgeInv, AllPendingOK, PendingOK, Request, HasAnswer, Told
  <2>4. ASSUME NEW t \in Threads PROVE Fresh(t)'
    BY <1>2, <2>4 DEF vars, bridgeVars, processVars, BridgeInv, Fresh, Used, Told, Sent
  <2>5. ASSUME NEW t \in Threads PROVE Reached(t)'
    BY <1>2, <2>5 DEF vars, BridgeInv, Reached, Used, Told, Request, HasAnswer
  <2> QED
    BY <2>1, <2>2, <2>3, <2>4, <2>5 DEF BridgeInv
<1> QED
  BY <1>1, <1>2

LEMMA BridgeInductive == Spec => []BridgeInv
<1>1. Init => BridgeInv
  BY BridgeInit
<1>2. BridgeInv /\ [Next]_vars => BridgeInv'
  BY BridgeStep
<1> QED
  BY <1>1, <1>2, PTL DEF Spec

(* An answer is never looked up for a connection that is gone: a request   *)
(* is in the map pending only as long as its sender waits for it on the    *)
(* connection the bridge has (PendingCurrent).                             *)
THEOREM PendingIsCurrent == Spec => []PendingCurrent
<1>1. BridgeInv => PendingCurrent
  BY DEF BridgeInv, AllPendingOK, PendingOK, PendingCurrent
<1> QED
  BY <1>1, BridgeInductive, PTL

(* No goroutine waits in vain for an answer: its request is pending, its   *)
(* channel is filled, or handleProcessDrop or Close is about to tell it    *)
(* that the connection is lost (NobodyForgotten).                          *)
THEOREM NobodyIsForgotten == Spec => []NobodyForgotten
<1>1. ASSUME BridgeInv, NEW t \in Threads, thread[t].at = "wait"
      PROVE  Used(Request(t))
  BY <1>1 DEF BridgeInv, Typed, PlaceOK, Reached
<1>2. BridgeInv => NobodyForgotten
  BY <1>1 DEF NobodyForgotten, Used, Told
<1> QED
  BY <1>2, BridgeInductive, PTL

(* The bridge never has two processes of codex running, nor two goroutines *)
(* that reconnect, nor a process that nobody knows, however connecting,    *)
(* losing the connection and Close overlap (OneAtATime).                   *)
THEOREM OneProcessAtATime == Spec => []OneAtATime
<1>1. BridgeInv => OneProcess
  BY KnownImpliesOneProcess DEF BridgeInv
<1>2. BridgeInv => OneLoop
  BY DEF BridgeInv, LoopOnce, LoopDue, OneLoop
<1> QED
  BY <1>1, <1>2, BridgeInductive, PTL DEF OneAtATime
=============================================================================
