------------------------ MODULE WorkspaceStore_proofs ------------------------
(***************************************************************************)
(* Proofs about the workspace store: what is stored stays, what is removed *)
(* stays removed, and the history says what was recorded, for any number   *)
(* of requests, workspaces, runs, crashes and writes that fail.            *)
(***************************************************************************)
EXTENDS WorkspaceStore, TLAPS

-----------------------------------------------------------------------------
\* A request past the lock of its workspace.
Writing(j) == j.op \in {"save", "run", "put", "post", "delete"} /\ j.pc # "lock"

\* A request whose workspace nobody can know yet.
Making(j) == j.op \in {"create", "import"} /\ j.pc \in {"store", "rename"}

\* A request that has seen, under the lock, that the directory is there.
Inside(j) == j.op \in {"save", "run", "put", "post"} /\ j.pc \notin {"lock", "check"}

\* A request that has stored a result, or that says there is one.
HasResult(j) ==
  \/ j.op = "post" /\ j.cached
  \/ j.op = "put" /\ j.pc = "done"
  \/ j.op = "run" /\ j.cached /\ j.pc \in {"append", "rest", "done"}

\* The history h has a record of run r, though a fragment may precede it.
HasRecord(h, r) ==
  \E i \in DOMAIN h :
    /\ h[i].run = r
    /\ \/ h[i].part = "whole"
       \/ h[i].part = "head" /\ i < Len(h) /\ h[i + 1] = [h[i] EXCEPT !.part = "tail"]

\* What job[t] says of the workspace it is about.
JobIsSound(t) ==
  LET j == job[t]
      w == j.ws
  IN job[t] # Idle =>
     /\ w \in used
     /\ Writing(j) => lock[w] = t
     /\ Making(j) => def[w] = "none" /\ w \notin doomed /\ (j.pc = "rename" => dir[w])
     /\ Inside(j) => dir[w]
     /\ j.op = "delete" /\ j.pc \in {"remove", "done"} => w \in doomed
     /\ j.op = "delete" /\ j.pc = "done" => ~dir[w]
     /\ HasResult(j) =>
          \/ j.run \in results[w] \/ w \in doomed
          \/ j.op = "post" /\ <<w, j.run>> \in ahead
     /\ j.op \in {"run", "post"} /\ j.pc = "rest" =>
          \/ w \in doomed \cup raced
          \/ /\ log[w] # <<>>
             /\ log[w][Len(log[w])] = [run |-> j.run, cached |-> j.cached, part |-> "head"]
     /\ j.op \in {"run", "post"} /\ j.pc = "done" =>
          w \in doomed \cup raced \/ HasRecord(log[w], j.run)

\* A workspace that is being made is nobody else's.
Apart ==
  \A t, u \in Handlers :
    t # u /\ job[t] # Idle /\ job[u] # Idle /\ Making(job[t]) => job[t].ws # job[u].ws

\* What the history of a workspace says.
LogIsSound(w) ==
  /\ w \notin doomed =>
       \A i \in DOMAIN log[w] :
         log[w][i].run \in Runs /\ log[w][i].cached =>
           log[w][i].run \in results[w] \/ <<w, log[w][i].run>> \in ahead
  /\ w \notin doomed \cup raced =>
       \A r \in Runs : <<w, r>> \in acked => HasRecord(log[w], r)

\* Nothing lies outside a directory, and what is stored stays until it is removed.
DiskIsSound(w) ==
  /\ w \notin used => ~dir[w] /\ w \notin doomed
  /\ ~dir[w] => Items(w) = {}
  /\ w \in gone => ~dir[w] /\ w \in doomed
  /\ w \in born \ doomed => dir[w] /\ def[w] = "whole"

\* The inductive invariant.
StoreInv ==
  /\ StoreTypeOK
  /\ \A t \in Handlers : JobIsSound(t)
  /\ Apart
  /\ \A w \in WorkspaceIds : DiskIsSound(w) /\ LogIsSound(w)

-----------------------------------------------------------------------------
(***************************************************************************)
(* Histories.                                                              *)
(***************************************************************************)

\* What is appended leaves the records that are there.
LEMMA RecordsStay ==
  ASSUME NEW h \in Seq(Piece), NEW p \in Piece, NEW r, HasRecord(h, r)
  PROVE  HasRecord(Append(h, p), r)
<1> DEFINE g == Append(h, p)
<1>1. /\ Len(g) = Len(h) + 1 /\ Len(h) \in Nat /\ DOMAIN g = 1..Len(h) + 1 /\ DOMAIN h = 1..Len(h)
      /\ \A i \in 1..Len(h) : g[i] = h[i]
  OBVIOUS
<1> HIDE DEF g
<1>2. PICK i \in 1..Len(h) :
        /\ h[i].run = r
        /\ \/ h[i].part = "whole"
           \/ h[i].part = "head" /\ i < Len(h) /\ h[i + 1] = [h[i] EXCEPT !.part = "tail"]
  BY <1>1 DEF HasRecord
<1>3. i \in DOMAIN g /\ g[i] = h[i] /\ i < Len(h) => i < Len(g) /\ g[i + 1] = h[i + 1]
  BY <1>1
<1>4. i \in DOMAIN g /\ g[i] = h[i]
  BY <1>1
<1>5. HasRecord(g, r)
  BY <1>2, <1>3, <1>4 DEF HasRecord
<1> QED BY <1>5 DEF g

\* A record that is written whole is there.
LEMMA WholeIsRecord ==
  ASSUME NEW h \in Seq(Piece), NEW p \in Piece, p.part = "whole"
  PROVE  HasRecord(Append(h, p), p.run)
<1> DEFINE g == Append(h, p)
<1>1. Len(h) + 1 \in DOMAIN g /\ g[Len(h) + 1] = p
  OBVIOUS
<1> HIDE DEF g
<1>2. HasRecord(g, p.run)
  BY <1>1 DEF HasRecord
<1> QED BY <1>2 DEF g

\* A record whose rest follows its head is there.
LEMMA RestIsRecord ==
  ASSUME NEW h \in Seq(Piece), NEW r \in Runs, NEW cached \in BOOLEAN, h # <<>>,
         h[Len(h)] = [run |-> r, cached |-> cached, part |-> "head"]
  PROVE  HasRecord(Append(h, [run |-> r, cached |-> cached, part |-> "tail"]), r)
<1> DEFINE p == [run |-> r, cached |-> cached, part |-> "tail"]
           g == Append(h, p)
           n == Len(h)
<1>1. p \in Piece
  BY DEF Piece
<1>2. n \in Nat /\ n > 0
  OBVIOUS
<1>3. Len(g) = n + 1 /\ DOMAIN g = 1..n + 1 /\ g[n] = h[n] /\ g[n + 1] = p
  BY <1>1, <1>2
<1>4. g[n].run = r /\ g[n].part = "head" /\ g[n + 1] = [g[n] EXCEPT !.part = "tail"]
  BY <1>3
<1> HIDE DEF g, n
<1>5. n \in DOMAIN g /\ n < Len(g)
  BY <1>2, <1>3
<1>6. HasRecord(g, r)
  BY <1>4, <1>5 DEF HasRecord
<1> QED BY <1>6 DEF g

\* An empty history has no record.
LEMMA NoRecord == ASSUME NEW r PROVE ~HasRecord(<<>>, r)
  BY DEF HasRecord

-----------------------------------------------------------------------------
(***************************************************************************)
(* Jobs.                                                                   *)
(***************************************************************************)
Places(op) ==
  CASE op = "create" -> {"store", "rename", "done"}
    [] op = "import" -> {"store", "rename", "history", "attach", "done"}
    [] op = "save" -> {"lock", "check", "store", "rename", "done"}
    [] op \in {"run", "put", "post"} -> {"lock", "check", "result", "append", "rest", "done"}
    [] op = "delete" -> {"lock", "check", "remove", "done"}
Ops == {"create", "import", "save", "run", "put", "post", "delete"}

LEMMA JobFields ==
  ASSUME NEW j \in Jobs, j # Idle
  PROVE  /\ j.op \in Ops /\ j.ws \in WorkspaceIds /\ j.pc \in Places(j.op)
         /\ j.op \in {"run", "put", "post"} => j.run \in Runs /\ j.cached \in BOOLEAN
         /\ j.op = "delete" => j.todo \in SUBSET Item
  BY DEF Jobs, Idle, Places, Ops

\* The same job, at another place.
LEMMA Moved ==
  ASSUME NEW j \in Jobs, j # Idle, NEW pc \in Places(j.op)
  PROVE  LET q == [j EXCEPT !.pc = pc]
         IN /\ q \in Jobs /\ q # Idle /\ q.op = j.op /\ q.ws = j.ws /\ q.pc = pc
            /\ j.op \in {"run", "put", "post"} => q.run = j.run /\ q.cached = j.cached
            /\ j.op = "delete" => q.todo = j.todo
<1>1. CASE j.op = "create"
  <2>1. j \in [op: {"create"}, ws: WorkspaceIds, pc: {"store", "rename", "done"}]
    BY <1>1 DEF Jobs, Idle
  <2> QED BY <1>1, <2>1 DEF Jobs, Idle, Places
<1>2. CASE j.op = "import"
  <2>1. j \in [op: {"import"}, ws: WorkspaceIds, pc: {"store", "rename", "history", "attach", "done"}]
    BY <1>2 DEF Jobs, Idle
  <2> QED BY <1>2, <2>1 DEF Jobs, Idle, Places
<1>3. CASE j.op = "save"
  <2>1. j \in [op: {"save"}, ws: WorkspaceIds, pc: {"lock", "check", "store", "rename", "done"}]
    BY <1>3 DEF Jobs, Idle
  <2> QED BY <1>3, <2>1 DEF Jobs, Idle, Places
<1>4. CASE j.op \in {"run", "put", "post"}
  <2>1. j \in [op: {"run", "put", "post"}, ws: WorkspaceIds, run: Runs, cached: BOOLEAN,
               pc: {"lock", "check", "result", "append", "rest", "done"}]
    BY <1>4 DEF Jobs, Idle
  <2> QED BY <1>4, <2>1 DEF Jobs, Idle, Places
<1>5. CASE j.op = "delete"
  <2>1. j \in [op: {"delete"}, ws: WorkspaceIds, todo: SUBSET Item, pc: {"lock", "check", "remove", "done"}]
    BY <1>5 DEF Jobs, Idle
  <2> QED BY <1>5, <2>1 DEF Jobs, Idle, Places
<1> QED BY JobFields, <1>1, <1>2, <1>3, <1>4, <1>5 DEF Ops

\* t is where Goto has brought it, and the others are where they were.
Went(t, pc) ==
  LET j == job[t]
      q == job'[t]
  IN /\ job' \in [Handlers -> Jobs]
     /\ \A u \in Handlers \ {t} : job'[u] = job[u]
     /\ q # Idle /\ q.op = j.op /\ q.ws = j.ws /\ q.pc = pc
     /\ j.op \in {"run", "put", "post"} => q.run = j.run /\ q.cached = j.cached

LEMMA GotoStep ==
  ASSUME StoreTypeOK, NEW t \in Handlers, job[t] # Idle, NEW pc \in Places(job[t].op), Goto(t, pc)
  PROVE  Went(t, pc)
<1>1. job \in [Handlers -> Jobs] /\ job[t] \in Jobs
  BY DEF StoreTypeOK
<1> DEFINE q == [job[t] EXCEPT !.pc = pc]
<1>2. /\ q \in Jobs /\ q # Idle /\ q.op = job[t].op /\ q.ws = job[t].ws /\ q.pc = pc
      /\ job[t].op \in {"run", "put", "post"} => q.run = job[t].run /\ q.cached = job[t].cached
  BY <1>1, Moved
<1>3. job' = [job EXCEPT ![t] = q]
  BY DEF Goto
<1> HIDE DEF q
<1>4. job'[t] = q /\ job' \in [Handlers -> Jobs] /\ \A u \in Handlers \ {t} : job'[u] = job[u]
  BY <1>1, <1>2, <1>3
<1> QED BY <1>2, <1>4 DEF Went

\* t is done, and holds no lock.
Left(t) ==
  /\ job' \in [Handlers -> Jobs] /\ job'[t] = Idle
  /\ \A u \in Handlers \ {t} : job'[u] = job[u]
  /\ lock' \in [WorkspaceIds -> Handlers \cup {Free}]
  /\ \A w \in WorkspaceIds : lock[w] # t => lock'[w] = lock[w]

LEMMA ReturnStep ==
  ASSUME StoreTypeOK, NEW t \in Handlers, Return(t)
  PROVE  Left(t)
<1>1. Idle \in Jobs
  BY DEF Jobs
<1> QED BY <1>1 DEF StoreTypeOK, Return, Left

-----------------------------------------------------------------------------
(***************************************************************************)
(* What a step of one thread leaves alone.                                 *)
(***************************************************************************)

\* Workspace w is as it was, but that a client may send more records for it.
SameAt(w) ==
  /\ dir'[w] = dir[w] /\ def'[w] = def[w] /\ log'[w] = log[w]
  /\ results'[w] = results[w] /\ tmp'[w] = tmp[w]
  /\ w \in born' <=> w \in born
  /\ w \in doomed' <=> w \in doomed
  /\ w \in gone' <=> w \in gone
  /\ w \in raced' <=> w \in raced
  /\ \A r \in Runs : <<w, r>> \in acked' <=> <<w, r>> \in acked
  /\ \A r \in Runs : <<w, r>> \in ahead => <<w, r>> \in ahead'

\* A thread other than t is past the lock of workspace w.
Guarded(t, w) ==
  \E u \in Handlers \ {t} : job[u] # Idle /\ Writing(job[u]) /\ job[u].ws = w

\* A step of t: the locks of the others hold, and what they guard is left alone,
\* but for the history that an import replaces.
Beside(t) ==
  /\ \A u \in Handlers \ {t} : job'[u] = job[u]
  /\ used \subseteq used' /\ doomed \subseteq doomed' /\ raced \subseteq raced'
  /\ \A w \in WorkspaceIds :
       /\ Guarded(t, w) =>
            /\ lock'[w] = lock[w] /\ dir'[w] = dir[w]
            /\ log'[w] = log[w] \/ log[w] = <<>> \/ w \in raced'
       /\ results[w] \subseteq results'[w] \/ w \in doomed'
       /\ \A r \in Runs : <<w, r>> \in ahead => <<w, r>> \in ahead' \/ r \in results'[w] \/ w \in doomed'
       /\ job[t] = Idle \/ job[t].ws # w => SameAt(w)

\* t goes on with its workspace, or begins with one that nobody is making.
OnItsOwn(t) ==
  job'[t] # Idle =>
    \/ /\ job[t] # Idle /\ job'[t].ws = job[t].ws
       /\ Making(job'[t]) => Making(job[t])
    \/ \A u \in Handlers \ {t} :
         job[u] # Idle /\ (Making(job[u]) \/ Making(job'[t])) => job[u].ws # job'[t].ws

LEMMA OthersStay ==
  ASSUME StoreInv, NEW t \in Handlers, NEW u \in Handlers \ {t}, Beside(t)
  PROVE  JobIsSound(u)'
<1> SUFFICES ASSUME job[u] # Idle PROVE JobIsSound(u)'
  BY DEF JobIsSound, Beside
<1> PICK j : j = job[u]
  OBVIOUS
<1> PICK w : w = j.ws
  OBVIOUS
<1>1. /\ w \in WorkspaceIds /\ j.op \in Ops /\ j.pc \in Places(j.op)
      /\ JobIsSound(u) /\ j # Idle
  BY JobFields DEF StoreInv, StoreTypeOK
<1>2. job'[u] = j
  BY DEF Beside
<1>3. w \in used'
  BY <1>1 DEF JobIsSound, Beside
<1>4. Writing(j) => lock'[w] = u /\ lock[w] = u
  BY <1>1 DEF JobIsSound, Beside, Guarded
<1>5. Making(j) => def'[w] = "none" /\ w \notin doomed' /\ (j.pc = "rename" => dir'[w])
  <2> SUFFICES ASSUME Making(j) PROVE def'[w] = "none" /\ w \notin doomed' /\ (j.pc = "rename" => dir'[w])
    OBVIOUS
  <2>1. job[t] = Idle \/ job[t].ws # w
    BY DEF StoreInv, Apart
  <2>2. SameAt(w)
    BY <1>1, <2>1 DEF Beside
  <2> QED BY <1>1, <2>2 DEF JobIsSound, SameAt
<1>6. Writing(j) =>
        dir'[w] = dir[w] /\ (log'[w] = log[w] \/ log[w] = <<>> \/ w \in raced')
  BY <1>1, <1>4 DEF Beside, Guarded
<1>7. Inside(j) => dir'[w]
  BY <1>1, <1>6 DEF JobIsSound, Inside, Writing
<1>8. /\ j.op = "delete" /\ j.pc \in {"remove", "done"} => w \in doomed'
      /\ j.op = "delete" /\ j.pc = "done" => ~dir'[w]
  BY <1>1, <1>6 DEF JobIsSound, Writing, Beside
<1>9. HasResult(j) =>
        \/ j.run \in results'[w] \/ w \in doomed'
        \/ j.op = "post" /\ <<w, j.run>> \in ahead'
  <2>1. HasResult(j) => j.run \in Runs
    BY JobFields DEF HasResult, StoreInv, StoreTypeOK
  <2> QED BY <1>1, <2>1 DEF JobIsSound, Beside
<1>10. j.op \in {"run", "post"} /\ j.pc = "rest" =>
         \/ w \in doomed' \cup raced'
         \/ /\ log'[w] # <<>>
            /\ log'[w][Len(log'[w])] = [run |-> j.run, cached |-> j.cached, part |-> "head"]
  BY <1>1, <1>6 DEF JobIsSound, Writing, Beside
<1>11. j.op \in {"run", "post"} /\ j.pc = "done" =>
         w \in doomed' \cup raced' \/ HasRecord(log'[w], j.run)
  BY <1>1, <1>6, NoRecord DEF JobIsSound, Writing, Beside
<1> QED
  BY <1>2, <1>3, <1>4, <1>5, <1>7, <1>8, <1>9, <1>10, <1>11 DEF JobIsSound

LEMMA StaysApart ==
  ASSUME StoreInv, NEW t \in Handlers, Beside(t), OnItsOwn(t)
  PROVE  Apart'
<1> SUFFICES ASSUME NEW x \in Handlers, NEW y \in Handlers, x # y,
                    job'[x] # Idle, job'[y] # Idle, Making(job'[x])
             PROVE  job'[x].ws # job'[y].ws
  BY DEF Apart, Making
<1>1. CASE x # t /\ y # t
  BY <1>1 DEF StoreInv, Apart, Beside
<1>2. CASE x = t
  BY <1>2 DEF StoreInv, Apart, Beside, OnItsOwn
<1>3. CASE y = t
  BY <1>3 DEF StoreInv, Apart, Beside, OnItsOwn
<1> QED BY <1>1, <1>2, <1>3

LEMMA DiskStays ==
  ASSUME NEW w \in WorkspaceIds, DiskIsSound(w), LogIsSound(w), SameAt(w), used \subseteq used'
  PROVE  (DiskIsSound(w) /\ LogIsSound(w))'
<1>1. DiskIsSound(w)'
  BY DEF DiskIsSound, SameAt, Items
<1>2. LogIsSound(w)'
  BY DEF LogIsSound, SameAt
<1> QED BY <1>1, <1>2

\* A step of t on workspace w keeps the invariant when it keeps what is said of
\* t and of w.
LEMMA StepKeeps ==
  ASSUME StoreInv, NEW t \in Handlers, job[t] # Idle, NEW w \in WorkspaceIds, w = job[t].ws,
         StoreTypeOK', Beside(t), OnItsOwn(t), JobIsSound(t)', DiskIsSound(w)', LogIsSound(w)'
  PROVE  StoreInv'
<1>1. \A u \in Handlers : JobIsSound(u)'
  BY OthersStay
<1>2. ASSUME NEW v \in WorkspaceIds PROVE (DiskIsSound(v) /\ LogIsSound(v))'
  <2>1. CASE v = w
    BY <2>1
  <2>2. CASE v # w
    BY <2>2, DiskStays DEF StoreInv, Beside
  <2> QED BY <2>1, <2>2
<1> QED BY <1>1, <1>2, StaysApart DEF StoreInv

LEMMA QuietDisk ==
  ASSUME UNCHANGED <<disk, ghosts>>
  PROVE  \A w \in WorkspaceIds : SameAt(w)
  BY DEF disk, ghosts, SameAt

-----------------------------------------------------------------------------
(***************************************************************************)
(* Requests arrive.                                                        *)
(***************************************************************************)

\* A job before its first step.
AtTheStart(j) ==
  \/ j.op \in {"create", "import"} /\ j.pc = "store"
  \/ j.op \in {"save", "delete", "run", "put", "post"} /\ j.pc = "lock"

\* What is known of the runs whose record has begun to be sent.
AheadGrows == ahead \subseteq ahead' /\ ahead' \subseteq WorkspaceIds \X Runs

LEMMA BeginKeeps ==
  ASSUME StoreInv, NEW t \in Handlers, NEW j \in Jobs, j # Idle, AtTheStart(j), Begin(t, j),
         UNCHANGED <<born, acked, doomed, gone, raced>>, AheadGrows,
         j.op = "post" /\ j.cached => <<j.ws, j.run>> \in ahead',
         used \subseteq used', used' \subseteq WorkspaceIds \cup Runs, j.ws \in used',
         Making(j) => def[j.ws] = "none" /\ j.ws \notin doomed,
         \A u \in Handlers \ {t} :
           job[u] # Idle /\ (Making(job[u]) \/ Making(j)) => job[u].ws # j.ws
  PROVE  StoreInv'
<1>1. job' = [job EXCEPT ![t] = j] /\ job[t] = Idle /\ UNCHANGED <<disk, lock, bounds>>
  BY DEF Begin
<1>2. job' \in [Handlers -> Jobs] /\ job'[t] = j /\ \A u \in Handlers \ {t} : job'[u] = job[u]
  BY <1>1 DEF StoreInv, StoreTypeOK
<1>3. StoreTypeOK'
  BY <1>1, <1>2 DEF StoreInv, StoreTypeOK, AheadGrows, disk, bounds
<1>4. \A w \in WorkspaceIds : SameAt(w)
  BY <1>1 DEF SameAt, AheadGrows, disk
<1>5. Beside(t)
  BY <1>1, <1>2, <1>4 DEF Beside, AheadGrows, disk
<1>6. OnItsOwn(t)
  BY <1>2 DEF OnItsOwn
<1>7. JobIsSound(t)'
  BY <1>1, <1>2 DEF JobIsSound, AtTheStart, Making, Writing, Inside, HasResult, disk
<1>8. \A u \in Handlers : JobIsSound(u)'
  BY <1>5, <1>7, OthersStay
<1>9. \A w \in WorkspaceIds : (DiskIsSound(w) /\ LogIsSound(w))'
  BY <1>4, DiskStays DEF StoreInv
<1> QED BY <1>3, <1>5, <1>6, <1>8, <1>9, StaysApart DEF StoreInv

\* A workspace that is known is used, and nobody is making it.
LEMMA KnownIsMade ==
  ASSUME StoreInv, NEW w \in WorkspaceIds, KnownWorkspace(w)
  PROVE  /\ w \in used
         /\ \A u \in Handlers : job[u] # Idle /\ Making(job[u]) => job[u].ws # w
<1>1. w \in used
  BY DEF StoreInv, DiskIsSound, Items, KnownWorkspace
<1>2. \A u \in Handlers : job[u] # Idle /\ Making(job[u]) => job[u].ws # w
  BY DEF StoreInv, JobIsSound, KnownWorkspace
<1> QED BY <1>1, <1>2

LEMMA ArriveInv ==
  ASSUME StoreInv, NEW t \in Handlers, Arrive(t)
  PROVE  StoreInv'
<1>1. PICK w \in WorkspaceIds :
        \/ \E op \in {"create", "import"} : BeginNew(t, op, w)
        \/ BeginSave(t, w)
        \/ BeginDelete(t, w)
        \/ \E r \in Runs :
             \/ BeginPush(t, w, r) \/ BeginPut(t, w, r)
             \/ \E cache \in BOOLEAN : BeginRun(t, w, r, cache) \/ BeginPost(t, w, r, cache)
  BY DEF Arrive
<1>2. used \in SUBSET (WorkspaceIds \cup Runs) /\ (UNCHANGED ghosts => AheadGrows)
  BY DEF StoreInv, StoreTypeOK, AheadGrows, ghosts
<1>3. ASSUME NEW op \in {"create", "import"}, BeginNew(t, op, w) PROVE StoreInv'
  <2> DEFINE j == [op |-> op, ws |-> w, pc |-> "store"]
  <2>1. j \in Jobs /\ j # Idle /\ AtTheStart(j) /\ j.ws = w /\ j.op # "post"
    BY DEF Jobs, Idle, AtTheStart
  <2>2. w \notin used /\ Begin(t, j) /\ used' = used \cup {w} /\ UNCHANGED ghosts
    BY <1>3 DEF BeginNew
  <2>3. def[w] = "none" /\ w \notin doomed
    BY <2>2 DEF StoreInv, DiskIsSound, Items
  <2>4. \A u \in Handlers : job[u] # Idle => job[u].ws # w
    BY <2>2 DEF StoreInv, JobIsSound
  <2> HIDE DEF j
  <2> QED BY <1>2, <2>1, <2>2, <2>3, <2>4, BeginKeeps DEF ghosts
<1>4. ASSUME NEW j \in Jobs, j # Idle, AtTheStart(j), ~Making(j), j.ws = w, KnownWorkspace(w), Begin(t, j),
             UNCHANGED <<born, acked, doomed, gone, raced>>, AheadGrows,
             j.op = "post" /\ j.cached => <<w, j.run>> \in ahead',
             used \subseteq used', used' \subseteq WorkspaceIds \cup Runs
      PROVE  StoreInv'
  BY <1>4, KnownIsMade, BeginKeeps
<1>5. CASE BeginSave(t, w)
  <2> DEFINE j == [op |-> "save", ws |-> w, pc |-> "lock"]
  <2>1. j \in Jobs /\ j # Idle /\ AtTheStart(j) /\ ~Making(j) /\ j.ws = w /\ j.op # "post"
    BY DEF Jobs, Idle, AtTheStart, Making
  <2>2. KnownWorkspace(w) /\ Begin(t, j) /\ used' = used /\ UNCHANGED ghosts
    BY <1>5 DEF BeginSave
  <2> HIDE DEF j
  <2> QED BY <1>2, <1>4, <2>1, <2>2 DEF ghosts
<1>6. CASE BeginDelete(t, w)
  <2> DEFINE j == [op |-> "delete", ws |-> w, todo |-> {}, pc |-> "lock"]
  <2>1. j \in Jobs /\ j # Idle /\ AtTheStart(j) /\ ~Making(j) /\ j.ws = w /\ j.op # "post"
    BY DEF Jobs, Idle, AtTheStart, Making
  <2>2. KnownWorkspace(w) /\ Begin(t, j) /\ used' = used /\ UNCHANGED ghosts
    BY <1>6 DEF BeginDelete
  <2> HIDE DEF j
  <2> QED BY <1>2, <1>4, <2>1, <2>2 DEF ghosts
<1>7. ASSUME NEW r \in Runs, BeginPush(t, w, r) PROVE StoreInv'
  <2> DEFINE j == [op |-> "put", ws |-> w, run |-> r, cached |-> TRUE, pc |-> "lock"]
  <2>1. j \in Jobs /\ j # Idle /\ AtTheStart(j) /\ ~Making(j) /\ j.ws = w /\ j.op # "post"
    BY DEF Jobs, Idle, AtTheStart, Making
  <2>2. KnownWorkspace(w) /\ Begin(t, j) /\ used' = used \cup {r} /\ UNCHANGED ghosts
    BY <1>7 DEF BeginPush
  <2> HIDE DEF j
  <2> QED BY <1>2, <1>4, <2>1, <2>2 DEF ghosts
<1>8. ASSUME NEW r \in Runs, NEW cache \in BOOLEAN, BeginRun(t, w, r, cache) PROVE StoreInv'
  <2> DEFINE j == [op |-> "run", ws |-> w, run |-> r, cached |-> cache, pc |-> "lock"]
  <2>1. j \in Jobs /\ j # Idle /\ AtTheStart(j) /\ ~Making(j) /\ j.ws = w /\ j.op # "post"
    BY DEF Jobs, Idle, AtTheStart, Making
  <2>2. KnownWorkspace(w) /\ Begin(t, j) /\ used' = used \cup {r} /\ UNCHANGED ghosts
    BY <1>8 DEF BeginRun, KnownWorkspace
  <2> HIDE DEF j
  <2> QED BY <1>2, <1>4, <2>1, <2>2 DEF ghosts
<1>9. ASSUME NEW r \in Runs, NEW cache \in BOOLEAN, BeginPost(t, w, r, cache) PROVE StoreInv'
  <2> DEFINE j == [op |-> "post", ws |-> w, run |-> r, cached |-> cache, pc |-> "lock"]
  <2>1. j \in Jobs /\ j # Idle /\ AtTheStart(j) /\ ~Making(j) /\ j.ws = w
    BY DEF Jobs, Idle, AtTheStart, Making
  <2>2. /\ KnownWorkspace(w) /\ Begin(t, j) /\ used' = used \cup {r}
        /\ UNCHANGED <<born, acked, doomed, gone, raced>>
    BY <1>9 DEF BeginPost
  <2>3. AheadGrows /\ (j.cached => <<w, j.run>> \in ahead')
    BY <1>9 DEF BeginPost, AheadGrows, StoreInv, StoreTypeOK
  <2> HIDE DEF j
  <2> QED BY <1>2, <1>4, <2>1, <2>2, <2>3
<1>10. ASSUME NEW r \in Runs, BeginPut(t, w, r) PROVE StoreInv'
  <2> DEFINE j == [op |-> "put", ws |-> w, run |-> r, cached |-> TRUE, pc |-> "lock"]
  <2>1. j \in Jobs /\ j # Idle /\ AtTheStart(j) /\ ~Making(j) /\ j.ws = w /\ j.op # "post"
    BY DEF Jobs, Idle, AtTheStart, Making
  <2>2. KnownWorkspace(w) /\ Begin(t, j) /\ used' = used /\ UNCHANGED ghosts
    BY <1>10 DEF BeginPut
  <2> HIDE DEF j
  <2> QED BY <1>2, <1>4, <2>1, <2>2 DEF ghosts
<1> QED BY <1>1, <1>3, <1>5, <1>6, <1>7, <1>8, <1>9, <1>10

-----------------------------------------------------------------------------
(***************************************************************************)
(* What they do.                                                           *)
(***************************************************************************)

\* What is known of the thread that takes a step.
LEMMA Acting ==
  ASSUME StoreInv, NEW t \in Handlers, job[t] # Idle
  PROVE  /\ job[t].ws \in WorkspaceIds /\ job[t].op \in Ops /\ job[t].pc \in Places(job[t].op)
         /\ JobIsSound(t) /\ DiskIsSound(job[t].ws) /\ LogIsSound(job[t].ws)
         /\ job[t].op \in {"run", "put", "post"} => job[t].run \in Runs /\ job[t].cached \in BOOLEAN
         /\ Writing(job[t]) => lock[job[t].ws] = t
  BY JobFields DEF StoreInv, StoreTypeOK, JobIsSound

\* Who guards a workspace has its lock, and nobody else is past it or makes it.
LEMMA Guards ==
  ASSUME StoreInv, NEW t \in Handlers, NEW w \in WorkspaceIds, Guarded(t, w)
  PROVE  /\ lock[w] \in Handlers \ {t}
         /\ job[t] # Idle /\ job[t].ws = w => ~Writing(job[t]) /\ ~Making(job[t])
<1>1. PICK u \in Handlers \ {t} : job[u] # Idle /\ Writing(job[u]) /\ job[u].ws = w
  BY DEF Guarded
<1>2. lock[w] = u
  BY <1>1 DEF StoreInv, JobIsSound
<1>3. ASSUME job[t] # Idle, job[t].ws = w PROVE ~Writing(job[t]) /\ ~Making(job[t])
  <2>1. ~Writing(job[t])
    BY <1>2, <1>3 DEF StoreInv, JobIsSound
  <2>2. ~Making(job[t])
    BY <1>1, <1>3 DEF StoreInv, Apart
  <2> QED BY <2>1, <2>2
<1> QED BY <1>2, <1>3

\* Idle has no place.
LEMMA NotIdle ==
  ASSUME NEW t \in Handlers, NEW ops \in SUBSET Ops, NEW pc, At(t, ops, pc)
  PROVE  job[t] # Idle
  BY DEF At, Ops, Idle

LEMMA NoSpace ==
  ASSUME StoreInv, OutOfSpace
  PROVE  crashes' \in 0..MaxCrashes /\ failures' \in 0..MaxFailures
  BY StoreAssumption DEF OutOfSpace, StoreInv, StoreTypeOK

LEMMA FailKeeps ==
  ASSUME StoreInv, NEW t \in Handlers, job[t] # Idle, Fail(t),
         crashes' \in 0..MaxCrashes, failures' \in 0..MaxFailures
  PROVE  StoreInv'
<1>1. Left(t) /\ UNCHANGED <<disk, used, ghosts>>
  BY ReturnStep DEF Fail, StoreInv
<1>2. StoreTypeOK'
  BY <1>1 DEF StoreInv, StoreTypeOK, Left, disk, ghosts
<1>3. \A w \in WorkspaceIds : SameAt(w)
  BY <1>1, QuietDisk
<1>4. Beside(t)
  <2>1. \A v \in WorkspaceIds : Guarded(t, v) => lock'[v] = lock[v]
    BY <1>1, Guards DEF Left
  <2> QED BY <1>1, <1>3, <2>1 DEF Beside, Left, disk, ghosts
<1>5. OnItsOwn(t) /\ JobIsSound(t)'
  BY <1>1 DEF OnItsOwn, Left, JobIsSound
<1>6. \A w \in WorkspaceIds : (DiskIsSound(w) /\ LogIsSound(w))'
  BY <1>1, <1>3, DiskStays DEF StoreInv
<1> QED BY <1>2, <1>4, <1>5, <1>6, Acting, StepKeeps

\* What is left behind is in a directory that nobody takes for removed.
LEMMA FailAndLeaveKeeps ==
  ASSUME StoreInv, NEW t \in Handlers, job[t] # Idle, FailAndLeave(t),
         crashes' \in 0..MaxCrashes, failures' \in 0..MaxFailures,
         dir[job[t].ws] \/ Making(job[t])
  PROVE  StoreInv'
<1> PICK w \in WorkspaceIds : w = job[t].ws
  BY Acting
<1>1. /\ Left(t) /\ dir' = [dir EXCEPT ![w] = TRUE] /\ tmp' = [tmp EXCEPT ![w] = @ \cup {"left"}]
      /\ UNCHANGED <<def, log, results, used, ghosts>>
  BY ReturnStep DEF FailAndLeave, StoreInv
<1>2. StoreTypeOK'
  BY <1>1 DEF StoreInv, StoreTypeOK, Left, ghosts, Temporary
<1>3. dir'[w] /\ \A v \in WorkspaceIds : v # w => SameAt(v)
  BY <1>1 DEF StoreInv, StoreTypeOK, SameAt, ghosts
<1>4. ASSUME Guarded(t, w) PROVE dir'[w] = dir[w]
  <2>1. dir[w]
    BY <1>4, Guards
  <2>2. dir[w] \in BOOLEAN /\ dir'[w] \in BOOLEAN
    BY <1>2 DEF StoreInv, StoreTypeOK
  <2> QED BY <1>3, <2>1, <2>2
<1>5. \A v \in WorkspaceIds : Guarded(t, v) => lock'[v] = lock[v]
  BY <1>1, Guards DEF Left
<1>6. Beside(t)
  <2>1. \A v \in WorkspaceIds : Guarded(t, v) => dir'[v] = dir[v]
    BY <1>3, <1>4 DEF SameAt
  <2> QED BY <1>1, <1>3, <1>5, <2>1 DEF Beside, Left, ghosts
<1>7. OnItsOwn(t) /\ JobIsSound(t)'
  BY <1>1 DEF OnItsOwn, Left, JobIsSound
<1>8. DiskIsSound(w)'
  <2>1. w \notin doomed => w \notin gone
    BY DEF StoreInv, DiskIsSound
  <2>2. w \in used
    BY Acting DEF JobIsSound
  <2>3. w \notin gone
    <3>1. CASE dir[w]
      BY <3>1 DEF StoreInv, DiskIsSound
    <3>2. CASE Making(job[t])
      BY <2>1, <3>2, Acting DEF JobIsSound
    <3> QED BY <3>1, <3>2
  <2> QED BY <1>1, <1>3, <2>2, <2>3 DEF StoreInv, DiskIsSound, ghosts
<1>9. LogIsSound(w)'
  BY <1>1 DEF StoreInv, LogIsSound, ghosts
<1> QED BY <1>2, <1>6, <1>7, <1>8, <1>9, StepKeeps

\* A step that only moves t on.
LEMMA GoesOn ==
  ASSUME StoreInv, NEW t \in Handlers, job[t] # Idle, NEW pc, Went(t, pc),
         UNCHANGED <<disk, used, bounds, ghosts>>, lock' \in [WorkspaceIds -> Handlers \cup {Free}],
         \A w \in WorkspaceIds : Guarded(t, w) => lock'[w] = lock[w],
         Making(job'[t]) => Making(job[t]), JobIsSound(t)'
  PROVE  StoreInv'
<1>1. StoreTypeOK'
  BY DEF StoreInv, StoreTypeOK, Went, disk, bounds, ghosts
<1>2. \A w \in WorkspaceIds : SameAt(w)
  BY QuietDisk
<1>3. Beside(t)
  BY <1>2 DEF Beside, Went, disk, ghosts
<1>4. OnItsOwn(t)
  BY DEF OnItsOwn, Went
<1>5. \A w \in WorkspaceIds : (DiskIsSound(w) /\ LogIsSound(w))'
  BY <1>2, DiskStays DEF StoreInv
<1> QED BY <1>1, <1>3, <1>4, <1>5, Acting, StepKeeps

\* Nobody else is past the lock that is free.
LEMMA TakeInv ==
  ASSUME StoreInv, NEW t \in Handlers, Take(t)
  PROVE  StoreInv'
<1> PICK w : w = job[t].ws
  OBVIOUS
<1>1. /\ job[t] # Idle /\ job[t].pc = "lock" /\ lock[w] = Free /\ lock' = [lock EXCEPT ![w] = t]
      /\ Goto(t, "check") /\ UNCHANGED <<disk, used, bounds, ghosts>>
  BY DEF Take
<1>2. w \in WorkspaceIds /\ job[t].op \in {"save", "run", "put", "post", "delete"} /\ JobIsSound(t)
  BY <1>1, Acting DEF Places, Ops
<1>3. Went(t, "check")
  BY <1>1, <1>2, GotoStep DEF StoreInv, Places
<1>4. lock' \in [WorkspaceIds -> Handlers \cup {Free}] /\ lock'[w] = t
  BY <1>1, <1>2 DEF StoreInv, StoreTypeOK
<1>5. \A v \in WorkspaceIds : Guarded(t, v) => lock'[v] = lock[v]
  <2>1. ~Guarded(t, w)
    BY <1>1, <1>2, Guards, StoreAssumption
  <2> QED BY <1>1, <2>1 DEF StoreInv, StoreTypeOK
<1>6. JobIsSound(t)' /\ ~Making(job'[t])
  BY <1>1, <1>2, <1>3, <1>4 DEF JobIsSound, Went, Making, Inside, HasResult, disk, ghosts
<1> QED BY <1>1, <1>3, <1>4, <1>5, <1>6, GoesOn

LEMMA CheckDefinitionInv ==
  ASSUME StoreInv, NEW t \in Handlers, CheckDefinition(t)
  PROVE  StoreInv'
<1> PICK w : w = job[t].ws
  OBVIOUS
<1>1. job[t] # Idle /\ job[t].op \in {"save", "put"} /\ job[t].pc = "check" /\ UNCHANGED bounds
  BY NotIdle DEF CheckDefinition, At, Ops
<1>2. w \in WorkspaceIds /\ JobIsSound(t) /\ DiskIsSound(w) /\ Writing(job[t])
  BY <1>1, Acting DEF Writing
<1>3. CASE def[w] # "whole" /\ Fail(t)
  BY <1>1, <1>3, FailKeeps DEF StoreInv, StoreTypeOK, bounds
<1>4. ASSUME NEW pc \in Places(job[t].op), pc \in {"store", "result"}, Goto(t, pc), def[w] = "whole",
             UNCHANGED <<disk, lock, used, ghosts>>
      PROVE  StoreInv'
  <2>1. Went(t, pc)
    BY <1>1, <1>4, GotoStep DEF StoreInv
  <2>2. dir[w]
    BY <1>2, <1>4 DEF DiskIsSound, Items
  <2>3. JobIsSound(t)'
    BY <1>1, <1>2, <1>4, <2>1, <2>2 DEF JobIsSound, Went, Making, Writing, Inside, HasResult, disk, ghosts
  <2>4. ~Making(job'[t])
    BY <1>1, <2>1 DEF Went, Making
  <2>5. lock' \in [WorkspaceIds -> Handlers \cup {Free}] /\ lock' = lock
    BY <1>4 DEF StoreInv, StoreTypeOK
  <2> QED BY <1>1, <1>4, <2>1, <2>3, <2>4, <2>5, GoesOn
<1>5. CASE def[w] = "whole" /\ UNCHANGED <<disk, lock, used, ghosts>>
             /\ Goto(t, IF job[t].op = "save" THEN "store" ELSE "result")
  <2>1. CASE job[t].op = "save"
    BY <1>4, <1>5, <2>1 DEF Places
  <2>2. CASE job[t].op = "put"
    BY <1>4, <1>5, <2>2 DEF Places
  <2> QED BY <1>1, <2>1, <2>2
<1> QED BY <1>3, <1>5 DEF CheckDefinition

LEMMA CheckDirectoryInv ==
  ASSUME StoreInv, NEW t \in Handlers, CheckDirectory(t)
  PROVE  StoreInv'
<1> PICK w : w = job[t].ws
  OBVIOUS
<1>1. job[t] # Idle /\ job[t].op \in {"run", "post"} /\ job[t].pc = "check" /\ UNCHANGED bounds
  BY NotIdle DEF CheckDirectory, At, Ops
<1>2. w \in WorkspaceIds /\ JobIsSound(t) /\ Writing(job[t])
  BY <1>1, Acting DEF Writing
<1>3. CASE ~dir[w] /\ Fail(t)
  BY <1>1, <1>3, FailKeeps DEF StoreInv, StoreTypeOK, bounds
<1>4. ASSUME NEW pc \in {"result", "append"}, job[t].op = "run" /\ job[t].cached => pc = "result",
             Goto(t, pc), dir[w], UNCHANGED <<disk, lock, used, ghosts>>
      PROVE  StoreInv'
  <2>1. Went(t, pc)
    BY <1>1, <1>4, GotoStep DEF StoreInv, Places
  <2>2. JobIsSound(t)'
    BY <1>1, <1>2, <1>4, <2>1 DEF JobIsSound, Went, Making, Writing, Inside, HasResult, disk, ghosts
  <2>3. ~Making(job'[t])
    BY <1>1, <2>1 DEF Went, Making
  <2>4. lock' \in [WorkspaceIds -> Handlers \cup {Free}] /\ lock' = lock
    BY <1>4 DEF StoreInv, StoreTypeOK
  <2> QED BY <1>1, <1>4, <2>1, <2>2, <2>3, <2>4, GoesOn
<1>5. CASE dir[w] /\ UNCHANGED <<disk, lock, used, ghosts>>
             /\ Goto(t, IF job[t].op = "run" /\ job[t].cached THEN "result" ELSE "append")
  BY <1>4, <1>5
<1> QED BY <1>3, <1>5 DEF CheckDirectory

\* A step of t that changes its workspace and keeps its lock.
LEMMA WorksOn ==
  ASSUME StoreInv, NEW t \in Handlers, job[t] # Idle, NEW w \in WorkspaceIds, w = job[t].ws, StoreTypeOK',
         job'[t] # Idle, job'[t].ws = w, Making(job'[t]) => Making(job[t]),
         \A u \in Handlers \ {t} : job'[u] = job[u],
         UNCHANGED <<lock, used>>, doomed \subseteq doomed', raced \subseteq raced',
         results[w] \subseteq results'[w] \/ w \in doomed', ahead' = ahead,
         \A v \in WorkspaceIds : v # w => SameAt(v),
         \/ Writing(job[t]) \/ Making(job[t])
         \/ dir'[w] = dir[w] /\ (log'[w] = log[w] \/ log[w] = <<>> \/ w \in raced'),
         JobIsSound(t)', DiskIsSound(w)', LogIsSound(w)'
  PROVE  StoreInv'
<1>1. Guarded(t, w) => dir'[w] = dir[w] /\ (log'[w] = log[w] \/ log[w] = <<>> \/ w \in raced')
  BY Guards
<1>2. Beside(t)
  BY <1>1 DEF Beside, SameAt
<1>3. OnItsOwn(t)
  BY DEF OnItsOwn
<1> QED BY <1>2, <1>3, StepKeeps

LEMMA StoreDefinitionInv ==
  ASSUME StoreInv, NEW t \in Handlers, StoreDefinition(t)
  PROVE  StoreInv'
<1> PICK w : w = job[t].ws
  OBVIOUS
<1>1. job[t] # Idle /\ job[t].op \in {"create", "import", "save"} /\ job[t].pc = "store"
  BY NotIdle DEF StoreDefinition, At, Ops
<1>2. /\ w \in WorkspaceIds /\ JobIsSound(t) /\ DiskIsSound(w) /\ LogIsSound(w) /\ w \in used
      /\ Making(job[t]) \/ (Writing(job[t]) /\ Inside(job[t]))
  BY <1>1, Acting DEF Writing, Making, Inside, JobIsSound
<1>3. CASE OutOfSpace /\ (Fail(t) \/ FailAndLeave(t))
  <2>1. crashes' \in 0..MaxCrashes /\ failures' \in 0..MaxFailures
    BY <1>3, NoSpace
  <2>2. dir[w] \/ Making(job[t])
    BY <1>1, <1>2 DEF JobIsSound
  <2> QED BY <1>1, <1>3, <2>1, <2>2, FailKeeps, FailAndLeaveKeeps
<1>4. CASE /\ dir' = [dir EXCEPT ![w] = TRUE] /\ tmp' = [tmp EXCEPT ![w] = @ \cup {t}]
           /\ Goto(t, "rename") /\ UNCHANGED <<def, log, results, lock, used, bounds, ghosts>>
  <2>1. Went(t, "rename")
    BY <1>1, <1>4, GotoStep DEF StoreInv, Places
  <2>2. StoreTypeOK'
    BY <1>4, <2>1 DEF StoreInv, StoreTypeOK, Went, bounds, ghosts, Temporary
  <2>3. dir'[w] /\ \A v \in WorkspaceIds : v # w => SameAt(v)
    BY <1>2, <1>4 DEF StoreInv, StoreTypeOK, SameAt, ghosts
  <2>4. JobIsSound(t)'
    BY <1>1, <1>2, <1>4, <2>1, <2>3 DEF JobIsSound, Went, Making, Writing, Inside, HasResult, ghosts
  <2>5. w \notin gone
    BY <1>1, <1>2 DEF JobIsSound, DiskIsSound
  <2>6. DiskIsSound(w)' /\ LogIsSound(w)'
    BY <1>2, <1>4, <2>3, <2>5 DEF DiskIsSound, LogIsSound, ghosts
  <2> QED BY <1>1, <1>2, <1>4, <2>1, <2>2, <2>3, <2>4, <2>6, WorksOn DEF Went, Making, ghosts
<1> QED BY <1>3, <1>4 DEF StoreDefinition

LEMMA RenameDefinitionInv ==
  ASSUME StoreInv, NEW t \in Handlers, RenameDefinition(t)
  PROVE  StoreInv'
<1> PICK w : w = job[t].ws
  OBVIOUS
<1> PICK pc : pc = IF job[t].op = "import" THEN "history" ELSE "done"
  OBVIOUS
<1>1. /\ job[t] # Idle /\ job[t].op \in {"create", "import", "save"} /\ job[t].pc = "rename"
      /\ def' = [def EXCEPT ![w] = "whole"] /\ tmp' = [tmp EXCEPT ![w] = @ \ {t}]
      /\ born' = born \cup {w} /\ Goto(t, pc)
      /\ UNCHANGED <<dir, log, results, lock, used, bounds, acked, doomed, gone, raced, ahead>>
  BY NotIdle DEF RenameDefinition, At, Ops
<1>2. /\ w \in WorkspaceIds /\ JobIsSound(t) /\ DiskIsSound(w) /\ LogIsSound(w) /\ w \in used
      /\ Making(job[t]) \/ (Writing(job[t]) /\ Inside(job[t]))
  BY <1>1, Acting DEF Writing, Making, Inside, JobIsSound
<1>3. dir[w]
  BY <1>1, <1>2 DEF JobIsSound
<1>4. Went(t, pc)
  BY <1>1, GotoStep DEF StoreInv, Places
<1>5. StoreTypeOK'
  BY <1>1, <1>2, <1>4 DEF StoreInv, StoreTypeOK, Went, bounds, Temporary
<1>6. def'[w] = "whole" /\ \A v \in WorkspaceIds : v # w => SameAt(v)
  BY <1>1, <1>2 DEF StoreInv, StoreTypeOK, SameAt
<1>7. JobIsSound(t)' /\ ~Making(job'[t])
  BY <1>1, <1>2, <1>3, <1>4 DEF JobIsSound, Went, Making, Writing, Inside, HasResult
<1>8. DiskIsSound(w)' /\ LogIsSound(w)'
  BY <1>1, <1>2, <1>3, <1>6 DEF DiskIsSound, LogIsSound
<1> QED BY <1>1, <1>2, <1>4, <1>5, <1>6, <1>7, <1>8, WorksOn DEF Went

LEMMA StoreHistoryInv ==
  ASSUME StoreInv, NEW t \in Handlers, StoreHistory(t)
  PROVE  StoreInv'
<1> PICK w : w = job[t].ws
  OBVIOUS
<1>1. job[t] # Idle /\ job[t].op = "import" /\ job[t].pc = "history"
  BY NotIdle DEF StoreHistory, At, Ops
<1>2. w \in WorkspaceIds /\ JobIsSound(t) /\ DiskIsSound(w) /\ LogIsSound(w)
  BY <1>1, Acting
<1>3. CASE ~dir[w] /\ Fail(t) /\ UNCHANGED bounds
  BY <1>1, <1>3, FailKeeps DEF StoreInv, StoreTypeOK, bounds
<1>4. CASE OutOfSpace /\ dir[w] /\ (Fail(t) \/ FailAndLeave(t))
  <2>1. crashes' \in 0..MaxCrashes /\ failures' \in 0..MaxFailures
    BY <1>4, NoSpace
  <2> QED BY <1>1, <1>4, <2>1, FailKeeps, FailAndLeaveKeeps
<1>5. CASE /\ dir[w] /\ tmp' = [tmp EXCEPT ![w] = @ \cup {t}] /\ Goto(t, "attach")
           /\ UNCHANGED <<dir, def, log, results, lock, used, bounds, ghosts>>
  <2>1. Went(t, "attach")
    BY <1>1, <1>5, GotoStep DEF StoreInv, Places
  <2>2. StoreTypeOK'
    BY <1>5, <2>1, ZenonT(20) DEF StoreInv, StoreTypeOK, Went, bounds, ghosts, Temporary
  <2>3. \A v \in WorkspaceIds : v # w => SameAt(v)
    BY <1>2, <1>5 DEF StoreInv, StoreTypeOK, SameAt, ghosts
  <2>4. JobIsSound(t)' /\ ~Making(job'[t])
    BY <1>1, <1>2, <1>5, <2>1 DEF JobIsSound, Went, Making, Writing, Inside, HasResult, ghosts
  <2>5. DiskIsSound(w)' /\ LogIsSound(w)'
    BY <1>2, <1>5 DEF DiskIsSound, LogIsSound, ghosts
  <2> QED BY <1>1, <1>2, <1>5, <2>1, <2>2, <2>3, <2>4, <2>5, WorksOn DEF Went, ghosts
<1> QED BY <1>3, <1>4, <1>5 DEF StoreHistory

\* The history it replaces is lost, or there was none.
LEMMA AttachHistoryInv ==
  ASSUME StoreInv, NEW t \in Handlers, AttachHistory(t)
  PROVE  StoreInv'
<1> PICK w : w = job[t].ws
  OBVIOUS
<1> DEFINE bundle == <<[run |-> Imported, cached |-> FALSE, part |-> "whole"]>>
<1>1. job[t] # Idle /\ job[t].op = "import" /\ job[t].pc = "attach" /\ UNCHANGED bounds
  BY NotIdle DEF AttachHistory, At, Ops
<1>2. w \in WorkspaceIds /\ JobIsSound(t) /\ DiskIsSound(w) /\ LogIsSound(w)
  BY <1>1, Acting
<1>3. CASE t \notin tmp[w] /\ Fail(t)
  BY <1>1, <1>3, FailKeeps DEF StoreInv, StoreTypeOK, bounds
<1>4. CASE /\ t \in tmp[w] /\ log' = [log EXCEPT ![w] = bundle]
           /\ tmp' = [tmp EXCEPT ![w] = @ \ {t}]
           /\ raced' = IF log[w] # <<>> THEN raced \cup {w} ELSE raced
           /\ Goto(t, "done")
           /\ UNCHANGED <<dir, def, results, lock, used, born, acked, doomed, gone, ahead>>
  <2>1. Went(t, "done")
    BY <1>1, <1>4, GotoStep DEF StoreInv, Places
  <2>2. /\ bundle \in Seq(Piece) /\ DOMAIN bundle = {1} /\ bundle[1].cached = FALSE
    BY DEF Piece
  <2> HIDE DEF bundle
  <2>3. StoreTypeOK'
    BY <1>1, <1>2, <1>4, <2>1, <2>2 DEF StoreInv, StoreTypeOK, Went, bounds, Temporary
  <2>4. dir[w]
    BY <1>2, <1>4 DEF DiskIsSound, Items
  <2>5. /\ log'[w] = bundle /\ raced \subseteq raced' /\ (log[w] = <<>> \/ w \in raced')
        /\ \A v \in WorkspaceIds : v # w => SameAt(v)
    BY <1>2, <1>4 DEF StoreInv, StoreTypeOK, SameAt
  <2>6. JobIsSound(t)' /\ ~Making(job'[t])
    BY <1>1, <1>2, <1>4, <2>1 DEF JobIsSound, Went, Making, Writing, Inside, HasResult
  <2>7. DiskIsSound(w)'
    BY <1>2, <1>4, <2>4 DEF DiskIsSound
  <2>8. LogIsSound(w)'
    BY <1>2, <1>4, <2>2, <2>5, NoRecord DEF LogIsSound
  <2> QED BY <1>1, <1>2, <1>4, <2>1, <2>3, <2>5, <2>6, <2>7, <2>8, WorksOn DEF Went
<1> QED BY <1>1, <1>3, <1>4 DEF AttachHistory

LEMMA StoreResultInv ==
  ASSUME StoreInv, NEW t \in Handlers, StoreResult(t)
  PROVE  StoreInv'
<1> PICK w : w = job[t].ws
  OBVIOUS
<1> PICK pc : pc = IF job[t].op = "run" THEN "append" ELSE "done"
  OBVIOUS
<1>1. job[t] # Idle /\ job[t].op \in {"run", "put"} /\ job[t].pc = "result"
  BY NotIdle DEF StoreResult, At, Ops
<1>2. /\ w \in WorkspaceIds /\ JobIsSound(t) /\ DiskIsSound(w) /\ LogIsSound(w) /\ Writing(job[t])
      /\ dir[w] /\ job[t].run \in Runs
  BY <1>1, Acting DEF Writing, Inside, JobIsSound
<1>3. CASE OutOfSpace /\ Fail(t)
  BY <1>1, <1>3, NoSpace, FailKeeps
<1>4. CASE /\ dir' = [dir EXCEPT ![w] = TRUE]
           /\ results' = [results EXCEPT ![w] = @ \cup {job[t].run}] /\ Goto(t, pc)
           /\ UNCHANGED <<def, log, tmp, lock, used, bounds, ghosts>>
  <2>1. Went(t, pc)
    BY <1>1, <1>4, GotoStep DEF StoreInv, Places
  <2>2. StoreTypeOK'
    BY <1>2, <1>4, <2>1 DEF StoreInv, StoreTypeOK, Went, bounds, ghosts
  <2>3. /\ dir'[w] /\ results'[w] = results[w] \cup {job[t].run}
        /\ \A v \in WorkspaceIds : v # w => SameAt(v)
    BY <1>2, <1>4 DEF StoreInv, StoreTypeOK, SameAt, ghosts
  <2>4. JobIsSound(t)' /\ ~Making(job'[t])
    BY <1>1, <1>2, <1>4, <2>1, <2>3
    DEF JobIsSound, Went, Making, Writing, Inside, HasResult, ghosts
  <2>5. DiskIsSound(w)' /\ LogIsSound(w)'
    BY <1>2, <1>4, <2>3 DEF DiskIsSound, LogIsSound, ghosts
  <2> QED BY <1>1, <1>2, <1>4, <2>1, <2>2, <2>3, <2>4, <2>5, WorksOn DEF Went, ghosts
<1> QED BY <1>3, <1>4 DEF StoreResult

\* A piece of a record that t may write keeps the history sound.
LEMMA WriteKeeps ==
  ASSUME StoreInv, NEW t \in Handlers, job[t] # Idle, NEW w \in WorkspaceIds, w = job[t].ws,
         job[t].op \in {"run", "post"}, job[t].pc \in {"append", "rest"},
         NEW part \in {"whole", "head", "tail"}, NEW pc \in {"rest", "done"},
         Write(t, part), Goto(t, pc),
         UNCHANGED <<dir, def, results, tmp, lock, used, bounds, ghosts>>,
         LET h == Append(log[w], [run |-> job[t].run, cached |-> job[t].cached, part |-> part])
         IN IF pc = "rest" THEN part = "head"
            ELSE w \in doomed \cup raced \/ HasRecord(h, job[t].run)
  PROVE  StoreInv'
<1> DEFINE p == [run |-> job[t].run, cached |-> job[t].cached, part |-> part]
<1>1. /\ JobIsSound(t) /\ DiskIsSound(w) /\ LogIsSound(w) /\ Writing(job[t]) /\ dir[w]
      /\ p \in Piece /\ log[w] \in Seq(Piece)
  BY Acting DEF Writing, Inside, JobIsSound, Piece, StoreInv, StoreTypeOK
<1>2. Went(t, pc)
  BY GotoStep DEF StoreInv, Places
<1>3. log' = [log EXCEPT ![w] = Append(log[w], p)]
  BY DEF Write
<1>4. p.run = job[t].run /\ p.cached = job[t].cached /\ p.part = part
  OBVIOUS
<1>5. /\ Append(log[w], p) \in Seq(Piece) /\ Append(log[w], p) # <<>>
      /\ Append(log[w], p)[Len(Append(log[w], p))] = p
      /\ \A i \in DOMAIN Append(log[w], p) :
           Append(log[w], p)[i] = p \/ (i \in DOMAIN log[w] /\ Append(log[w], p)[i] = log[w][i])
  BY <1>1
<1>6. pc = "rest" => p = [run |-> job[t].run, cached |-> job[t].cached, part |-> "head"]
  OBVIOUS
<1>7. pc = "done" => w \in doomed \cup raced \/ HasRecord(Append(log[w], p), job[t].run)
  OBVIOUS
<1>8. p.cached => p.run \in results[w] \/ <<w, p.run>> \in ahead \/ w \in doomed
  BY <1>1, <1>4 DEF JobIsSound, HasResult
<1>9. \A r : HasRecord(log[w], r) => HasRecord(Append(log[w], p), r)
  BY <1>1, RecordsStay
<1> HIDE DEF p
<1>10. StoreTypeOK'
  BY <1>2, <1>3, <1>5 DEF StoreInv, StoreTypeOK, Went, bounds, ghosts
<1>11. log'[w] = Append(log[w], p) /\ \A v \in WorkspaceIds : v # w => SameAt(v)
  BY <1>3 DEF StoreInv, StoreTypeOK, SameAt, ghosts
<1>12. JobIsSound(t)' /\ ~Making(job'[t])
  <2>1. HasResult(job[t]) =>
          \/ job[t].run \in results[w] \/ w \in doomed
          \/ job[t].op = "post" /\ <<w, job[t].run>> \in ahead
    BY <1>1 DEF JobIsSound
  <2>2. HasResult(job'[t]) =>
          \/ job'[t].run \in results'[w] \/ w \in doomed'
          \/ job'[t].op = "post" /\ <<w, job'[t].run>> \in ahead'
    BY <1>2, <2>1 DEF Went, HasResult, ghosts
  <2>3. ~Making(job'[t]) /\ Inside(job'[t]) /\ Writing(job'[t])
    BY <1>2 DEF Went, Making, Inside, Writing
  <2>4. w \in used' /\ lock'[w] = t /\ dir'[w]
    BY <1>1 DEF JobIsSound
  <2> QED BY <1>2, <1>5, <1>6, <1>7, <1>11, <2>2, <2>3, <2>4 DEF JobIsSound, Went, ghosts
<1>13. DiskIsSound(w)'
  BY <1>1, <1>5, <1>11 DEF DiskIsSound, Items, ghosts
<1>14. LogIsSound(w)'
  <2>1. UNCHANGED <<results, doomed, raced, acked, ahead>>
    BY DEF ghosts
  <2>2. ASSUME w \notin doomed, NEW i \in DOMAIN Append(log[w], p),
               Append(log[w], p)[i].run \in Runs, Append(log[w], p)[i].cached
        PROVE  LET q == Append(log[w], p)[i] IN q.run \in results[w] \/ <<w, q.run>> \in ahead
    <3>1. CASE Append(log[w], p)[i] = p
      BY <1>8, <2>2, <3>1
    <3>2. CASE i \in DOMAIN log[w] /\ Append(log[w], p)[i] = log[w][i]
      BY <1>1, <2>2, <3>2 DEF LogIsSound
    <3> QED BY <1>5, <3>1, <3>2
  <2>3. ASSUME w \notin doomed \cup raced, NEW r \in Runs, <<w, r>> \in acked
        PROVE  HasRecord(Append(log[w], p), r)
    BY <1>1, <1>9, <2>3 DEF LogIsSound
  <2> QED BY <1>11, <2>1, <2>2, <2>3 DEF LogIsSound
<1> QED BY <1>1, <1>2, <1>10, <1>11, <1>12, <1>13, <1>14, WorksOn DEF Went, ghosts

LEMMA AppendRunInv ==
  ASSUME StoreInv, NEW t \in Handlers, AppendRun(t)
  PROVE  StoreInv'
<1> PICK w : w = job[t].ws
  OBVIOUS
<1>1. job[t] # Idle /\ job[t].op \in {"run", "post"} /\ job[t].pc = "append"
  BY NotIdle DEF AppendRun, At, Ops
<1>2. w \in WorkspaceIds /\ job[t].run \in Runs /\ job[t].cached \in BOOLEAN /\ log[w] \in Seq(Piece)
  BY <1>1, Acting DEF StoreInv, StoreTypeOK
<1>3. CASE OutOfSpace /\ Fail(t)
  BY <1>1, <1>3, NoSpace, FailKeeps
<1>4. CASE /\ Write(t, "whole") /\ Goto(t, "done")
           /\ UNCHANGED <<dir, def, results, tmp, lock, used, bounds, ghosts>>
  <2> DEFINE p == [run |-> job[t].run, cached |-> job[t].cached, part |-> "whole"]
  <2>1. p \in Piece /\ p.run = job[t].run /\ p.part = "whole"
    BY <1>2 DEF Piece
  <2>2. HasRecord(Append(log[w], p), job[t].run)
    BY <1>2, <2>1, WholeIsRecord
  <2> QED BY <1>1, <1>2, <1>4, <2>2, WriteKeeps
<1>5. CASE /\ Write(t, "head") /\ Goto(t, "rest")
           /\ UNCHANGED <<dir, def, results, tmp, lock, used, bounds, ghosts>>
  BY <1>1, <1>2, <1>5, WriteKeeps
<1> QED BY <1>3, <1>4, <1>5 DEF AppendRun

\* Nobody has written behind the head meanwhile, unless an import has put its
\* history in the place of this one or the workspace has been removed.
LEMMA AppendRestInv ==
  ASSUME StoreInv, NEW t \in Handlers, AppendRest(t)
  PROVE  StoreInv'
<1> PICK w : w = job[t].ws
  OBVIOUS
<1>1. job[t] # Idle /\ job[t].op \in {"run", "post"} /\ job[t].pc = "rest"
  BY NotIdle DEF AppendRest, At, Ops
<1>2. /\ w \in WorkspaceIds /\ job[t].run \in Runs /\ job[t].cached \in BOOLEAN /\ log[w] \in Seq(Piece)
      /\ JobIsSound(t)
  BY <1>1, Acting DEF StoreInv, StoreTypeOK
<1>3. CASE OutOfSpace /\ Fail(t)
  BY <1>1, <1>3, NoSpace, FailKeeps
<1>4. CASE /\ Write(t, "tail") /\ Goto(t, "done")
           /\ UNCHANGED <<dir, def, results, tmp, lock, used, bounds, ghosts>>
  <2> DEFINE p == [run |-> job[t].run, cached |-> job[t].cached, part |-> "tail"]
  <2>1. \/ w \in doomed \cup raced
        \/ /\ log[w] # <<>>
           /\ log[w][Len(log[w])] = [run |-> job[t].run, cached |-> job[t].cached, part |-> "head"]
    BY <1>1, <1>2 DEF JobIsSound
  <2>2. w \in doomed \cup raced \/ HasRecord(Append(log[w], p), job[t].run)
    BY <1>2, <2>1, RestIsRecord
  <2> QED BY <1>1, <1>2, <1>4, <2>2, WriteKeeps
<1> QED BY <1>3, <1>4 DEF AppendRest

\* A removal goes on, with these things still to remove.
LEMMA Removing ==
  ASSUME StoreInv, NEW t \in Handlers, job[t] # Idle, job[t].op = "delete", NEW todo \in SUBSET Item,
         NEW pc \in Places("delete"),
         job' = [job EXCEPT ![t].todo = todo, ![t].pc = pc]
  PROVE  Went(t, pc)
<1> DEFINE q == [job[t] EXCEPT !.todo = todo, !.pc = pc]
<1>1. job[t] \in [op: {"delete"}, ws: WorkspaceIds, todo: SUBSET Item, pc: {"lock", "check", "remove", "done"}]
  BY DEF StoreInv, StoreTypeOK, Jobs, Idle
<1>2. q \in Jobs /\ q # Idle /\ q.op = "delete" /\ q.ws = job[t].ws /\ q.pc = pc
  BY <1>1 DEF Jobs, Idle, Places
<1>3. job' = [job EXCEPT ![t] = q]
  OBVIOUS
<1> HIDE DEF q
<1>4. job'[t] = q /\ job' \in [Handlers -> Jobs] /\ \A u \in Handlers \ {t} : job'[u] = job[u]
  BY <1>2, <1>3 DEF StoreInv, StoreTypeOK
<1> QED BY <1>2, <1>4 DEF Went

LEMMA ItemsTyped == ASSUME StoreTypeOK, NEW w \in WorkspaceIds PROVE Items(w) \in SUBSET Item
  BY DEF StoreTypeOK, Items, Item

LEMMA ListDirectoryInv ==
  ASSUME StoreInv, NEW t \in Handlers, ListDirectory(t)
  PROVE  StoreInv'
<1> PICK w : w = job[t].ws
  OBVIOUS
<1> PICK todo : todo = IF dir[w] THEN Items(w) ELSE {}
  OBVIOUS
<1> PICK pc : pc = IF dir[w] THEN "remove" ELSE "done"
  OBVIOUS
<1>1. /\ job[t] # Idle /\ job[t].op = "delete" /\ job[t].pc = "check"
      /\ job' = [job EXCEPT ![t].todo = todo, ![t].pc = pc] /\ doomed' = doomed \cup {w}
      /\ UNCHANGED <<disk, lock, used, bounds, born, acked, gone, raced, ahead>>
  BY NotIdle DEF ListDirectory, At, Ops
<1>2. /\ w \in WorkspaceIds /\ JobIsSound(t) /\ DiskIsSound(w) /\ LogIsSound(w) /\ Writing(job[t])
      /\ w \in used
  BY <1>1, Acting DEF Writing, JobIsSound
<1>3. Went(t, pc)
  BY <1>1, <1>2, ItemsTyped, Removing DEF Places, StoreInv
<1>4. StoreTypeOK'
  BY <1>1, <1>2, <1>3 DEF StoreInv, StoreTypeOK, Went, disk, bounds
<1>5. w \in doomed' /\ \A v \in WorkspaceIds : v # w => SameAt(v)
  BY <1>1 DEF SameAt, disk
<1>6. JobIsSound(t)' /\ ~Making(job'[t])
  BY <1>1, <1>2, <1>3, <1>5 DEF JobIsSound, Went, Making, Writing, Inside, HasResult, disk
<1>7. DiskIsSound(w)' /\ LogIsSound(w)'
  BY <1>1, <1>2, <1>5 DEF DiskIsSound, LogIsSound, Items, disk
<1> QED BY <1>1, <1>2, <1>3, <1>4, <1>5, <1>6, <1>7, WorksOn DEF Went, disk

LEMMA RemoveItemInv ==
  ASSUME StoreInv, NEW t \in Handlers, RemoveItem(t)
  PROVE  StoreInv'
<1> PICK w : w = job[t].ws
  OBVIOUS
<1>1. job[t] # Idle /\ job[t].op = "delete" /\ job[t].pc = "remove"
  BY NotIdle DEF RemoveItem, At, Ops
<1>2. PICK item \in job[t].todo :
        /\ def' = IF item = "def" THEN [def EXCEPT ![w] = "none"] ELSE def
        /\ log' = IF item = "log" THEN [log EXCEPT ![w] = <<>>] ELSE log
        /\ results' = IF item = "results" THEN [results EXCEPT ![w] = {}] ELSE results
        /\ tmp' = [tmp EXCEPT ![w] = @ \ {item}]
        /\ job' = [job EXCEPT ![t].todo = @ \ {item}]
        /\ UNCHANGED <<dir, lock, used, bounds, ghosts>>
  BY DEF RemoveItem
<1>3. /\ w \in WorkspaceIds /\ JobIsSound(t) /\ DiskIsSound(w) /\ Writing(job[t])
      /\ w \in doomed /\ job[t].todo \in SUBSET Item
  BY <1>1, Acting, JobFields DEF Writing, JobIsSound, StoreInv, StoreTypeOK
<1>4. Went(t, "remove")
  <2> DEFINE todo == job[t].todo \ {item}
  <2>1. job[t] \in [op: {"delete"}, ws: WorkspaceIds, todo: SUBSET Item, pc: {"lock", "check", "remove", "done"}]
    BY <1>1 DEF StoreInv, StoreTypeOK, Jobs, Idle
  <2>2. [job[t] EXCEPT !.todo = todo] = [job[t] EXCEPT !.todo = todo, !.pc = "remove"]
    BY <1>1, <2>1
  <2>3. job' = [job EXCEPT ![t] = [job[t] EXCEPT !.todo = todo]]
    BY <1>2
  <2>4. job' = [job EXCEPT ![t].todo = todo, ![t].pc = "remove"]
    BY <2>2, <2>3
  <2> QED BY <1>1, <1>3, <2>4, Removing DEF Places
<1>5. StoreTypeOK'
  BY <1>2, <1>3, <1>4 DEF StoreInv, StoreTypeOK, Went, bounds, ghosts
<1>6. \A v \in WorkspaceIds : v # w => SameAt(v)
  BY <1>2 DEF StoreInv, StoreTypeOK, SameAt, ghosts
<1>7. JobIsSound(t)' /\ ~Making(job'[t])
  BY <1>1, <1>2, <1>3, <1>4 DEF JobIsSound, Went, Making, Writing, Inside, HasResult, ghosts
<1>8. Items(w) = {} => Items(w)' = {}
  <2> SUFFICES ASSUME Items(w) = {} PROVE Items(w)' = {}
    OBVIOUS
  <2>1. def[w] = "none" /\ log[w] = <<>> /\ results[w] = {} /\ tmp[w] = {}
    BY DEF Items
  <2>2. def'[w] = "none" /\ log'[w] = <<>> /\ results'[w] = {} /\ tmp'[w] = {}
    BY <1>2, <1>3, <2>1 DEF StoreInv, StoreTypeOK
  <2> QED BY <2>2 DEF Items
<1>9. DiskIsSound(w)' /\ LogIsSound(w)'
  BY <1>2, <1>3, <1>8 DEF DiskIsSound, LogIsSound, ghosts
<1> QED BY <1>1, <1>2, <1>3, <1>4, <1>5, <1>6, <1>7, <1>9, WorksOn DEF Went, ghosts

LEMMA RemoveDirectoryInv ==
  ASSUME StoreInv, NEW t \in Handlers, RemoveDirectory(t)
  PROVE  StoreInv'
<1> PICK w : w = job[t].ws
  OBVIOUS
<1>1. job[t] # Idle /\ job[t].op = "delete" /\ job[t].pc = "remove" /\ UNCHANGED bounds
  BY NotIdle DEF RemoveDirectory, At, Ops
<1>2. w \in WorkspaceIds /\ JobIsSound(t) /\ DiskIsSound(w) /\ Writing(job[t]) /\ w \in doomed
  BY <1>1, Acting DEF Writing, JobIsSound
<1>3. CASE Items(w) # {} /\ Fail(t)
  BY <1>1, <1>3, FailKeeps DEF StoreInv, StoreTypeOK, bounds
<1>4. CASE /\ Items(w) = {} /\ dir' = [dir EXCEPT ![w] = FALSE] /\ Goto(t, "done")
           /\ UNCHANGED <<def, log, results, tmp, lock, used, ghosts>>
  <2>1. Went(t, "done")
    BY <1>1, <1>4, GotoStep DEF StoreInv, Places
  <2>2. StoreTypeOK'
    BY <1>1, <1>4, <2>1 DEF StoreInv, StoreTypeOK, Went, bounds, ghosts
  <2>3. ~dir'[w] /\ \A v \in WorkspaceIds : v # w => SameAt(v)
    BY <1>2, <1>4 DEF StoreInv, StoreTypeOK, SameAt, ghosts
  <2>4. JobIsSound(t)' /\ ~Making(job'[t])
    BY <1>1, <1>2, <1>4, <2>1, <2>3 DEF JobIsSound, Went, Making, Writing, Inside, HasResult, ghosts
  <2>5. DiskIsSound(w)' /\ LogIsSound(w)'
    BY <1>2, <1>4, <2>3 DEF DiskIsSound, LogIsSound, Items, ghosts
  <2> QED BY <1>1, <1>2, <1>4, <2>1, <2>2, <2>3, <2>4, <2>5, WorksOn DEF Went, ghosts
<1> QED BY <1>1, <1>3, <1>4 DEF RemoveDirectory

LEMMA FinishInv ==
  ASSUME StoreInv, NEW t \in Handlers, Finish(t)
  PROVE  StoreInv'
<1> PICK w : w = job[t].ws
  OBVIOUS
<1>1. /\ job[t] # Idle /\ job[t].pc = "done" /\ job[t].op # "put" /\ Left(t)
      /\ acked' = IF job[t].op \in {"run", "post"} THEN acked \cup {<<w, job[t].run>>} ELSE acked
      /\ gone' = IF job[t].op = "delete" THEN gone \cup {w} ELSE gone
      /\ UNCHANGED <<disk, used, bounds, born, doomed, raced, ahead>>
  BY ReturnStep DEF Finish, StoreInv
<1>2. /\ w \in WorkspaceIds /\ JobIsSound(t) /\ DiskIsSound(w) /\ LogIsSound(w)
      /\ job[t].op \in {"run", "post"} => job[t].run \in Runs
  BY <1>1, Acting
<1>3. StoreTypeOK'
  BY <1>1, <1>2 DEF StoreInv, StoreTypeOK, Left, disk, bounds
<1>4. \A v \in WorkspaceIds : v # w => SameAt(v)
  BY <1>1 DEF SameAt, disk
<1>5. Beside(t)
  <2>1. \A v \in WorkspaceIds : Guarded(t, v) => lock'[v] = lock[v]
    BY <1>1, Guards DEF Left
  <2> QED BY <1>1, <1>4, <2>1 DEF Beside, Left, disk
<1>6. OnItsOwn(t) /\ JobIsSound(t)'
  BY <1>1 DEF OnItsOwn, Left, JobIsSound
<1>7. DiskIsSound(w)'
  BY <1>1, <1>2 DEF DiskIsSound, JobIsSound, Items, disk
<1>8. LogIsSound(w)'
  BY <1>1, <1>2 DEF LogIsSound, JobIsSound, disk
<1> QED BY <1>1, <1>2, <1>3, <1>5, <1>6, <1>7, <1>8, StepKeeps

\* What is acknowledged of a result is that it is there.
LEMMA FinishPutInv ==
  ASSUME StoreInv, NEW t \in Handlers, FinishPut(t)
  PROVE  StoreInv'
<1> PICK w : w = job[t].ws
  OBVIOUS
<1>1. /\ job[t] # Idle /\ job[t].op = "put" /\ job[t].pc = "done"
      /\ lock' = [lock EXCEPT ![w] = Free] /\ ahead' = ahead \ {<<w, job[t].run>>}
      /\ UNCHANGED <<disk, used, bounds, born, acked, doomed, gone, raced>>
  BY NotIdle DEF FinishPut, At, Ops
<1>2. /\ w \in WorkspaceIds /\ JobIsSound(t) /\ Writing(job[t]) /\ DiskIsSound(w) /\ LogIsSound(w)
      /\ job[t].run \in results[w] \/ w \in doomed
  BY <1>1, Acting DEF Writing, HasResult, JobIsSound
<1>3. \A v \in WorkspaceIds : v # w => SameAt(v)
  BY <1>1 DEF SameAt, disk
<1>4. /\ lock' \in [WorkspaceIds -> Handlers \cup {Free}]
      /\ \A v \in WorkspaceIds : Guarded(t, v) => lock'[v] = lock[v]
  <2>1. ~Guarded(t, w)
    BY <1>1, <1>2, Guards
  <2> QED BY <1>1, <2>1 DEF StoreInv, StoreTypeOK
<1>5. PICK q : /\ q \in Jobs /\ job' = [job EXCEPT ![t] = q]
               /\ \/ q = Idle
                  \/ q # Idle /\ q.op = "post" /\ q.ws = w /\ q.pc = "lock" /\ q.run = job[t].run
  <2>1. CASE job' = [job EXCEPT ![t] = Idle]
    BY <2>1 DEF Jobs
  <2>2. CASE job' = [job EXCEPT ![t].op = "post", ![t].pc = "lock"]
    <3> DEFINE q == [job[t] EXCEPT !.op = "post", !.pc = "lock"]
    <3>1. job[t] \in [op: {"run", "put", "post"}, ws: WorkspaceIds, run: Runs, cached: BOOLEAN,
                      pc: {"lock", "check", "result", "append", "rest", "done"}]
      BY <1>1 DEF StoreInv, StoreTypeOK, Jobs, Idle
    <3>2. q \in Jobs /\ q # Idle /\ q.op = "post" /\ q.ws = w /\ q.pc = "lock" /\ q.run = job[t].run
      BY <3>1 DEF Jobs, Idle
    <3>3. job' = [job EXCEPT ![t] = q]
      BY <2>2
    <3> QED BY <3>2, <3>3
  <2> QED BY <2>1, <2>2 DEF FinishPut
<1>6. job' \in [Handlers -> Jobs] /\ job'[t] = q /\ \A u \in Handlers \ {t} : job'[u] = job[u]
  BY <1>5 DEF StoreInv, StoreTypeOK
<1>7. StoreTypeOK'
  BY <1>1, <1>4, <1>6 DEF StoreInv, StoreTypeOK, disk, bounds
<1>8. Beside(t)
  BY <1>1, <1>2, <1>3, <1>4, <1>6 DEF Beside, disk
<1>9. OnItsOwn(t)
  BY <1>1, <1>5, <1>6 DEF OnItsOwn, Making
<1>10. JobIsSound(t)'
  BY <1>1, <1>2, <1>5, <1>6 DEF JobIsSound, Making, Writing, Inside, HasResult, disk
<1>11. DiskIsSound(w)'
  BY <1>1, <1>2 DEF DiskIsSound, Items, disk
<1>12. LogIsSound(w)'
  BY <1>1, <1>2 DEF LogIsSound, disk
<1> QED BY <1>1, <1>2, <1>7, <1>8, <1>9, <1>10, <1>11, <1>12, StepKeeps

\* What the disk holds outlives the server.
LEMMA CrashInv ==
  ASSUME StoreInv, Crash
  PROVE  StoreInv'
<1>1. /\ crashes < MaxCrashes /\ crashes' = crashes + 1 /\ job' = [t \in Handlers |-> Idle]
      /\ lock' = [w \in WorkspaceIds |-> Free]
      /\ tmp' = [w \in WorkspaceIds |-> IF tmp[w] = {} THEN {} ELSE {"left"}]
      /\ UNCHANGED <<dir, def, log, results, used, failures, ghosts>>
  BY DEF Crash
<1>2. Idle \in Jobs
  BY DEF Jobs
<1>3. crashes' \in 0..MaxCrashes
  BY <1>1, StoreAssumption DEF StoreInv, StoreTypeOK
<1>4. StoreTypeOK'
  BY <1>1, <1>2, <1>3 DEF StoreInv, StoreTypeOK, ghosts, Temporary
<1>5. (\A t \in Handlers : JobIsSound(t))' /\ Apart'
  BY <1>1 DEF JobIsSound, Apart
<1>6. ASSUME NEW w \in WorkspaceIds PROVE (DiskIsSound(w) /\ LogIsSound(w))'
  <2>1. tmp[w] = {} => tmp'[w] = {}
    BY <1>1
  <2>2. Items(w) = {} => Items(w)' = {}
    BY <1>1, <2>1 DEF Items
  <2>3. DiskIsSound(w)'
    BY <1>1, <2>2 DEF StoreInv, DiskIsSound, ghosts
  <2>4. LogIsSound(w)'
    BY <1>1 DEF StoreInv, LogIsSound, ghosts
  <2> QED BY <2>3, <2>4
<1> QED BY <1>4, <1>5, <1>6 DEF StoreInv

LEMMA QuietInv ==
  ASSUME StoreInv, UNCHANGED storeVars
  PROVE  StoreInv'
<1>1. StoreTypeOK'
  BY DEF StoreInv, StoreTypeOK, storeVars, disk, bounds, ghosts
<1>2. (\A t \in Handlers : JobIsSound(t))' /\ Apart'
  BY DEF StoreInv, JobIsSound, Apart, storeVars, disk, bounds, ghosts
<1>3. \A w \in WorkspaceIds : (DiskIsSound(w) /\ LogIsSound(w))'
  <2>1. UNCHANGED <<disk, ghosts>> /\ used' = used
    BY DEF storeVars
  <2> QED BY <2>1, QuietDisk, DiskStays DEF StoreInv
<1> QED BY <1>1, <1>2, <1>3 DEF StoreInv

-----------------------------------------------------------------------------
LEMMA InitStoreInv == StoreInit => StoreInv
<1> SUFFICES ASSUME StoreInit PROVE StoreInv
  OBVIOUS
<1>1. StoreTypeOK
  BY StoreAssumption DEF StoreInit, StoreTypeOK, Jobs
<1>2. (\A t \in Handlers : JobIsSound(t)) /\ Apart
  BY DEF StoreInit, JobIsSound, Apart
<1>3. \A w \in WorkspaceIds : DiskIsSound(w) /\ LogIsSound(w)
  BY DEF StoreInit, DiskIsSound, LogIsSound, Items
<1> QED BY <1>1, <1>2, <1>3 DEF StoreInv

LEMMA NextStoreInv == StoreInv /\ [StoreNext]_storeVars => StoreInv'
<1> SUFFICES ASSUME StoreInv, [StoreNext]_storeVars PROVE StoreInv'
  OBVIOUS
<1>1. ASSUME NEW t \in Handlers, Step(t) PROVE StoreInv'
  BY <1>1, TakeInv, CheckDefinitionInv, CheckDirectoryInv, StoreDefinitionInv, RenameDefinitionInv,
     StoreHistoryInv, AttachHistoryInv, StoreResultInv, AppendRunInv, AppendRestInv,
     ListDirectoryInv, RemoveItemInv, RemoveDirectoryInv, FinishInv, FinishPutInv DEF Step
<1> QED BY <1>1, ArriveInv, CrashInv, QuietInv DEF StoreNext, Quiet

-----------------------------------------------------------------------------
(***************************************************************************)
(* Lines are broken by a write that fails, or by a crash, only.            *)
(***************************************************************************)
AtRest(t) == job[t] # Idle /\ job[t].op \in {"run", "post"} /\ job[t].pc = "rest"

\* A head is followed by its tail, which its writer is about to write if it is
\* the last piece.
HeadsHaveTails(h) ==
  \A i \in DOMAIN h : i < Len(h) /\ h[i].part = "head" => h[i + 1].part = "tail"
OpenAtTheEnd(h) == h # <<>> /\ h[Len(h)].part = "head"
Unbroken(w) ==
  failures = 0 /\ crashes = 0 /\ w \notin doomed \cup raced =>
    /\ HeadsHaveTails(log[w])
    /\ OpenAtTheEnd(log[w]) => \E t \in Handlers : AtRest(t) /\ job[t].ws = w

\* What has failed has failed, and t is all that moves.
OnlyMoves(t) ==
  /\ failures' = 0 => failures = 0
  /\ crashes' = 0 => crashes = 0
  /\ doomed \subseteq doomed' /\ raced \subseteq raced'
  /\ \A u \in Handlers \ {t} : job'[u] = job[u]

\* A piece is written where the one before it ends its line, or is its head.
LEMMA PieceFits ==
  ASSUME NEW h \in Seq(Piece), NEW p \in Piece, HeadsHaveTails(h), OpenAtTheEnd(h) => p.part = "tail"
  PROVE  HeadsHaveTails(Append(h, p)) /\ (OpenAtTheEnd(Append(h, p)) => p.part = "head")
<1> DEFINE g == Append(h, p)
           n == Len(h)
<1>1. /\ n \in Nat /\ Len(g) = n + 1 /\ DOMAIN g = 1..n + 1 /\ DOMAIN h = 1..n
      /\ g[n + 1] = p /\ \A i \in 1..n : g[i] = h[i]
  OBVIOUS
<1>2. h # <<>> <=> n > 0
  OBVIOUS
<1> HIDE DEF g, n
<1>3. n > 0 /\ h[n].part = "head" => p.part = "tail"
  BY <1>2 DEF OpenAtTheEnd, n
<1>4. ASSUME NEW i \in 1..n, g[i].part = "head" PROVE g[i + 1].part = "tail"
  <2>1. CASE i = n
    BY <1>1, <1>3, <1>4, <2>1
  <2>2. CASE i < n
    <3>1. i + 1 \in 1..n /\ i \in DOMAIN h /\ g[i] = h[i] /\ g[i + 1] = h[i + 1]
      BY <1>1, <2>2
    <3> QED BY <1>4, <2>2, <3>1 DEF HeadsHaveTails, n
  <2> QED BY <1>1, <2>1, <2>2
<1>5. HeadsHaveTails(g)
  BY <1>1, <1>4 DEF HeadsHaveTails
<1>6. OpenAtTheEnd(g) => p.part = "head"
  BY <1>1 DEF OpenAtTheEnd
<1> QED BY <1>5, <1>6 DEF g

\* A step that writes no history, of a thread that has no rest to write.
LEMMA UnbrokenStays ==
  ASSUME NEW w \in WorkspaceIds, Unbroken(w), NEW t \in Handlers, OnlyMoves(t), log'[w] = log[w],
         AtRest(t) /\ job[t].ws = w => failures' # 0
  PROVE  Unbroken(w)'
<1> SUFFICES ASSUME failures' = 0, crashes' = 0, w \notin doomed' \cup raced'
             PROVE  /\ HeadsHaveTails(log[w])
                    /\ OpenAtTheEnd(log[w]) => \E u \in Handlers : AtRest(u)' /\ job'[u].ws = w
  BY DEF Unbroken
<1>1. HeadsHaveTails(log[w])
  BY DEF Unbroken, OnlyMoves
<1>2. ASSUME OpenAtTheEnd(log[w]) PROVE \E u \in Handlers : AtRest(u)' /\ job'[u].ws = w
  <2>1. PICK u \in Handlers : AtRest(u) /\ job[u].ws = w
    BY <1>2 DEF Unbroken, OnlyMoves
  <2>2. job'[u] = job[u]
    BY <2>1 DEF OnlyMoves
  <2> QED BY <2>1, <2>2 DEF AtRest
<1> QED BY <1>1, <1>2

LEMMA NoSpaceFails ==
  ASSUME StoreInv, OutOfSpace
  PROVE  failures' # 0 /\ (crashes' = 0 => crashes = 0)
  BY StoreAssumption DEF OutOfSpace, StoreInv, StoreTypeOK

LEMMA FailMoves ==
  ASSUME StoreInv, NEW t \in Handlers, Fail(t) \/ FailAndLeave(t)
  PROVE  log' = log /\ doomed' = doomed /\ raced' = raced /\ \A u \in Handlers \ {t} : job'[u] = job[u]
  BY DEF Fail, FailAndLeave, Return, disk, ghosts, StoreInv, StoreTypeOK

\* The steps that write no history.
LEMMA UnwrittenUnbroken ==
  ASSUME StoreInv, NEW t \in Handlers,
         \/ Arrive(t) \/ Take(t) \/ CheckDefinition(t) \/ CheckDirectory(t) \/ StoreDefinition(t)
         \/ RenameDefinition(t) \/ StoreHistory(t) \/ StoreResult(t) \/ ListDirectory(t)
         \/ RemoveDirectory(t) \/ Finish(t) \/ FinishPut(t)
  PROVE  OnlyMoves(t) /\ log' = log /\ ~AtRest(t)
<1> USE DEF OnlyMoves, AtRest, Goto, disk, bounds, ghosts, StoreInv, StoreTypeOK
<1>1. CASE Arrive(t)
  <2>1. PICK j : Begin(t, j)
    BY <1>1 DEF Arrive, BeginNew, BeginSave, BeginDelete, BeginPush, BeginPut, BeginRun, BeginPost
  <2>2. UNCHANGED <<doomed, raced>>
    BY <1>1 DEF Arrive, BeginNew, BeginSave, BeginDelete, BeginPush, BeginPut, BeginRun, BeginPost
  <2> QED BY <2>1, <2>2 DEF Begin
<1>2. CASE Take(t)
  BY <1>2 DEF Take
<1>3. CASE CheckDefinition(t)
  BY <1>3, FailMoves DEF CheckDefinition, At
<1>4. CASE CheckDirectory(t)
  BY <1>4, FailMoves DEF CheckDirectory, At
<1>5. CASE StoreDefinition(t)
  BY <1>5, FailMoves, NoSpaceFails DEF StoreDefinition, At
<1>6. CASE RenameDefinition(t)
  BY <1>6 DEF RenameDefinition, At
<1>7. CASE StoreHistory(t)
  BY <1>7, FailMoves, NoSpaceFails DEF StoreHistory, At
<1>8. CASE StoreResult(t)
  BY <1>8, FailMoves, NoSpaceFails DEF StoreResult, At
<1>9. CASE ListDirectory(t)
  BY <1>9 DEF ListDirectory, At
<1>10. CASE RemoveDirectory(t)
  BY <1>10, FailMoves DEF RemoveDirectory, At
<1>11. CASE Finish(t)
  BY <1>11 DEF Finish, Return
<1>12. CASE FinishPut(t)
  BY <1>12 DEF FinishPut, At
<1> QED BY <1>1, <1>2, <1>3, <1>4, <1>5, <1>6, <1>7, <1>8, <1>9, <1>10, <1>11, <1>12

\* A writer has the lock, so the rest it finds missing is its own.
LEMMA RestIsOnes ==
  ASSUME StoreInv, NEW t \in Handlers, NEW u \in Handlers, job[t] # Idle, Writing(job[t]), AtRest(u),
         job[u].ws = job[t].ws
  PROVE  u = t
<1>1. job[u] # Idle /\ Writing(job[u])
  BY DEF AtRest, Writing
<1>2. lock[job[t].ws] = t /\ lock[job[u].ws] = u
  BY <1>1, Acting
<1> QED BY <1>2

LEMMA WrittenUnbroken ==
  ASSUME StoreInv, NEW t \in Handlers, AppendRun(t) \/ AppendRest(t),
         \A w \in WorkspaceIds : Unbroken(w)
  PROVE  \A w \in WorkspaceIds : Unbroken(w)'
<1> PICK v : v = job[t].ws
  OBVIOUS
<1>1. job[t] # Idle /\ job[t].op \in {"run", "post"} /\ job[t].pc \in {"append", "rest"}
  BY NotIdle DEF AppendRun, AppendRest, At, Ops
<1>2. v \in WorkspaceIds /\ Writing(job[t]) /\ job[t].run \in Runs /\ job[t].cached \in BOOLEAN
  BY <1>1, Acting DEF Writing
<1>3. CASE OutOfSpace /\ Fail(t)
  <2>1. OnlyMoves(t) /\ log' = log /\ failures' # 0
    BY <1>3, FailMoves, NoSpaceFails DEF OnlyMoves
  <2> QED BY <2>1, UnbrokenStays
<1>4. ASSUME NEW part \in {"whole", "head", "tail"}, NEW pc \in {"rest", "done"}, Write(t, part), Goto(t, pc),
             UNCHANGED <<bounds, ghosts>>, job[t].pc = "append" => part # "tail",
             job[t].pc = "rest" => part = "tail", part = "head" => pc = "rest"
      PROVE  \A w \in WorkspaceIds : Unbroken(w)'
  <2> DEFINE p == [run |-> job[t].run, cached |-> job[t].cached, part |-> part]
  <2>1. p \in Piece /\ p.part = part /\ log[v] \in Seq(Piece)
    BY <1>2 DEF Piece, StoreInv, StoreTypeOK
  <2>2. log' = [log EXCEPT ![v] = Append(log[v], p)]
    BY <1>4 DEF Write
  <2> HIDE DEF p
  <2>3. Went(t, pc)
    BY <1>1, <1>4, GotoStep DEF StoreInv, Places
  <2>4. OnlyMoves(t)
    BY <1>4, <2>3 DEF OnlyMoves, Went, bounds, ghosts
  <2>5. ASSUME NEW w \in WorkspaceIds, w # v PROVE Unbroken(w)'
    <3>1. log'[w] = log[w] /\ ~(AtRest(t) /\ job[t].ws = w)
      BY <2>2, <2>5 DEF StoreInv, StoreTypeOK
    <3> QED BY <2>4, <3>1, UnbrokenStays
  <2>6. Unbroken(v)'
    <3> SUFFICES ASSUME failures' = 0, crashes' = 0, v \notin doomed' \cup raced'
                 PROVE  /\ HeadsHaveTails(log'[v])
                        /\ OpenAtTheEnd(log'[v]) => \E u \in Handlers : AtRest(u)' /\ job'[u].ws = v
      BY DEF Unbroken
    <3>1. /\ HeadsHaveTails(log[v])
          /\ OpenAtTheEnd(log[v]) => \E u \in Handlers : AtRest(u) /\ job[u].ws = v
      BY <1>2, <2>4 DEF Unbroken, OnlyMoves
    <3>2. OpenAtTheEnd(log[v]) => AtRest(t)
      BY <1>1, <1>2, <3>1, RestIsOnes
    <3>3. OpenAtTheEnd(log[v]) => p.part = "tail"
      BY <1>4, <2>1, <3>2 DEF AtRest
    <3>4. log'[v] = Append(log[v], p)
      BY <1>2, <2>2 DEF StoreInv, StoreTypeOK
    <3>5. HeadsHaveTails(log'[v]) /\ (OpenAtTheEnd(log'[v]) => part = "head")
      BY <2>1, <3>1, <3>3, <3>4, PieceFits
    <3>6. part = "head" => AtRest(t)' /\ job'[t].ws = v
      BY <1>1, <1>4, <2>3 DEF Went, AtRest
    <3> QED BY <3>5, <3>6
  <2> QED BY <2>5, <2>6
<1>5. CASE AppendRun(t)
  <2>1. job[t].pc = "append"
    BY <1>5 DEF AppendRun, At
  <2>2. \/ Write(t, "whole") /\ Goto(t, "done") /\ UNCHANGED <<bounds, ghosts>>
        \/ Write(t, "head") /\ Goto(t, "rest") /\ UNCHANGED <<bounds, ghosts>>
        \/ OutOfSpace /\ Fail(t)
    BY <1>5 DEF AppendRun
  <2>3. CASE Write(t, "whole") /\ Goto(t, "done") /\ UNCHANGED <<bounds, ghosts>>
    BY <1>4, <2>1, <2>3
  <2>4. CASE Write(t, "head") /\ Goto(t, "rest") /\ UNCHANGED <<bounds, ghosts>>
    BY <1>4, <2>1, <2>4
  <2> QED BY <1>3, <2>2, <2>3, <2>4
<1>6. CASE AppendRest(t)
  <2>1. job[t].pc = "rest"
    BY <1>6 DEF AppendRest, At
  <2>2. \/ Write(t, "tail") /\ Goto(t, "done") /\ UNCHANGED <<bounds, ghosts>>
        \/ OutOfSpace /\ Fail(t)
    BY <1>6 DEF AppendRest
  <2>3. CASE Write(t, "tail") /\ Goto(t, "done") /\ UNCHANGED <<bounds, ghosts>>
    BY <1>4, <2>1, <2>3
  <2> QED BY <1>3, <2>2, <2>3
<1> QED BY <1>5, <1>6

\* A removal, or an import, takes the history away.
LEMMA TakenUnbroken ==
  ASSUME StoreInv, NEW t \in Handlers, AttachHistory(t) \/ RemoveItem(t),
         \A w \in WorkspaceIds : Unbroken(w)
  PROVE  \A w \in WorkspaceIds : Unbroken(w)'
<1> PICK v : v = job[t].ws
  OBVIOUS
<1>1. job[t] # Idle /\ job[t].op \in {"import", "delete"} /\ UNCHANGED bounds
  BY NotIdle DEF AttachHistory, RemoveItem, At, Ops
<1>2. v \in WorkspaceIds /\ ~AtRest(t)
  BY <1>1, Acting DEF AtRest
<1>3. OnlyMoves(t)
  <2>1. CASE AttachHistory(t)
    BY <1>1, <2>1, FailMoves DEF AttachHistory, OnlyMoves, Goto, bounds, StoreInv, StoreTypeOK
  <2>2. CASE RemoveItem(t)
    BY <1>1, <2>2 DEF RemoveItem, OnlyMoves, bounds, ghosts, StoreInv, StoreTypeOK
  <2> QED BY <2>1, <2>2
<1>4. \A w \in WorkspaceIds : w # v => log'[w] = log[w]
  <2>1. CASE AttachHistory(t)
    BY <2>1, FailMoves DEF AttachHistory, StoreInv, StoreTypeOK
  <2>2. CASE RemoveItem(t)
    BY <2>2 DEF RemoveItem, StoreInv, StoreTypeOK
  <2> QED BY <2>1, <2>2
<1>5. \/ log'[v] = log[v] \/ v \in doomed' \cup raced'
      \/ log'[v] = <<[run |-> Imported, cached |-> FALSE, part |-> "whole"]>>
  <2>1. CASE AttachHistory(t)
    BY <1>2, <2>1, FailMoves DEF AttachHistory, StoreInv, StoreTypeOK
  <2>2. CASE RemoveItem(t)
    <3>1. v \in doomed
      BY <1>1, <2>2, Acting DEF JobIsSound, RemoveItem, At
    <3> QED BY <2>2, <3>1 DEF RemoveItem, ghosts
  <2> QED BY <2>1, <2>2
<1>6. Unbroken(v)'
  <2>1. CASE log'[v] = log[v]
    BY <1>2, <1>3, <2>1, UnbrokenStays
  <2>2. CASE v \in doomed' \cup raced'
    BY <2>2 DEF Unbroken
  <2>3. CASE log'[v] = <<[run |-> Imported, cached |-> FALSE, part |-> "whole"]>>
    <3> DEFINE h == <<[run |-> Imported, cached |-> FALSE, part |-> "whole"]>>
    <3>1. HeadsHaveTails(h) /\ ~OpenAtTheEnd(h)
      BY DEF HeadsHaveTails, OpenAtTheEnd
    <3> QED BY <2>3, <3>1 DEF Unbroken
  <2> QED BY <1>5, <2>1, <2>2, <2>3
<1> QED BY <1>2, <1>3, <1>4, <1>6, UnbrokenStays

LEMMA NextUnbroken ==
  ASSUME StoreInv, [StoreNext]_storeVars, \A w \in WorkspaceIds : Unbroken(w)
  PROVE  \A w \in WorkspaceIds : Unbroken(w)'
<1>1. ASSUME NEW t \in Handlers, Arrive(t) \/ Step(t) PROVE \A w \in WorkspaceIds : Unbroken(w)'
  BY <1>1, UnwrittenUnbroken, UnbrokenStays, WrittenUnbroken, TakenUnbroken DEF Step
<1>2. CASE Crash
  BY <1>2 DEF Crash, Unbroken, StoreInv, StoreTypeOK
<1>3. CASE UNCHANGED storeVars
  BY <1>3 DEF Unbroken, AtRest, storeVars, disk, bounds, ghosts
<1> QED BY <1>1, <1>2, <1>3 DEF StoreNext, Quiet

LEMMA InitUnbroken == StoreInit => \A w \in WorkspaceIds : Unbroken(w)
  BY DEF StoreInit, Unbroken, HeadsHaveTails, OpenAtTheEnd

-----------------------------------------------------------------------------
\* The invariant says what the properties say.
LEMMA InvIsEnough ==
  ASSUME StoreInv, \A w \in WorkspaceIds : Unbroken(w)
  PROVE  StoreTypeOK /\ StoredStays /\ HistoryIsSound
<1>1. DefinitionStays /\ RemovedStaysRemoved
  BY DEF StoreInv, StoreTypeOK, DiskIsSound, DefinitionStays, RemovedStaysRemoved
<1>2. CachedMeansStored
  BY DEF StoreInv, LogIsSound, CachedMeansStored, Shown, RecordAt
<1>3. ASSUME NEW w \in WorkspaceIds \ (doomed \cup raced), NEW r \in Runs, HasRecord(log[w], r)
      PROVE  Shown(w, r) \/ (Glued(w, r) /\ failures + crashes > 0)
  <2>1. PICK i \in DOMAIN log[w] : RecordAt(w, r, i)
    BY <1>3 DEF HasRecord, RecordAt
  <2>2. ASSUME ~LineStart(w, i) PROVE failures + crashes > 0
    <3>1. /\ log[w] \in Seq(Piece) /\ failures \in Nat /\ crashes \in Nat
          /\ i - 1 \in DOMAIN log[w] /\ i - 1 < Len(log[w]) /\ i = (i - 1) + 1
          /\ log[w][i - 1].part = "head"
      BY <2>2, StoreAssumption DEF LineStart, StoreInv, StoreTypeOK
    <3>2. log[w][i].part # "tail"
      BY <2>1 DEF RecordAt
    <3>3. ~HeadsHaveTails(log[w])
      BY <3>1, <3>2 DEF HeadsHaveTails
    <3> QED BY <3>1, <3>3 DEF Unbroken
  <2> QED BY <2>1, <2>2 DEF Shown, Glued
<1>4. RunsKept
  BY <1>3 DEF StoreInv, LogIsSound, RunsKept
<1> QED BY <1>1, <1>2, <1>4 DEF StoreInv, StoredStays, HistoryIsSound

\* The invariant holds in every state the store can be in.
THEOREM StoreSoundness == StoreSpec => [](StoreInv /\ \A w \in WorkspaceIds : Unbroken(w))
<1> DEFINE Inv == StoreInv /\ \A w \in WorkspaceIds : Unbroken(w)
<1>1. StoreInit => Inv
  BY InitStoreInv, InitUnbroken
<1>2. Inv /\ [StoreNext]_storeVars => Inv'
  BY NextStoreInv, NextUnbroken
<1> QED BY <1>1, <1>2, PTL DEF StoreSpec

\* Every file, lock and request of the store is of its type, wherever the server
\* has died.
THEOREM StoreTypeCorrect == StoreSpec => []StoreTypeOK
<1> QED BY StoreSoundness, InvIsEnough, PTL

\* A workspace that was whole can be loaded until its removal begins, whatever is
\* saved over it and whenever the server dies; and one whose removal has returned
\* does not come back (workspace.rs:231-233, 330-338, 516).
THEOREM WhatIsStoredStays == StoreSpec => []StoredStays
<1> QED BY StoreSoundness, InvIsEnough, PTL

\* A record that says its result is cached has its result, but for one that was
\* sent ahead of a result that is not acknowledged yet (api.rs:1562-1564).  The
\* record of a run whose append has returned stays in the file until the workspace
\* is removed or an import replaces the history, and the history shows it as long
\* as no write has failed and the server has not died; after that it may follow a
\* fragment, and is skipped (workspace.rs:206-210, 346-351).
THEOREM HistorySaysWhatWasRecorded == StoreSpec => []HistoryIsSound
<1> QED BY StoreSoundness, InvIsEnough, PTL
=============================================================================
