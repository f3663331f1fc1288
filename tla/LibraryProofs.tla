--------------------------- MODULE LibraryProofs ---------------------------
(* Machine-checked facts about Library: whatever fails or crashes, and however*)
(* many requests interleave, rows name complete files, one row each.          *)
EXTENDS Library, FiniteSetTheorems, TLAPS

Ops   == {"none", "submit", "handle"} \cup Filing \cup Jobs
Steps == {"idle", "ready", "writing", "saved", "reading", "read"}

Code  == {Idle.code} \cup (Types \X Nat)

ReqType == [op : Ops, step : Steps, code : Code, seen : Nat,
            path : 0..MaxPaths, saved : SUBSET Paths]
RefRow  == [code : Code, path : Paths, status : RefStatus, by : Filing, seen : Nat]

\* The types the argument needs; no bound on the counts.
Typed ==
  /\ store \in [Paths -> {"absent", "part", "complete"}]
  /\ refs \in Seq(RefRow)
  /\ rows \in [Paths -> Nat]
  /\ req \in [Requests -> ReqType]

\* The files a request has stored or is writing, which nobody else knows yet.
Held(r) == req[r].saved \cup (IF req[r].step = "writing" THEN {req[r].path} ELSE {})

RefPath(p) == \E i \in 1..Len(refs) : refs[i].path = p

\* What a request goes through: it writes a part, and has saved complete files;
\* an upload that has saved its file has saved that file.
Progress ==
  \A r \in Requests :
    /\ req[r].step = "writing" => req[r].path \in Paths /\ store[req[r].path] = "part"
    /\ \A p \in req[r].saved : store[p] = "complete"
    /\ (req[r].op \in Filing /\ req[r].step \in {"saved", "reading", "read"}) =>
          req[r].path \in req[r].saved

\* A file belongs to one request, or to one row, or to one reference.
Owned ==
  /\ \A r \in Requests : \A p \in Held(r) : rows[p] = 0 /\ ~RefPath(p)
  /\ \A r, q \in Requests : r # q => Held(r) \cap Held(q) = {}
  /\ \A p \in Paths : rows[p] <= 1 /\ (rows[p] = 1 => ~RefPath(p))
  /\ \A i, j \in 1..Len(refs) : refs[i].path = refs[j].path => i = j

Complete == \A p \in Paths : (rows[p] > 0 \/ RefPath(p)) => store[p] = "complete"

LibraryInv == Typed /\ Progress /\ Owned /\ Complete

----------------------------------------------------------------------------
LEMMA IdleTyped == Idle \in ReqType /\ Idle.saved = {} /\ Idle.step = "idle" /\ Idle.op = "none"
  BY BoundsAssumption DEF Idle, ReqType, Ops, Steps, Code

\* A file being written is no complete one, and only a request that writes it
\* or has saved it holds it.
LEMMA HeldFiles ==
  ASSUME LibraryInv, NEW r \in Requests, NEW p \in Held(r)
  PROVE  p \in Paths /\ store[p] # "absent"
  BY DEF LibraryInv, Progress, Typed, ReqType, Held

\* A request that ends without a commit lets go of its files.
LEMMA RequestEnds ==
  ASSUME LibraryInv, NEW r \in Requests, req' = [req EXCEPT ![r] = Idle],
         UNCHANGED <<store, refs, rows>>
  PROVE  LibraryInv'
<1>1. Typed'
  BY IdleTyped DEF LibraryInv, Typed
<1>2. Progress'
  BY IdleTyped DEF LibraryInv, Typed, Progress
<1>3. \A q \in Requests : Held(q)' \subseteq Held(q)
  BY IdleTyped DEF LibraryInv, Typed, Held
<1>4. Owned'
  BY <1>3 DEF LibraryInv, Owned, RefPath
<1>5. Complete'
  BY DEF LibraryInv, Complete, RefPath
<1> QED BY <1>1, <1>2, <1>4, <1>5 DEF LibraryInv

\* A request that goes on with the files it has.
LEMMA RequestGoesOn ==
  ASSUME LibraryInv, NEW r \in Requests, NEW q \in ReqType,
         req' = [req EXCEPT ![r] = q], UNCHANGED <<store, refs, rows>>,
         q.saved = req[r].saved, q.step # "writing",
         (q.op \in Filing /\ q.step \in {"saved", "reading", "read"}) => q.path \in q.saved
  PROVE  LibraryInv'
<1>1. Typed'
  BY DEF LibraryInv, Typed
<1>2. Progress'
  BY DEF LibraryInv, Typed, Progress
<1>3. \A x \in Requests : Held(x)' \subseteq Held(x)
  BY DEF LibraryInv, Typed, Held
<1>4. Owned'
  BY <1>3 DEF LibraryInv, Owned, RefPath
<1>5. Complete'
  BY DEF LibraryInv, Complete, RefPath
<1> QED BY <1>1, <1>2, <1>4, <1>5 DEF LibraryInv

----------------------------------------------------------------------------
LEMMA InitHolds == LInit => LibraryInv
<1> SUFFICES ASSUME LInit PROVE LibraryInv
  OBVIOUS
<1>1. \A p \in Paths : ~RefPath(p)
  BY DEF LInit, RefPath
<1>2. \A r \in Requests : Held(r) = {}
  BY IdleTyped DEF LInit, Held
<1> QED
  BY <1>1, <1>2, IdleTyped DEF LInit, LibraryInv, Typed, Progress, Owned, Complete

LEMMA SaveBeginsHolds ==
  ASSUME LibraryInv, NEW r \in Requests, SaveBegins(r)
  PROVE  LibraryInv'
<1>1. PICK p \in Paths :
        /\ store[p] = "absent"
        /\ store' = [store EXCEPT ![p] = "part"]
        /\ req' = [req EXCEPT ![r] = [req[r] EXCEPT !.step = "writing", !.path = p]]
  BY DEF SaveBegins, Store, Become
<1>2. req[r].step = "ready" /\ UNCHANGED <<refs, rows>>
  BY DEF SaveBegins
<1>3. p \in 0..MaxPaths
  BY BoundsAssumption DEF Paths
<1>4. Typed'
  <2>1. [req[r] EXCEPT !.step = "writing", !.path = p] \in ReqType
    BY <1>3 DEF LibraryInv, Typed, ReqType, Steps
  <2> QED BY <1>1, <1>2, <2>1 DEF LibraryInv, Typed
<1>5. rows[p] = 0 /\ ~RefPath(p)
  BY <1>1 DEF LibraryInv, Complete, Typed
<1>6. \A q \in Requests : p \notin Held(q)
  BY <1>1, HeldFiles
<1>7. Held(r)' = Held(r) \cup {p} /\ \A q \in Requests \ {r} : Held(q)' = Held(q)
  BY <1>1, <1>2 DEF LibraryInv, Typed, ReqType, Held
<1>8. Progress'
  <2> SUFFICES ASSUME NEW q \in Requests
      PROVE  /\ req'[q].step = "writing" => req'[q].path \in Paths /\ store'[req'[q].path] = "part"
             /\ \A x \in req'[q].saved : store'[x] = "complete"
             /\ (req'[q].op \in Filing /\ req'[q].step \in {"saved", "reading", "read"}) =>
                   req'[q].path \in req'[q].saved
    BY DEF Progress
  <2>1. req'[q].saved = req[q].saved /\ req'[q].op = req[q].op
    BY <1>1 DEF LibraryInv, Typed, ReqType
  <2>2. p \notin req[q].saved
    BY <1>6 DEF Held
  <2>3. CASE q = r
    BY <1>1, <2>1, <2>2, <2>3 DEF LibraryInv, Typed, ReqType, Progress
  <2>4. CASE q # r
    BY <1>1, <1>6, <2>1, <2>2, <2>4 DEF LibraryInv, Typed, ReqType, Progress, Held
  <2> QED BY <2>3, <2>4
<1>9. Owned'
  BY <1>2, <1>5, <1>6, <1>7 DEF LibraryInv, Owned, RefPath
<1>10. Complete'
  BY <1>1, <1>2, <1>5 DEF LibraryInv, Complete, RefPath, Typed
<1> QED BY <1>4, <1>8, <1>9, <1>10 DEF LibraryInv

LEMMA SaveEndsHolds ==
  ASSUME LibraryInv, NEW r \in Requests, SaveEnds(r)
  PROVE  LibraryInv'
<1> DEFINE p == req[r].path
<1>1. PICK step \in {"saved", "ready"} :
        req' = [req EXCEPT ![r] = [req[r] EXCEPT !.step = step, !.saved = @ \cup {p}]]
  BY DEF SaveEnds, Become
<1>2. /\ req[r].step = "writing" /\ UNCHANGED <<refs, rows>>
      /\ store' = [store EXCEPT ![p] = "complete"]
  BY DEF SaveEnds
<1>3. p \in Paths /\ p \in Held(r)
  BY <1>2 DEF LibraryInv, Progress, Held
<1>4. req[r] \in ReqType /\ req'[r] = [req[r] EXCEPT !.step = step, !.saved = @ \cup {p}]
      /\ \A q \in Requests \ {r} : req'[q] = req[q]
  BY <1>1 DEF LibraryInv, Typed
<1>5. req'[r] \in ReqType /\ req'[r].saved = req[r].saved \cup {p} /\ req'[r].step = step
      /\ req'[r].path = p
  <2>1. [req[r] EXCEPT !.step = step, !.saved = @ \cup {p}] \in ReqType
    BY <1>3, <1>4 DEF ReqType, Steps
  <2>2. req'[r].saved = req[r].saved \cup {p} /\ req'[r].step = step /\ req'[r].path = p
    BY <1>4 DEF ReqType
  <2> QED BY <1>4, <2>1, <2>2
<1>6. Typed'
  BY <1>1, <1>2, <1>3, <1>4, <1>5 DEF LibraryInv, Typed
<1>7. Held(r)' = Held(r) /\ \A q \in Requests \ {r} : Held(q)' = Held(q)
  BY <1>2, <1>4, <1>5 DEF Held
<1>8. Progress'
  <2> SUFFICES ASSUME NEW q \in Requests
      PROVE  /\ req'[q].step = "writing" => req'[q].path \in Paths /\ store'[req'[q].path] = "part"
             /\ \A x \in req'[q].saved : store'[x] = "complete"
             /\ (req'[q].op \in Filing /\ req'[q].step \in {"saved", "reading", "read"}) =>
                   req'[q].path \in req'[q].saved
    BY DEF Progress
  <2>1. CASE q = r
    BY <1>2, <1>3, <1>5, <2>1 DEF LibraryInv, Typed, ReqType, Progress
  <2>2. CASE q # r
    <3>1. p \notin Held(q)
      BY <1>3, <2>2 DEF LibraryInv, Owned
    <3> QED BY <1>2, <1>4, <2>2, <3>1 DEF LibraryInv, Typed, ReqType, Progress, Held
  <2> QED BY <2>1, <2>2
<1>9. Owned'
  BY <1>2, <1>7 DEF LibraryInv, Owned, RefPath
<1>10. Complete'
  BY <1>2 DEF LibraryInv, Complete, RefPath, Typed
<1> QED BY <1>6, <1>8, <1>9, <1>10 DEF LibraryInv

LEMMA CommitWorkHolds ==
  ASSUME LibraryInv, NEW r \in Requests, CommitWork(r)
  PROVE  LibraryInv'
<1>1. /\ req' = [req EXCEPT ![r] = Idle] /\ UNCHANGED <<store, refs>>
      /\ rows' = [p \in Paths |-> rows[p] + (IF p \in req[r].saved THEN 1 ELSE 0)]
  BY DEF CommitWork, Naming, Become
<1>2. /\ req'[r] = Idle /\ \A q \in Requests \ {r} : req'[q] = req[q]
      /\ req[r].saved \subseteq Paths
  BY <1>1 DEF LibraryInv, Typed, ReqType
<1>3. Typed'
  BY <1>1, IdleTyped DEF LibraryInv, Typed
<1>4. Progress'
  BY <1>1, <1>2, IdleTyped DEF LibraryInv, Progress
<1>5. Held(r)' = {} /\ \A q \in Requests \ {r} : Held(q)' = Held(q)
  BY <1>2, IdleTyped DEF Held
<1>6. \A p \in req[r].saved : rows[p] = 0 /\ ~RefPath(p) /\ \A q \in Requests \ {r} : p \notin Held(q)
  BY DEF LibraryInv, Owned, Held
<1>7. \A p \in Paths : IF p \in req[r].saved THEN rows'[p] = 1 ELSE rows'[p] = rows[p]
  BY <1>1, <1>6 DEF LibraryInv, Typed
<1>8. Owned'
  <2>1. ASSUME NEW q \in Requests, NEW p \in Held(q)' PROVE rows'[p] = 0 /\ ~RefPath(p)'
    <3>1. q # r /\ p \in Held(q)
      BY <1>5, <2>1
    <3>2. p \in Paths
      BY <3>1, HeldFiles
    <3> QED BY <1>1, <1>6, <1>7, <3>1, <3>2 DEF LibraryInv, Owned, RefPath
  <2>2. \A x, q \in Requests : x # q => Held(x)' \cap Held(q)' = {}
    BY <1>5 DEF LibraryInv, Owned
  <2>3. \A p \in Paths : rows'[p] <= 1 /\ (rows'[p] = 1 => ~RefPath(p)')
    BY <1>1, <1>6, <1>7 DEF LibraryInv, Owned, RefPath
  <2>4. \A i, j \in 1..Len(refs') : refs'[i].path = refs'[j].path => i = j
    BY <1>1 DEF LibraryInv, Owned
  <2> QED BY <2>1, <2>2, <2>3, <2>4 DEF Owned
<1>9. Complete'
  BY <1>1, <1>7 DEF LibraryInv, Complete, Progress, RefPath, Typed
<1> QED BY <1>3, <1>4, <1>8, <1>9 DEF LibraryInv

LEMMA CommitUploadHolds ==
  ASSUME LibraryInv, NEW r \in Requests, CommitUpload(r)
  PROVE  LibraryInv'
<1> DEFINE p   == req[r].path
           new == [code |-> req[r].code, path |-> p, status |-> "ACTIVE",
                   by |-> req[r].op, seen |-> req[r].seen]
<1>1. /\ req' = [req EXCEPT ![r] = Idle] /\ UNCHANGED <<store, rows>>
      /\ refs' = Append(refs, new)
      /\ req[r].op \in Filing /\ req[r].step = "read"
  BY DEF CommitUpload, Become
<1>2. p \in req[r].saved
  BY <1>1 DEF LibraryInv, Progress
<1>3. /\ req'[r] = Idle /\ \A q \in Requests \ {r} : req'[q] = req[q]
      /\ p \in Paths /\ new \in RefRow
  BY <1>1, <1>2 DEF LibraryInv, Typed, ReqType, RefRow, RefStatus, Filing
<1>4. refs' \in Seq(RefRow)
  BY <1>1, <1>3 DEF LibraryInv, Typed
<1>5. Typed'
  BY <1>1, <1>4, IdleTyped DEF LibraryInv, Typed
<1>6. Progress'
  BY <1>1, <1>3, IdleTyped DEF LibraryInv, Progress
<1>7. Held(r)' = {} /\ \A q \in Requests \ {r} : Held(q)' = Held(q)
  BY <1>3, IdleTyped DEF Held
<1>8. rows[p] = 0 /\ ~RefPath(p) /\ \A q \in Requests \ {r} : p \notin Held(q)
  BY <1>2 DEF LibraryInv, Owned, Held
<1>9. /\ Len(refs') = Len(refs) + 1 /\ refs'[Len(refs) + 1].path = p /\ Len(refs) \in Nat
      /\ \A i \in 1..Len(refs) : refs'[i] = refs[i]
  BY <1>1, <1>3 DEF LibraryInv, Typed
<1>10. \A x : RefPath(x)' <=> (RefPath(x) \/ x = p)
  BY <1>9 DEF RefPath
<1>11. Owned'
  <2>1. \A q \in Requests : \A x \in Held(q)' : rows'[x] = 0 /\ ~RefPath(x)'
    BY <1>1, <1>7, <1>8, <1>10 DEF LibraryInv, Owned
  <2>2. \A x, q \in Requests : x # q => Held(x)' \cap Held(q)' = {}
    BY <1>7 DEF LibraryInv, Owned
  <2>3. \A x \in Paths : rows'[x] <= 1 /\ (rows'[x] = 1 => ~RefPath(x)')
    BY <1>1, <1>8, <1>10 DEF LibraryInv, Owned
  <2>4. ASSUME NEW i \in 1..Len(refs'), NEW j \in 1..Len(refs'), refs'[i].path = refs'[j].path
        PROVE  i = j
    <3>1. CASE i \in 1..Len(refs) /\ j \in 1..Len(refs)
      BY <1>9, <2>4, <3>1 DEF LibraryInv, Owned
    <3>2. CASE i = Len(refs) + 1 \/ j = Len(refs) + 1
      BY <1>8, <1>9, <2>4, <3>2 DEF RefPath
    <3> QED BY <1>9, <3>1, <3>2
  <2> QED BY <2>1, <2>2, <2>3, <2>4 DEF Owned
<1>12. Complete'
  BY <1>1, <1>2, <1>10 DEF LibraryInv, Complete, Progress
<1> QED BY <1>5, <1>6, <1>11, <1>12 DEF LibraryInv

LEMMA SetStatusHolds ==
  ASSUME LibraryInv, NEW i \in 1..Len(refs), NEW status, SetStatus(i, status)
  PROVE  LibraryInv'
<1>1. /\ refs' = [refs EXCEPT ![i].status = status] /\ UNCHANGED <<store, rows, req>>
      /\ status \in RefStatus
  BY DEF SetStatus
<1>2. refs' \in Seq(RefRow) /\ Len(refs') = Len(refs) /\ \A j \in 1..Len(refs) : refs'[j].path = refs[j].path
  <2>1. refs \in Seq(RefRow) /\ refs[i] \in RefRow
    BY DEF LibraryInv, Typed
  <2>2. [refs[i] EXCEPT !.status = status] \in RefRow
    BY <1>1, <2>1 DEF RefRow
  <2>3. refs' = [refs EXCEPT ![i] = [refs[i] EXCEPT !.status = status]]
    BY <1>1
  <2>4. refs' \in Seq(RefRow) /\ Len(refs') = Len(refs)
    BY <2>1, <2>2, <2>3
  <2>5. \A j \in 1..Len(refs) : refs'[j].path = refs[j].path
    BY <2>1, <2>3 DEF RefRow
  <2> QED BY <2>4, <2>5
<1>3. \A x : RefPath(x)' <=> RefPath(x)
  BY <1>2 DEF RefPath
<1>4. \A q \in Requests : Held(q)' = Held(q)
  BY <1>1 DEF Held
<1> QED
  BY <1>1, <1>2, <1>3, <1>4 DEF LibraryInv, Typed, Progress, Owned, Complete

\* Every step keeps the invariant.
LEMMA LibraryStep == LibraryInv /\ [LNext]_libraryVars => LibraryInv'
<1> SUFFICES ASSUME LibraryInv, [LNext]_libraryVars PROVE LibraryInv'
  OBVIOUS
<1>0. \A r \in Requests : req[r] \in ReqType
  BY DEF LibraryInv, Typed
<1>1. ASSUME NEW r \in Requests, NEW type \in Types, BeginUpload(r, type) PROVE LibraryInv'
  <2> DEFINE q == [Idle EXCEPT !.op = "upload", !.step = "ready", !.code = NextCode(type), !.seen = Len(refs)]
  <2>1. req[r] = Idle /\ req' = [req EXCEPT ![r] = q] /\ UNCHANGED <<store, refs, rows>>
    BY <1>1 DEF BeginUpload, Become
  <2>2. NextCode(type) \in Code /\ Len(refs) \in Nat
    BY DEF NextCode, LibraryInv, Typed, Code
  <2>3. q \in ReqType /\ q.saved = {} /\ q.step = "ready"
    BY <2>2, IdleTyped DEF ReqType, Ops, Steps, Filing
  <2> HIDE DEF q
  <2> QED BY <2>1, <2>3, IdleTyped, RequestGoesOn
<1>10. ASSUME NEW r \in Requests, NEW type \in SeedTypes, BeginSeed(r, type) PROVE LibraryInv'
  <2> DEFINE q == [Idle EXCEPT !.op = "seed", !.step = "ready", !.code = <<type, 1>>]
  <2>1. req[r] = Idle /\ req' = [req EXCEPT ![r] = q] /\ UNCHANGED <<store, refs, rows>>
    BY <1>10 DEF BeginSeed, Become
  <2>2. <<type, 1>> \in Code
    BY SeedAssumption DEF Code
  <2>3. q \in ReqType /\ q.saved = {} /\ q.step = "ready"
    BY <2>2, IdleTyped DEF ReqType, Ops, Steps, Filing
  <2> HIDE DEF q
  <2> QED BY <2>1, <2>3, IdleTyped, RequestGoesOn
<1>2. ASSUME NEW r \in Requests, NEW op \in {"submit"} \cup Jobs, BeginWork(r, op) PROVE LibraryInv'
  <2> DEFINE q == [Idle EXCEPT !.op = op, !.step = "ready"]
  <2>1. req[r] = Idle /\ req' = [req EXCEPT ![r] = q] /\ UNCHANGED <<store, refs, rows>>
    BY <1>2 DEF BeginWork, Become
  <2>2. q \in ReqType /\ q.saved = {} /\ q.step = "ready"
    BY IdleTyped DEF ReqType, Ops, Steps
  <2> HIDE DEF q
  <2> QED BY <2>1, <2>2, IdleTyped, RequestGoesOn
<1>3. ASSUME NEW r \in Requests, RefuseJob(r) PROVE LibraryInv'
  BY <1>3, RequestEnds DEF RefuseJob, Become
<1>4. ASSUME NEW r \in Requests, BeginHandle(r) PROVE LibraryInv'
  <2>1. PICK p \in Paths : Become(r, [Idle EXCEPT !.op = "handle", !.step = "reading", !.path = p])
    BY <1>4 DEF BeginHandle
  <2> DEFINE q == [Idle EXCEPT !.op = "handle", !.step = "reading", !.path = p]
  <2>2. req[r] = Idle /\ req' = [req EXCEPT ![r] = q] /\ UNCHANGED <<store, refs, rows>>
    BY <1>4, <2>1 DEF BeginHandle, Become
  <2>3. p \in 0..MaxPaths
    BY BoundsAssumption DEF Paths
  <2>4. q \in ReqType /\ q.saved = {} /\ q.step = "reading" /\ q.op \notin Filing
    BY <2>3, IdleTyped DEF ReqType, Ops, Steps, Filing
  <2> HIDE DEF q
  <2> QED BY <2>2, <2>4, IdleTyped, RequestGoesOn
<1>5. ASSUME NEW r \in Requests, ReadBack(r) PROVE LibraryInv'
  <2> DEFINE q == [req[r] EXCEPT !.step = "reading"]
  <2>1. /\ req' = [req EXCEPT ![r] = q] /\ UNCHANGED <<store, refs, rows>>
        /\ req[r].op \in Filing /\ req[r].step = "saved"
    BY <1>5 DEF ReadBack, Become
  <2>2. /\ q \in ReqType /\ q.saved = req[r].saved /\ q.path = req[r].path
        /\ q.step = "reading"
    BY <1>0 DEF ReqType, Steps
  <2>3. q.path \in q.saved
    BY <2>1, <2>2 DEF LibraryInv, Progress
  <2> HIDE DEF q
  <2> QED BY <2>1, <2>2, <2>3, RequestGoesOn
<1>6. ASSUME NEW r \in Requests, Analyzed(r) PROVE LibraryInv'
  <2> DEFINE q == [req[r] EXCEPT !.step = "read"]
  <2>1. UNCHANGED <<store, refs, rows>> /\ req[r].step = "reading"
    BY <1>6 DEF Analyzed
  <2>2. CASE req[r].op \notin Filing
    BY <1>6, <2>1, <2>2, RequestEnds DEF Analyzed, Become
  <2>3. CASE req[r].op \in Filing
    <3>1. req' = [req EXCEPT ![r] = q]
      BY <1>6, <2>3 DEF Analyzed, Become
    <3>2. q \in ReqType /\ q.saved = req[r].saved /\ q.path = req[r].path /\ q.step = "read"
      BY <1>0 DEF ReqType, Steps
    <3>3. q.path \in q.saved
      BY <2>1, <2>3, <3>2 DEF LibraryInv, Progress
    <3> HIDE DEF q
    <3> QED BY <2>1, <3>1, <3>2, <3>3, RequestGoesOn
  <2> QED BY <2>2, <2>3
<1>7. ASSUME NEW r \in Requests, Fail(r) PROVE LibraryInv'
  BY <1>7, RequestEnds DEF Fail, Become
<1>8. ASSUME Crash PROVE LibraryInv'
  <2>1. req' = [r \in Requests |-> Idle] /\ UNCHANGED <<store, refs, rows>>
    BY <1>8 DEF Crash
  <2>2. \A r \in Requests : req'[r] = Idle /\ Held(r)' = {}
    BY <2>1, IdleTyped DEF Held
  <2>3. \A x : RefPath(x)' <=> RefPath(x)
    BY <2>1 DEF RefPath
  <2> QED
    BY <2>1, <2>2, <2>3, IdleTyped DEF LibraryInv, Typed, Progress, Owned, Complete
<1>9. CASE UNCHANGED libraryVars
  <2>1. UNCHANGED <<store, refs, rows, req>>
    BY <1>9 DEF libraryVars
  <2> QED BY <2>1 DEF LibraryInv, Typed, Progress, Owned, Complete, Held, RefPath
<1> QED
  BY <1>1, <1>2, <1>3, <1>4, <1>5, <1>6, <1>7, <1>8, <1>9, <1>10, SaveBeginsHolds, SaveEndsHolds,
     CommitWorkHolds, CommitUploadHolds, SetStatusHolds
  DEF LNext

LEMMA LibraryInvariant == LSpec => []LibraryInv
  BY InitHolds, LibraryStep, PTL DEF LSpec

----------------------------------------------------------------------------
\* Every row names a complete file, for any number of requests, files, uploads
\* in progress, crashes and failures (storage.py save, then the commit).
THEOREM NoMissingFiles == LSpec => []RowsHaveFiles
<1>1. LibraryInv => RowsHaveFiles
  BY DEF LibraryInv, Complete, RefPath, RowsHaveFiles, Named, ReferencesOf
<1> QED BY <1>1, LibraryInvariant, PTL

\* No file is named twice, by rows or references, whatever names uploads have.
THEOREM FilesAreApart == LSpec => []FilesHaveOneRow
<1>1. ASSUME LibraryInv, NEW p \in Paths PROVE rows[p] + Cardinality(ReferencesOf(p)) <= 1
  <2>1. rows[p] \in Nat /\ rows[p] <= 1
    BY <1>1 DEF LibraryInv, Typed, Owned
  <2>2. CASE ReferencesOf(p) = {}
    BY <2>1, <2>2, FS_EmptySet
  <2>3. CASE ReferencesOf(p) # {}
    <3>1. PICK i \in 1..Len(refs) : refs[i].path = p
      BY <2>3 DEF ReferencesOf
    <3>2. ReferencesOf(p) = {i}
      BY <1>1, <3>1 DEF ReferencesOf, LibraryInv, Owned
    <3>3. Cardinality(ReferencesOf(p)) = 1
      BY <3>2, FS_Singleton
    <3>4. rows[p] = 0
      BY <1>1, <2>1, <3>1 DEF LibraryInv, Owned, RefPath
    <3> QED BY <3>3, <3>4
  <2> QED BY <2>2, <2>3
<1>2. LibraryInv => FilesHaveOneRow
  BY <1>1 DEF FilesHaveOneRow
<1> QED BY <1>2, LibraryInvariant, PTL

\* Only accepted documents are ever stored, and the extension of a stored name tells
\* which unless the name was mangled, for any set of accepted types, any names and
\* any sizes (validate_document_upload, create_job, sanitize_basename).
THEOREM OnlyDocuments == LSpec => []StoredAreDocuments
<1> DEFINE Inv == DOMAIN kind = Paths /\ StoredAreDocuments
<1>1. LInit => Inv
  BY DEF LInit, StoredAreDocuments
<1>2. ASSUME LibraryInv, Inv, [LNext]_libraryVars PROVE Inv'
  <2>1. ASSUME NEW r \in Requests, SaveBegins(r) PROVE Inv'
    <3>1. PICK p \in Paths : store[p] = "absent" /\ Store(r, p)
      BY <2>1 DEF SaveBegins
    <3>2. PICK f \in Sendable, name \in Documents \cup {"zip", "other"} :
            /\ Admitted(req[r].op, f) /\ name \in StoredExt(f)
            /\ kind' = [kind EXCEPT ![p] = [ext |-> name, content |-> f.content, mangled |-> f.mangled]]
            /\ store' = [store EXCEPT ![p] = "part"]
      BY <3>1 DEF Store
    <3>3. f.ext \in Documents /\ f.content = f.ext
      BY <3>2 DEF Admitted, ValidInJob, ValidUpload, Sniffed
    <3>4. f.mangled \/ name = f.ext
      BY <3>2 DEF StoredExt
    <3>5. kind'[p] = [ext |-> name, content |-> f.content, mangled |-> f.mangled]
      BY <1>2, <3>2
    <3>6. kind'[p].content \in Documents /\ (kind'[p].ext = kind'[p].content \/ kind'[p].mangled)
      BY <3>3, <3>4, <3>5
    <3> QED BY <1>2, <3>2, <3>6 DEF LibraryInv, Typed, StoredAreDocuments
  <2>2. ASSUME NEW r \in Requests, SaveEnds(r) PROVE Inv'
    BY <1>2, <2>2 DEF SaveEnds, LibraryInv, Typed, Progress, StoredAreDocuments
  <2>3. ASSUME UNCHANGED <<store, kind>> PROVE Inv'
    BY <1>2, <2>3 DEF StoredAreDocuments
  <2> QED
    BY <1>2, <2>1, <2>2, <2>3
    DEF LNext, libraryVars, BeginUpload, BeginSeed, BeginWork, RefuseJob, BeginHandle, ReadBack, Analyzed,
        CommitUpload, CommitWork, Fail, Crash, SetStatus
<1>3. Inv => StoredAreDocuments
  OBVIOUS
<1> HIDE DEF Inv
<1> QED BY <1>1, <1>2, <1>3, LibraryInvariant, PTL DEF LSpec

----------------------------------------------------------------------------
(* The bounds of the library, and what is left behind.                        *)

\* What a request carries: an upload, or the seeder, has its code from the start and
\* stores one file; a handler stores none. Only these read.
Shape(q) ==
  /\ q.op \in Filing =>
       /\ q.code \in Types \X (1..MaxRefs) /\ q.saved \subseteq {q.path}
       /\ q.step \in {"ready", "writing"} => q.saved = {}
  /\ q.op \notin Filing => q.code = Idle.code
  /\ q.seen \in 0..MaxRefs
  /\ q.op \in {"none", "handle"} => q.saved = {} /\ q.step \in {"idle", "reading"}
  /\ q.step = "reading" => q.op \in Filing \cup {"handle"}

Shapes == \A r \in Requests : Shape(req[r])

\* An upload begins only if there is room for its reference and for those of all
\* other uploads in progress.
Room == IsFiniteSet(Uploading) /\ Len(refs) + Cardinality(Uploading) <= MaxRefs

RefCodes == \A i \in 1..Len(refs) : refs[i].code \in Types \X (1..MaxRefs)

Losses == losses \in 0..MaxLosses

\* Without a loss, a stored file is named or held by a request that will name it.
Kept ==
  losses = 0 => \A p \in Paths : store[p] # "absent" =>
    rows[p] > 0 \/ RefPath(p) \/ \E r \in Requests : p \in Held(r)

StockInv == LibraryInv /\ Shapes /\ Room /\ RefCodes /\ Losses /\ Kept

LEMMA NoneCounted == MaxRefs \in Nat /\ 0 \in 0..MaxRefs
  BY BoundsAssumption

LEMMA IdleShape == Shape(Idle)
<1>1. /\ Idle.op = "none" /\ Idle.step = "idle" /\ Idle.seen = 0 /\ Idle.saved = {}
  BY DEF Idle
<1> QED BY <1>1, NoneCounted DEF Shape, Filing

\* A request that is going to make a reference begins.
BeginFiling(r) ==
  \/ \E type \in Types : BeginUpload(r, type)
  \/ \E type \in SeedTypes : BeginSeed(r, type)

\* It finds a free place.
LEMMA FilingHasRoom ==
  ASSUME StockInv, NEW r \in Requests, BeginFiling(r)
  PROVE  /\ Len(refs) \in Nat /\ Len(refs) + 1 \in 1..MaxRefs /\ refs' = refs
         /\ r \notin Uploading /\ Uploading' = Uploading \cup {r}
         /\ \A q \in Uploading : req'[q] = req[q]
         /\ Len(refs) + Cardinality(Uploading) + 1 <= MaxRefs
<1>1. Cardinality(Uploading) \in Nat /\ Len(refs) \in Nat /\ MaxRefs \in Nat
  BY FS_CardinalityType, BoundsAssumption DEF StockInv, Room, LibraryInv, Typed
<1>2. Len(refs) + Cardinality(Uploading) < MaxRefs /\ req[r] = Idle /\ refs' = refs
  BY DEF BeginFiling, BeginUpload, BeginSeed, HasRoom
<1>3. Len(refs) + 1 \in 1..MaxRefs /\ Len(refs) + Cardinality(Uploading) + 1 <= MaxRefs
  BY <1>1, <1>2
<1>4. PICK q : req' = [req EXCEPT ![r] = q] /\ q.op \in Filing
  <2>1. ASSUME NEW type \in Types, BeginUpload(r, type)
        PROVE  \E q : req' = [req EXCEPT ![r] = q] /\ q.op \in Filing
    <3> DEFINE q == [Idle EXCEPT !.op = "upload", !.step = "ready", !.code = NextCode(type), !.seen = Len(refs)]
    <3>1. req' = [req EXCEPT ![r] = q] /\ q.op \in Filing
      BY <2>1 DEF BeginUpload, Become, Idle, Filing
    <3> QED BY <3>1
  <2>2. ASSUME NEW type \in SeedTypes, BeginSeed(r, type)
        PROVE  \E q : req' = [req EXCEPT ![r] = q] /\ q.op \in Filing
    <3> DEFINE q == [Idle EXCEPT !.op = "seed", !.step = "ready", !.code = <<type, 1>>]
    <3>1. req' = [req EXCEPT ![r] = q] /\ q.op \in Filing
      BY <2>2 DEF BeginSeed, Become, Idle, Filing
    <3> QED BY <3>1
  <2> QED BY <2>1, <2>2 DEF BeginFiling
<1>5. /\ r \notin Uploading /\ Uploading' = Uploading \cup {r}
      /\ \A x \in Uploading : req'[x] = req[x]
  BY <1>2, <1>4, IdleTyped DEF Uploading, StockInv, LibraryInv, Typed, Filing
<1> QED BY <1>1, <1>2, <1>3, <1>5

LEMMA ShapeStep ==
  ASSUME StockInv, [LNext]_libraryVars
  PROVE  Shapes'
<1>0. /\ req \in [Requests -> ReqType] /\ \A r \in Requests : req[r] \in ReqType /\ Shape(req[r])
  BY DEF StockInv, LibraryInv, Typed, Shapes
\* Only one request changes.
<1>1. ASSUME NEW r \in Requests, NEW q, req' = [req EXCEPT ![r] = q], Shape(q) PROVE Shapes'
  BY <1>0, <1>1 DEF Shapes
<1>2. ASSUME NEW r \in Requests, NEW type \in Types, BeginUpload(r, type) PROVE Shapes'
  <2> DEFINE q == [Idle EXCEPT !.op = "upload", !.step = "ready", !.code = NextCode(type), !.seen = Len(refs)]
  <2>1. req' = [req EXCEPT ![r] = q]
    BY <1>2 DEF BeginUpload, Become
  <2>4. Len(refs) \in Nat /\ Len(refs) + 1 \in 1..MaxRefs
    BY <1>2, FilingHasRoom DEF BeginFiling
  <2>2. Len(refs) \in 0..MaxRefs /\ NextCode(type) \in Types \X (1..MaxRefs)
    BY <2>4, NoneCounted DEF NextCode
  <2>3. Shape(q)
    BY <2>2 DEF Shape, Idle, Filing
  <2> HIDE DEF q
  <2> QED BY <1>1, <2>1, <2>3
<1>12. ASSUME NEW r \in Requests, NEW type \in SeedTypes, BeginSeed(r, type) PROVE Shapes'
  <2> DEFINE q == [Idle EXCEPT !.op = "seed", !.step = "ready", !.code = <<type, 1>>]
  <2>1. req' = [req EXCEPT ![r] = q]
    BY <1>12 DEF BeginSeed, Become
  <2>2. 0 \in 0..MaxRefs /\ <<type, 1>> \in Types \X (1..MaxRefs)
    BY <1>12, FilingHasRoom, SeedAssumption, BoundsAssumption DEF BeginFiling
  <2>3. Shape(q)
    BY <2>2 DEF Shape, Idle, Filing
  <2> HIDE DEF q
  <2> QED BY <1>1, <2>1, <2>3
<1>3. ASSUME NEW r \in Requests, NEW op \in {"submit"} \cup Jobs, BeginWork(r, op) PROVE Shapes'
  <2> DEFINE q == [Idle EXCEPT !.op = op, !.step = "ready"]
  <2>1. req' = [req EXCEPT ![r] = q]
    BY <1>3 DEF BeginWork, Become
  <2>2. /\ q.op = op /\ q.step = "ready" /\ q.seen = 0 /\ q.code = Idle.code
    BY DEF Idle
  <2>3. op \notin Filing \cup {"none", "handle"}
    BY DEF Filing, Jobs
  <2>4. Shape(q)
    BY <2>2, <2>3, NoneCounted DEF Shape
  <2> HIDE DEF q
  <2> QED BY <1>1, <2>1, <2>4
<1>4. ASSUME NEW r \in Requests, SaveBegins(r) PROVE Shapes'
  <2>1. PICK p \in Paths : req' = [req EXCEPT ![r] = [req[r] EXCEPT !.step = "writing", !.path = p]]
    BY <1>4 DEF SaveBegins, Store, Become
  <2>2. req[r].step = "ready"
    BY <1>4 DEF SaveBegins
  <2>3. Shape([req[r] EXCEPT !.step = "writing", !.path = p])
    BY <1>0, <2>2 DEF Shape, ReqType
  <2> QED BY <1>1, <2>1, <2>3
<1>5. ASSUME NEW r \in Requests, SaveEnds(r) PROVE Shapes'
  <2>1. PICK step \in {"saved"} \cup (IF req[r].op \in Jobs THEN {"ready"} ELSE {}) :
          req' = [req EXCEPT ![r] = [req[r] EXCEPT !.step = step, !.saved = @ \cup {req[r].path}]]
    BY <1>5 DEF SaveEnds, Become
  <2>2. req[r].step = "writing"
    BY <1>5 DEF SaveEnds
  <2>3. Shape([req[r] EXCEPT !.step = step, !.saved = @ \cup {req[r].path}])
    BY <1>0, <2>1, <2>2 DEF Shape, ReqType, Jobs, Filing
  <2> QED BY <1>1, <2>1, <2>3
<1>6. ASSUME NEW r \in Requests, RefuseJob(r) \/ CommitUpload(r) \/ CommitWork(r) \/ Fail(r)
      PROVE  Shapes'
  BY <1>1, <1>6, IdleShape DEF RefuseJob, CommitUpload, CommitWork, Fail, Become
<1>7. ASSUME NEW r \in Requests, BeginHandle(r) PROVE Shapes'
  <2>1. PICK p \in Paths : req' = [req EXCEPT ![r] = [Idle EXCEPT !.op = "handle", !.step = "reading", !.path = p]]
    BY <1>7 DEF BeginHandle, Become
  <2> DEFINE q == [Idle EXCEPT !.op = "handle", !.step = "reading", !.path = p]
  <2>2. /\ q.op = "handle" /\ q.step = "reading" /\ q.seen = 0 /\ q.saved = {}
        /\ q.code = Idle.code
    BY DEF Idle
  <2>3. Shape(q)
    BY <2>2, NoneCounted DEF Shape, Filing
  <2> HIDE DEF q
  <2>4. req' = [req EXCEPT ![r] = q]
    BY <2>1 DEF q
  <2> QED BY <1>1, <2>3, <2>4
<1>8. ASSUME NEW r \in Requests, ReadBack(r) PROVE Shapes'
  <2>1. req' = [req EXCEPT ![r] = [req[r] EXCEPT !.step = "reading"]] /\ req[r].op \in Filing
    BY <1>8 DEF ReadBack, Become
  <2>2. Shape([req[r] EXCEPT !.step = "reading"])
    BY <1>0, <2>1 DEF Shape, ReqType, Filing
  <2> QED BY <1>1, <2>1, <2>2
<1>9. ASSUME NEW r \in Requests, Analyzed(r) PROVE Shapes'
  <2>1. req' = [req EXCEPT ![r] = IF req[r].op \in Filing THEN [req[r] EXCEPT !.step = "read"] ELSE Idle]
    BY <1>9 DEF Analyzed, Become
  <2>2. req[r].op \in Filing => Shape([req[r] EXCEPT !.step = "read"])
    BY <1>0 DEF Shape, ReqType, Filing
  <2> QED BY <1>1, <2>1, <2>2, IdleShape
<1>10. CASE Crash
  BY <1>10, IdleShape DEF Crash, Shapes
<1>11. CASE UNCHANGED req
  BY <1>11 DEF StockInv, Shapes
<1> QED
  BY <1>2, <1>3, <1>4, <1>5, <1>6, <1>7, <1>8, <1>9, <1>10, <1>11, <1>12
  DEF LNext, SetStatus, libraryVars

\* Rows of the same reference.
Same(a, b) == a.code = b.code /\ a.path = b.path /\ a.by = b.by /\ a.seen = b.seen

\* Changing a status changes nothing else of the references.
LEMMA StatusOnly ==
  ASSUME LibraryInv, NEW i \in 1..Len(refs), NEW status, SetStatus(i, status)
  PROVE  /\ UNCHANGED <<store, rows, req, losses>> /\ Len(refs') = Len(refs)
         /\ \A j \in 1..Len(refs) : Same(refs'[j], refs[j])
<1>1. refs \in Seq(RefRow) /\ refs[i] \in RefRow
  BY DEF LibraryInv, Typed
<1>2. refs' = [refs EXCEPT ![i] = [refs[i] EXCEPT !.status = status]]
  BY DEF SetStatus
<1>3. Len(refs') = Len(refs) /\ \A j \in 1..Len(refs) : Same(refs'[j], refs[j])
  BY <1>1, <1>2 DEF RefRow, Same
<1> QED BY <1>3 DEF SetStatus

\* An upload that commits adds its reference and is over.
LEMMA UploadCommits ==
  ASSUME LibraryInv, NEW r \in Requests, CommitUpload(r)
  PROVE  /\ r \in Uploading /\ Uploading' = Uploading \ {r}
         /\ Len(refs) \in Nat /\ Len(refs') = Len(refs) + 1
         /\ \A i \in 1..Len(refs) : refs'[i] = refs[i]
         /\ refs'[Len(refs) + 1].code = req[r].code /\ refs'[Len(refs) + 1].path = req[r].path
         /\ refs'[Len(refs) + 1].by = req[r].op /\ refs'[Len(refs) + 1].seen = req[r].seen
<1> DEFINE new == [code |-> req[r].code, path |-> req[r].path, status |-> "ACTIVE",
                   by |-> req[r].op, seen |-> req[r].seen]
<1>1. /\ refs' = Append(refs, new) /\ req[r].op \in Filing /\ req' = [req EXCEPT ![r] = Idle]
      /\ refs \in Seq(RefRow)
  BY DEF CommitUpload, Become, LibraryInv, Typed
<1>2. r \in Uploading /\ Uploading' = Uploading \ {r}
  BY <1>1, IdleTyped DEF Uploading, LibraryInv, Typed, Filing
<1>3. /\ Len(refs) \in Nat /\ Len(refs') = Len(refs) + 1 /\ \A i \in 1..Len(refs) : refs'[i] = refs[i]
      /\ refs'[Len(refs) + 1] = new
  BY <1>1
<1> QED BY <1>2, <1>3

\* The same request, later.
Kin(q, x) == q.op = x.op /\ q.code = x.code /\ q.seen = x.seen

\* Every other step keeps the references and begins no upload.
LEMMA NoOtherUpload ==
  ASSUME LibraryInv, Shapes, [LNext]_libraryVars,
         \A r \in Requests : ~CommitUpload(r) /\ ~BeginFiling(r)
  PROVE  /\ Uploading' \subseteq Uploading
         /\ \A r \in Uploading' : Kin(req'[r], req[r])
         /\ Len(refs') = Len(refs) /\ \A i \in 1..Len(refs) : Same(refs'[i], refs[i])
<1>0. req \in [Requests -> ReqType] /\ \A r \in Requests : req[r] \in ReqType
  BY DEF LibraryInv, Typed
<1> DEFINE Goal == /\ Uploading' \subseteq Uploading
                   /\ \A r \in Uploading' : Kin(req'[r], req[r])
                   /\ Len(refs') = Len(refs) /\ \A i \in 1..Len(refs) : Same(refs'[i], refs[i])
<1>1. ASSUME NEW r \in Requests, NEW q, req' = [req EXCEPT ![r] = q], UNCHANGED refs,
             q.op \notin Filing \/ Kin(q, req[r])
      PROVE  Goal
  BY <1>0, <1>1 DEF Uploading, Kin, Same
<1>3. ASSUME NEW r \in Requests, NEW op \in {"submit"} \cup Jobs, BeginWork(r, op) PROVE Goal
  <2>1. req' = [req EXCEPT ![r] = [Idle EXCEPT !.op = op, !.step = "ready"]] /\ UNCHANGED refs
    BY <1>3 DEF BeginWork, Become
  <2>2. [Idle EXCEPT !.op = op, !.step = "ready"].op \notin Filing
    BY DEF Idle, Jobs, Filing
  <2> HIDE DEF Goal
  <2> QED BY <1>1, <2>1, <2>2
<1>4. ASSUME NEW r \in Requests, SaveBegins(r) PROVE Goal
  <2>1. PICK p \in Paths : req' = [req EXCEPT ![r] = [req[r] EXCEPT !.step = "writing", !.path = p]]
    BY <1>4 DEF SaveBegins, Store, Become
  <2> DEFINE q == [req[r] EXCEPT !.step = "writing", !.path = p]
  <2>2. Kin(q, req[r]) /\ UNCHANGED refs
    BY <1>0, <1>4 DEF ReqType, SaveBegins, Kin
  <2> HIDE DEF Goal, q
  <2>3. req' = [req EXCEPT ![r] = q]
    BY <2>1 DEF q
  <2> QED BY <1>1, <2>2, <2>3
<1>5. ASSUME NEW r \in Requests, SaveEnds(r) PROVE Goal
  <2>1. PICK step : req' = [req EXCEPT ![r] = [req[r] EXCEPT !.step = step, !.saved = @ \cup {req[r].path}]]
    BY <1>5 DEF SaveEnds, Become
  <2> DEFINE q == [req[r] EXCEPT !.step = step, !.saved = @ \cup {req[r].path}]
  <2>2. Kin(q, req[r]) /\ UNCHANGED refs
    BY <1>0, <1>5 DEF ReqType, SaveEnds, Kin
  <2> HIDE DEF Goal, q
  <2>3. req' = [req EXCEPT ![r] = q]
    BY <2>1 DEF q
  <2> QED BY <1>1, <2>2, <2>3
<1>6. ASSUME NEW r \in Requests, RefuseJob(r) \/ CommitWork(r) \/ Fail(r) PROVE Goal
  <2>1. req' = [req EXCEPT ![r] = Idle] /\ UNCHANGED refs
    BY <1>6 DEF RefuseJob, CommitWork, Fail, Become
  <2>2. Idle.op \notin Filing
    BY IdleTyped DEF Filing
  <2> HIDE DEF Goal
  <2> QED BY <1>1, <2>1, <2>2
<1>7. ASSUME NEW r \in Requests, BeginHandle(r) PROVE Goal
  <2>1. PICK p \in Paths : req' = [req EXCEPT ![r] = [Idle EXCEPT !.op = "handle", !.step = "reading", !.path = p]]
    BY <1>7 DEF BeginHandle, Become
  <2>2. [Idle EXCEPT !.op = "handle", !.step = "reading", !.path = p].op \notin Filing /\ UNCHANGED refs
    BY <1>7 DEF Idle, BeginHandle, Filing
  <2> HIDE DEF Goal
  <2> QED BY <1>1, <2>1, <2>2
<1>8. ASSUME NEW r \in Requests, ReadBack(r) PROVE Goal
  <2> DEFINE q == [req[r] EXCEPT !.step = "reading"]
  <2>1. req' = [req EXCEPT ![r] = q] /\ UNCHANGED refs
    BY <1>8 DEF ReadBack, Become
  <2>2. Kin(q, req[r])
    BY <1>0 DEF ReqType, Kin
  <2> HIDE DEF Goal, q
  <2> QED BY <1>1, <2>1, <2>2
<1>9. ASSUME NEW r \in Requests, Analyzed(r) PROVE Goal
  <2> DEFINE q == [req[r] EXCEPT !.step = "read"]
  <2>1. req' = [req EXCEPT ![r] = q] \/ req' = [req EXCEPT ![r] = Idle]
    BY <1>9 DEF Analyzed, Become
  <2>2. Kin(q, req[r]) /\ UNCHANGED refs
    BY <1>0, <1>9 DEF ReqType, Analyzed, Kin
  <2>3. Idle.op \notin Filing
    BY IdleTyped DEF Filing
  <2> HIDE DEF Goal, q
  <2> QED BY <1>1, <2>1, <2>2, <2>3
<1>10. CASE Crash
  BY <1>10, IdleTyped DEF Crash, Uploading, Filing, Same
<1>11. ASSUME NEW i \in 1..Len(refs), NEW status, SetStatus(i, status) PROVE Goal
  BY <1>11, StatusOnly DEF Uploading, Kin
<1>12. CASE UNCHANGED libraryVars
  BY <1>12 DEF libraryVars, Uploading, Kin, Same
<1> QED
  BY <1>3, <1>4, <1>5, <1>6, <1>7, <1>8, <1>9, <1>10, <1>11, <1>12 DEF LNext, BeginFiling

\* Places are taken at the begin of an upload and used at its commit.
LEMMA RoomStep ==
  ASSUME StockInv, [LNext]_libraryVars
  PROVE  Room'
<1>0. /\ LibraryInv /\ Shapes /\ Len(refs) \in Nat /\ MaxRefs \in Nat
      /\ IsFiniteSet(Uploading) /\ Cardinality(Uploading) \in Nat
      /\ Len(refs) + Cardinality(Uploading) <= MaxRefs
  BY FS_CardinalityType, BoundsAssumption DEF StockInv, Room, LibraryInv, Typed
<1>1. ASSUME NEW r \in Requests, BeginFiling(r) PROVE Room'
  <2>1. /\ r \notin Uploading /\ Uploading' = Uploading \cup {r}
        /\ Len(refs) + Cardinality(Uploading) + 1 <= MaxRefs
    BY <1>1, FilingHasRoom
  <2>2. IsFiniteSet(Uploading') /\ Cardinality(Uploading') = Cardinality(Uploading) + 1
    BY <1>0, <2>1, FS_AddElement
  <2>3. refs' = refs
    BY <1>1, FilingHasRoom
  <2> QED BY <1>0, <2>1, <2>2, <2>3 DEF Room
<1>2. ASSUME NEW r \in Requests, CommitUpload(r) PROVE Room'
  <2>1. r \in Uploading /\ Uploading' = Uploading \ {r} /\ Len(refs') = Len(refs) + 1
    BY <1>0, <1>2, UploadCommits
  <2>2. IsFiniteSet(Uploading') /\ Cardinality(Uploading') = Cardinality(Uploading) - 1
    BY <1>0, <2>1, FS_RemoveElement
  <2> QED BY <1>0, <2>1, <2>2 DEF Room
<1>3. ASSUME \A r \in Requests : ~CommitUpload(r) /\ ~BeginFiling(r)
      PROVE  Room'
  <2>1. Uploading' \subseteq Uploading /\ Len(refs') = Len(refs)
    BY <1>0, <1>3, NoOtherUpload
  <2>2. IsFiniteSet(Uploading') /\ Cardinality(Uploading') <= Cardinality(Uploading)
    BY <1>0, <2>1, FS_Subset
  <2>3. Cardinality(Uploading') \in Nat
    BY <2>2, FS_CardinalityType
  <2> QED BY <1>0, <2>1, <2>2, <2>3 DEF Room
<1> QED BY <1>1, <1>2, <1>3

LEMMA RefCodesStep ==
  ASSUME StockInv, [LNext]_libraryVars
  PROVE  RefCodes'
<1>0. LibraryInv /\ Shapes /\ \A i \in 1..Len(refs) : refs[i].code \in Types \X (1..MaxRefs)
  BY DEF StockInv, RefCodes
<1>1. ASSUME NEW r \in Requests, BeginFiling(r) PROVE RefCodes'
  BY <1>0, <1>1, FilingHasRoom DEF RefCodes
<1>2. ASSUME NEW r \in Requests, CommitUpload(r) PROVE RefCodes'
  <2>1. /\ r \in Uploading /\ Len(refs) \in Nat /\ Len(refs') = Len(refs) + 1
        /\ \A i \in 1..Len(refs) : refs'[i] = refs[i]
        /\ refs'[Len(refs) + 1].code = req[r].code
    BY <1>0, <1>2, UploadCommits
  <2>2. req[r].code \in Types \X (1..MaxRefs)
    BY <1>0, <2>1 DEF Uploading, Shapes, Shape
  <2>3. \A i \in 1..Len(refs') : i \in 1..Len(refs) \/ i = Len(refs) + 1
    BY <2>1
  <2>4. \A i \in 1..Len(refs') : refs'[i].code \in Types \X (1..MaxRefs)
    BY <1>0, <2>1, <2>2, <2>3
  <2> QED BY <2>4 DEF RefCodes
<1>3. ASSUME \A r \in Requests : ~CommitUpload(r) /\ ~BeginFiling(r)
      PROVE  RefCodes'
  BY <1>0, <1>3, NoOtherUpload DEF RefCodes, Same
<1> QED BY <1>1, <1>2, <1>3

LEMMA LossesStep ==
  ASSUME StockInv, [LNext]_libraryVars
  PROVE  Losses'
<1>0. losses \in 0..MaxLosses /\ MaxLosses \in Nat
  BY BoundsAssumption DEF StockInv, Losses
<1>1. CASE UNCHANGED losses
  BY <1>0, <1>1 DEF Losses
<1>2. ASSUME NEW r \in Requests, RefuseJob(r) PROVE Losses'
  BY <1>0, <1>2 DEF RefuseJob, Losses
<1>3. CASE losses < MaxLosses /\ losses' = losses + 1
  BY <1>0, <1>3 DEF Losses
<1> QED
  BY <1>1, <1>2, <1>3
  DEF LNext, BeginUpload, BeginSeed, BeginWork, SaveBegins, SaveEnds, BeginHandle, ReadBack, Analyzed,
      CommitUpload, CommitWork, Fail, Crash, SetStatus, libraryVars

LEMMA KeptStep ==
  ASSUME StockInv, [LNext]_libraryVars
  PROVE  Kept'
<1>0. /\ LibraryInv /\ losses \in Nat /\ losses' \in Nat /\ req \in [Requests -> ReqType]
      /\ \A r \in Requests : req[r] \in ReqType /\ Shape(req[r])
      /\ store \in [Paths -> {"absent", "part", "complete"}] /\ rows \in [Paths -> Nat]
  BY LossesStep, BoundsAssumption DEF StockInv, Losses, LibraryInv, Typed, Shapes
<1> SUFFICES ASSUME losses' = 0, NEW p \in Paths, store'[p] # "absent"
             PROVE  rows'[p] > 0 \/ RefPath(p)' \/ \E r \in Requests : p \in Held(r)'
  BY DEF Kept
<1> DEFINE Goal == rows'[p] > 0 \/ RefPath(p)' \/ \E r \in Requests : p \in Held(r)'
<1>k. ASSUME losses' = losses, store[p] # "absent"
      PROVE  rows[p] > 0 \/ RefPath(p) \/ \E r \in Requests : p \in Held(r)
  BY <1>k DEF StockInv, Kept
\* Steps that keep the files, and with them those who hold them.
<1>1. ASSUME UNCHANGED <<store, rows, losses>>, RefPath(p) => RefPath(p)',
             \A r \in Requests : Held(r) \subseteq Held(r)'
      PROVE  Goal
  BY <1>k, <1>1
<1>2. ASSUME UNCHANGED <<store, rows, refs, losses>>, NEW r \in Requests, NEW q,
             req' = [req EXCEPT ![r] = q],
             Held(r) \subseteq q.saved
      PROVE  Goal
  <2>1. \A x \in Requests : Held(x) \subseteq Held(x)'
    BY <1>0, <1>2 DEF Held
  <2>2. RefPath(p) => RefPath(p)'
    BY <1>2 DEF RefPath
  <2> QED BY <1>1, <1>2, <2>1, <2>2
<1>3. ASSUME NEW r \in Requests, NEW type \in Types, BeginUpload(r, type) PROVE Goal
  <2> DEFINE q == [Idle EXCEPT !.op = "upload", !.step = "ready", !.code = NextCode(type), !.seen = Len(refs)]
  <2>1. req' = [req EXCEPT ![r] = q] /\ UNCHANGED <<store, rows, refs, losses>> /\ req[r] = Idle
    BY <1>3 DEF BeginUpload, Become
  <2>2. Held(r) = {}
    BY <2>1, IdleTyped DEF Held
  <2> HIDE DEF Goal, q
  <2> QED BY <1>2, <2>1, <2>2
<1>17. ASSUME NEW r \in Requests, NEW type \in SeedTypes, BeginSeed(r, type) PROVE Goal
  <2> DEFINE q == [Idle EXCEPT !.op = "seed", !.step = "ready", !.code = <<type, 1>>]
  <2>1. req' = [req EXCEPT ![r] = q] /\ UNCHANGED <<store, rows, refs, losses>> /\ req[r] = Idle
    BY <1>17 DEF BeginSeed, Become
  <2>2. Held(r) = {}
    BY <2>1, IdleTyped DEF Held
  <2> HIDE DEF Goal, q
  <2> QED BY <1>2, <2>1, <2>2
<1>4. ASSUME NEW r \in Requests, NEW op, BeginWork(r, op) PROVE Goal
  <2> DEFINE q == [Idle EXCEPT !.op = op, !.step = "ready"]
  <2>1. req' = [req EXCEPT ![r] = q] /\ UNCHANGED <<store, rows, refs, losses>> /\ req[r] = Idle
    BY <1>4 DEF BeginWork, Become
  <2>2. Held(r) = {}
    BY <2>1, IdleTyped DEF Held
  <2> HIDE DEF Goal, q
  <2> QED BY <1>2, <2>1, <2>2
<1>5. ASSUME NEW r \in Requests, SaveBegins(r) PROVE Goal
  <2>1. PICK x \in Paths : /\ req' = [req EXCEPT ![r] = [req[r] EXCEPT !.step = "writing", !.path = x]]
                           /\ store' = [store EXCEPT ![x] = "part"]
    BY <1>5 DEF SaveBegins, Store, Become
  <2>2. req[r].step = "ready" /\ UNCHANGED <<rows, refs, losses>>
    BY <1>5 DEF SaveBegins
  <2>3. Held(r)' = Held(r) \cup {x} /\ \A q \in Requests \ {r} : Held(q)' = Held(q)
    BY <1>0, <2>1, <2>2 DEF ReqType, Held
  <2>4. CASE p = x
    BY <2>3, <2>4
  <2>5. CASE p # x
    <3>1. store[p] # "absent"
      BY <1>0, <2>1, <2>5
    <3>2. RefPath(p)' <=> RefPath(p)
      BY <2>2 DEF RefPath
    <3> QED BY <1>k, <2>2, <2>3, <3>1, <3>2
  <2> QED BY <2>4, <2>5
<1>6. ASSUME NEW r \in Requests, SaveEnds(r) PROVE Goal
  <2>1. PICK step \in {"saved", "ready"} :
          req' = [req EXCEPT ![r] = [req[r] EXCEPT !.step = step, !.saved = @ \cup {req[r].path}]]
    BY <1>6 DEF SaveEnds, Become
  <2>2. /\ req[r].step = "writing" /\ UNCHANGED <<rows, refs, losses>>
        /\ store' = [store EXCEPT ![req[r].path] = "complete"]
    BY <1>6 DEF SaveEnds
  <2>3. \A q \in Requests : Held(q)' = Held(q)
    BY <1>0, <2>1, <2>2 DEF ReqType, Held
  <2>4. req[r].path \in Held(r)
    BY <2>2 DEF Held
  <2>5. CASE p = req[r].path
    BY <2>3, <2>4, <2>5
  <2>6. CASE p # req[r].path
    <3>1. store[p] # "absent"
      BY <1>0, <2>2, <2>6
    <3>2. RefPath(p)' <=> RefPath(p)
      BY <2>2 DEF RefPath
    <3> QED BY <1>k, <2>2, <2>3, <3>1, <3>2
  <2> QED BY <2>5, <2>6
<1>7. ASSUME NEW r \in Requests, RefuseJob(r) PROVE Goal
  <2>1. /\ req' = [req EXCEPT ![r] = Idle] /\ UNCHANGED <<store, rows, refs>>
        /\ req[r].step = "ready" /\ losses' = losses + (IF req[r].saved = {} THEN 0 ELSE 1)
    BY <1>7 DEF RefuseJob, Become
  <2>2. req[r].saved = {} /\ losses' = losses
    BY <1>0, <2>1
  <2>3. Held(r) = {}
    BY <2>1, <2>2 DEF Held
  <2> HIDE DEF Goal
  <2> QED BY <1>2, <2>1, <2>2, <2>3
<1>8. ASSUME NEW r \in Requests, BeginHandle(r) PROVE Goal
  <2>1. PICK x \in Paths : req' = [req EXCEPT ![r] = [Idle EXCEPT !.op = "handle", !.step = "reading", !.path = x]]
    BY <1>8 DEF BeginHandle, Become
  <2>2. UNCHANGED <<store, rows, refs, losses>> /\ req[r] = Idle
    BY <1>8 DEF BeginHandle
  <2>3. Held(r) = {}
    BY <2>2, IdleTyped DEF Held
  <2> HIDE DEF Goal
  <2> QED BY <1>2, <2>1, <2>2, <2>3
<1>9. ASSUME NEW r \in Requests, ReadBack(r) PROVE Goal
  <2> DEFINE q == [req[r] EXCEPT !.step = "reading"]
  <2>1. /\ req' = [req EXCEPT ![r] = q] /\ UNCHANGED <<store, rows, refs, losses>>
        /\ req[r].step = "saved"
    BY <1>9 DEF ReadBack, Become
  <2>2. q.saved = req[r].saved /\ Held(r) = req[r].saved
    BY <1>0, <2>1 DEF ReqType, Held
  <2> HIDE DEF Goal, q
  <2> QED BY <1>2, <2>1, <2>2
<1>10. ASSUME NEW r \in Requests, Analyzed(r) PROVE Goal
  <2> DEFINE q == IF req[r].op \in Filing THEN [req[r] EXCEPT !.step = "read"] ELSE Idle
  <2>1. /\ req' = [req EXCEPT ![r] = q] /\ UNCHANGED <<store, rows, refs, losses>>
        /\ req[r].step = "reading"
    BY <1>10 DEF Analyzed, Become
  <2>2. Held(r) = req[r].saved
    BY <2>1 DEF Held
  <2>3. CASE req[r].op \in Filing
    <3>1. q.saved = req[r].saved
      BY <1>0, <2>3 DEF ReqType
    <3> HIDE DEF Goal, q
    <3> QED BY <1>2, <2>1, <2>2, <3>1
  <2>4. CASE req[r].op \in {"none", "handle"}
    <3>1. req[r].saved = {}
      BY <1>0, <2>4 DEF Shape
    <3> HIDE DEF Goal, q
    <3> QED BY <1>2, <2>1, <2>2, <3>1
  <2>5. req[r].op \in Filing \cup {"handle"}
    BY <1>0, <2>1 DEF Shape
  <2> QED BY <2>3, <2>4, <2>5
<1>11. ASSUME NEW r \in Requests, CommitUpload(r) PROVE Goal
  <2>1. /\ req' = [req EXCEPT ![r] = Idle] /\ UNCHANGED <<store, rows, losses>>
        /\ req[r].op \in Filing /\ req[r].step = "read"
    BY <1>11 DEF CommitUpload, Become
  <2>2. /\ Len(refs) \in Nat /\ Len(refs') = Len(refs) + 1
        /\ \A i \in 1..Len(refs) : refs'[i] = refs[i]
        /\ refs'[Len(refs) + 1].path = req[r].path
    BY <1>0, <1>11, UploadCommits
  <2>3. Held(r) \subseteq {req[r].path}
    BY <1>0, <2>1 DEF Held, Shape
  <2>4. RefPath(p) \/ p = req[r].path => RefPath(p)'
    BY <2>2 DEF RefPath
  <2>5. \A q \in Requests \ {r} : Held(q)' = Held(q)
    BY <1>0, <2>1 DEF Held
  <2> QED BY <1>k, <2>1, <2>3, <2>4, <2>5
<1>12. ASSUME NEW r \in Requests, CommitWork(r) PROVE Goal
  <2>1. /\ req' = [req EXCEPT ![r] = Idle] /\ UNCHANGED <<store, refs, losses>>
        /\ req[r].step = "saved"
        /\ rows' = [x \in Paths |-> rows[x] + (IF x \in req[r].saved THEN 1 ELSE 0)]
    BY <1>12 DEF CommitWork, Become, Naming
  <2>2. Held(r) = req[r].saved
    BY <2>1 DEF Held
  <2>3. rows[p] > 0 \/ p \in req[r].saved => rows'[p] > 0
    BY <1>0, <2>1
  <2>4. \A q \in Requests \ {r} : Held(q)' = Held(q)
    BY <1>0, <2>1 DEF Held
  <2>5. RefPath(p) => RefPath(p)'
    BY <2>1 DEF RefPath
  <2> QED BY <1>k, <2>1, <2>2, <2>3, <2>4, <2>5
<1>13. ASSUME NEW r \in Requests, Fail(r) PROVE FALSE
  BY <1>0, <1>13 DEF Fail
<1>14. ASSUME NEW i \in 1..Len(refs), NEW status, SetStatus(i, status) PROVE Goal
  <2>1. /\ UNCHANGED <<store, rows, req, losses>> /\ Len(refs') = Len(refs)
        /\ \A j \in 1..Len(refs) : refs'[j].path = refs[j].path
    BY <1>0, <1>14, StatusOnly DEF Same
  <2>2. (RefPath(p) => RefPath(p)') /\ \A r \in Requests : Held(r) \subseteq Held(r)'
    BY <2>1 DEF RefPath, Held
  <2> HIDE DEF Goal
  <2> QED BY <1>1, <2>1, <2>2
<1>15. ASSUME UNCHANGED libraryVars PROVE Goal
  <2>1. UNCHANGED <<store, rows, refs, req, losses>>
    BY <1>15 DEF libraryVars
  <2>2. (RefPath(p) => RefPath(p)') /\ \A r \in Requests : Held(r) \subseteq Held(r)'
    BY <2>1 DEF RefPath, Held
  <2> HIDE DEF Goal
  <2> QED BY <1>1, <2>1, <2>2
<1>16. ASSUME Crash PROVE FALSE
  BY <1>0, <1>16 DEF Crash
<1> QED
  BY <1>3, <1>4, <1>5, <1>6, <1>7, <1>8, <1>9, <1>10, <1>11, <1>12, <1>13, <1>14, <1>15, <1>16,
     <1>17
  DEF LNext

LEMMA StockInit == LInit => StockInv
<1> SUFFICES ASSUME LInit PROVE StockInv
  OBVIOUS
<1>1. /\ LibraryInv /\ refs = <<>> /\ losses = 0
      /\ req = [r \in Requests |-> Idle] /\ store = [p \in Paths |-> "absent"]
  BY InitHolds DEF LInit
<1>2. Shapes
  BY <1>1, IdleShape DEF Shapes
<1>3. Room
  <2>1. Uploading = {}
    BY <1>1 DEF Uploading, Idle, Filing
  <2> QED BY <1>1, <2>1, FS_EmptySet, BoundsAssumption DEF Room
<1>4. RefCodes /\ Kept
  BY <1>1 DEF RefCodes, Kept
<1>5. Losses
  BY <1>1, BoundsAssumption DEF Losses
<1> QED BY <1>1, <1>2, <1>3, <1>4, <1>5 DEF StockInv

LEMMA StockStep ==
  ASSUME StockInv, [LNext]_libraryVars
  PROVE  StockInv'
<1>1. LibraryInv'
  BY LibraryStep DEF StockInv
<1> QED BY <1>1, ShapeStep, RoomStep, RefCodesStep, LossesStep, KeptStep DEF StockInv

LEMMA StockInvariant == LSpec => []StockInv
  BY StockInit, StockStep, PTL DEF LSpec

\* References, stored files, rows and requests have their types, and no more
\* references are committed than the library has room for, although an upload only
\* counts them when it begins (upload_reference, list_references).
THEOREM LibraryTypes == LSpec => []LTypeOK
<1>1. ASSUME StockInv PROVE LTypeOK
  <2>0. /\ LibraryInv /\ Shapes /\ RefCodes /\ Losses
        /\ store \in [Paths -> {"absent", "part", "complete"}] /\ rows \in [Paths -> Nat]
        /\ refs \in Seq(RefRow) /\ req \in [Requests -> ReqType]
    BY <1>1 DEF StockInv, LibraryInv, Typed
  <2>1. Len(refs) <= MaxRefs
    <3>1. IsFiniteSet(Uploading) /\ Len(refs) + Cardinality(Uploading) <= MaxRefs
      BY <1>1 DEF StockInv, Room
    <3> QED BY <2>0, <3>1, FS_CardinalityType, BoundsAssumption
  <2>2. refs \in Seq(RefType)
    <3>1. \A i \in 1..Len(refs) : refs[i] \in RefType
      <4>1. ASSUME NEW i \in 1..Len(refs) PROVE refs[i] \in RefType
        <5>1. refs[i] \in RefRow /\ refs[i].code \in Types \X (1..MaxRefs)
          BY <2>0 DEF RefCodes
        <5>2. refs[i].code \in Types \X (Nat \ {0})
          BY <5>1, BoundsAssumption
        <5> QED BY <5>1, <5>2 DEF RefRow, RefType
      <4> QED BY <4>1
    <3> QED BY <2>0, <3>1
  <2>3. ASSUME NEW r \in Requests
        PROVE  /\ req[r].op \in {"submit", "handle", "none"} \cup Filing \cup Jobs
               /\ req[r].step \in {"idle", "ready", "writing", "saved", "reading", "read"}
               /\ req[r].code = Idle.code \/ req[r].code \in Types \X (1..MaxRefs)
               /\ req[r].seen \in 0..MaxRefs
               /\ req[r].path \in 0..MaxPaths /\ req[r].saved \subseteq Paths
    <3>1. req[r] \in ReqType /\ Shape(req[r])
      BY <2>0 DEF Shapes
    <3>2. /\ req[r].op \in {"submit", "handle", "none"} \cup Filing \cup Jobs
          /\ req[r].step \in {"idle", "ready", "writing", "saved", "reading", "read"}
          /\ req[r].path \in 0..MaxPaths /\ req[r].saved \subseteq Paths
      BY <3>1 DEF ReqType, Ops, Steps, Jobs
    <3>3. (req[r].code = Idle.code \/ req[r].code \in Types \X (1..MaxRefs)) /\ req[r].seen \in 0..MaxRefs
      BY <3>1 DEF Shape
    <3> QED BY <3>2, <3>3
  <2>4. losses \in 0..MaxLosses
    BY <2>0 DEF Losses
  <2> QED BY <2>0, <2>1, <2>2, <2>3, <2>4 DEF LTypeOK
<1> QED BY <1>1, StockInvariant, PTL

\* As long as no request is lost, refused halfway or interrupted, every stored file
\* is named by a row or by a request that is going to name it (save, then commit,
\* in references.py, verifications.py, external.py and jobs.py).
THEOREM NothingLeftBehind == LSpec => []NothingOrphaned
<1>1. ASSUME StockInv PROVE NothingOrphaned
  <2>1. ASSUME NEW p \in Paths, RefPath(p) PROVE Named(p)
    BY <2>1 DEF RefPath, Named, ReferencesOf
  <2>2. ASSUME NEW p \in Paths, NEW r \in Requests, p \in Held(r)
        PROVE  p = req[r].path \/ p \in req[r].saved
    BY <2>2 DEF Held
  <2>3. ASSUME NEW p \in Paths, rows[p] > 0 PROVE Named(p)
    BY <2>3 DEF Named
  <2> QED BY <1>1, <2>1, <2>2, <2>3 DEF StockInv, Kept, NothingOrphaned
<1> QED BY <1>1, StockInvariant, PTL

----------------------------------------------------------------------------
(* Codes, however uploads and the seeder interleave.                          *)

\* The number of a reference is at most its place, and an upload takes the number
\* after those it counted.
Numbered ==
  /\ \A i \in 1..Len(refs) : /\ refs[i].code[2] <= i
                             /\ refs[i].by = "upload" => refs[i].code[2] = refs[i].seen + 1
  /\ \A r \in Uploading : /\ req[r].code[2] <= Len(refs) + 1
                          /\ req[r].op = "upload" => req[r].code[2] = req[r].seen + 1

LEMMA NumberedStep ==
  ASSUME StockInv, Numbered, [LNext]_libraryVars
  PROVE  Numbered'
<1>0. /\ LibraryInv /\ Shapes /\ Len(refs) \in Nat /\ req \in [Requests -> ReqType]
      /\ \A r \in Uploading : req[r].code[2] \in Nat
  BY BoundsAssumption DEF StockInv, LibraryInv, Typed, Shapes, Shape, Uploading
<1>1. ASSUME NEW r \in Requests, BeginFiling(r) PROVE Numbered'
  <2>1. /\ refs' = refs /\ Uploading' = Uploading \cup {r}
        /\ \A q \in Uploading : req'[q] = req[q]
    BY <1>1, FilingHasRoom
  <2>2. /\ req'[r].code[2] <= Len(refs) + 1
        /\ req'[r].op = "upload" => req'[r].code[2] = req'[r].seen + 1
    <3>1. ASSUME NEW type \in Types, BeginUpload(r, type)
          PROVE  req'[r].code[2] = Len(refs) + 1 /\ req'[r].seen = Len(refs)
      <4> DEFINE q == [Idle EXCEPT !.op = "upload", !.step = "ready", !.code = NextCode(type), !.seen = Len(refs)]
      <4>1. req'[r] = q
        BY <1>0, <3>1 DEF BeginUpload, Become
      <4>2. q.code = <<type, Len(refs) + 1>> /\ q.seen = Len(refs)
        BY DEF Idle, NextCode
      <4> HIDE DEF q
      <4> QED BY <4>1, <4>2
    <3>2. ASSUME NEW type \in SeedTypes, BeginSeed(r, type)
          PROVE  req'[r].code[2] = 1 /\ req'[r].op = "seed"
      <4> DEFINE q == [Idle EXCEPT !.op = "seed", !.step = "ready", !.code = <<type, 1>>]
      <4>1. req'[r] = q
        BY <1>0, <3>2 DEF BeginSeed, Become
      <4>2. q.code = <<type, 1>> /\ q.op = "seed"
        BY DEF Idle
      <4> HIDE DEF q
      <4> QED BY <4>1, <4>2
    <3> QED BY <1>0, <1>1, <3>1, <3>2 DEF BeginFiling
  <2> QED BY <2>1, <2>2 DEF Numbered
<1>2. ASSUME NEW r \in Requests, CommitUpload(r) PROVE Numbered'
  <2>1. /\ r \in Uploading /\ Uploading' = Uploading \ {r} /\ Len(refs') = Len(refs) + 1
        /\ \A i \in 1..Len(refs) : refs'[i] = refs[i]
        /\ refs'[Len(refs) + 1].code = req[r].code
        /\ refs'[Len(refs) + 1].by = req[r].op /\ refs'[Len(refs) + 1].seen = req[r].seen
    BY <1>0, <1>2, UploadCommits
  <2>2. \A i \in 1..Len(refs') : i \in 1..Len(refs) \/ i = Len(refs) + 1
    BY <1>0, <2>1
  <2>3. \A i \in 1..Len(refs') : /\ refs'[i].code[2] <= i
                                 /\ refs'[i].by = "upload" => refs'[i].code[2] = refs'[i].seen + 1
    BY <2>1, <2>2 DEF Numbered
  <2>4. \A q \in Uploading' : req'[q] = req[q]
    BY <1>0, <1>2, <2>1 DEF CommitUpload, Become, Uploading
  <2>5. \A q \in Uploading' : /\ req'[q].code[2] <= Len(refs') + 1
                              /\ req'[q].op = "upload" => req'[q].code[2] = req'[q].seen + 1
    BY <1>0, <2>1, <2>4 DEF Numbered
  <2> QED BY <2>3, <2>5 DEF Numbered
<1>3. ASSUME \A r \in Requests : ~CommitUpload(r) /\ ~BeginFiling(r)
      PROVE  Numbered'
  <2>1. /\ Uploading' \subseteq Uploading /\ \A r \in Uploading' : Kin(req'[r], req[r])
        /\ Len(refs') = Len(refs) /\ \A i \in 1..Len(refs) : Same(refs'[i], refs[i])
    BY <1>0, <1>3, NoOtherUpload
  <2>2. \A i \in 1..Len(refs') :
           refs'[i].code = refs[i].code /\ refs'[i].by = refs[i].by /\ refs'[i].seen = refs[i].seen
    BY <2>1 DEF Same
  <2>3. \A r \in Uploading' :
           /\ r \in Uploading
           /\ req'[r].op = req[r].op /\ req'[r].code = req[r].code /\ req'[r].seen = req[r].seen
    BY <2>1 DEF Kin
  <2>4. \A i \in 1..Len(refs') : /\ refs'[i].code[2] <= i
                                 /\ refs'[i].by = "upload" => refs'[i].code[2] = refs'[i].seen + 1
    BY <2>1, <2>2 DEF Numbered
  <2>5. \A q \in Uploading' : /\ req'[q].code[2] <= Len(refs') + 1
                              /\ req'[q].op = "upload" => req'[q].code[2] = req'[q].seen + 1
    BY <2>1, <2>3 DEF Numbered
  <2> QED BY <2>4, <2>5 DEF Numbered
<1> QED BY <1>1, <1>2, <1>3

\* An upload never gets the code of a reference that was committed when it counted
\* them, archived and seeded ones included, however many uploads and seeders are in
\* progress (references.py next_ref_code, upload_reference; app/seed_demo.py).
THEOREM NewCodesStayNew == LSpec => []NewCodesAreNew
<1>1. ASSUME LInit PROVE Numbered
  <2>1. refs = <<>> /\ Uploading = {}
    BY <1>1 DEF LInit, Uploading, Idle, Filing
  <2> QED BY <2>1 DEF Numbered
<1>2. ASSUME StockInv, Numbered, [LNext]_libraryVars PROVE Numbered'
  BY <1>2, NumberedStep
<1>3. ASSUME StockInv, Numbered PROVE NewCodesAreNew
  <2> SUFFICES ASSUME NEW i \in 1..Len(refs), NEW j \in 1..Len(refs),
                      refs[j].by = "upload", i <= refs[j].seen
               PROVE  refs[i].code # refs[j].code
    BY DEF NewCodesAreNew
  <2>1. refs[j].seen \in Nat /\ Len(refs) \in Nat
    <3>1. refs \in Seq(RefRow)
      BY <1>3 DEF StockInv, LibraryInv, Typed
    <3>2. refs[j] \in RefRow
      BY <3>1
    <3> QED BY <3>1, <3>2 DEF RefRow
  <2>2. refs[i].code[2] <= i /\ refs[j].code[2] = refs[j].seen + 1
    BY <1>3 DEF Numbered
  <2> QED BY <2>1, <2>2
<1> QED BY <1>1, <1>2, <1>3, StockInvariant, PTL DEF LSpec
=============================================================================
