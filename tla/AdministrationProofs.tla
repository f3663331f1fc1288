------------------------ MODULE AdministrationProofs ------------------------
(* Machine-checked facts about Accounts, continued: its types, the founding of *)
(* organizations, their history and outdated claims for requests that overlap  *)
(* in any way; the audit trail of accounts and memberships, and the seeders,   *)
(* where their operations do not overlap.                                      *)
EXTENDS AccountsProofs, WellFoundedInduction

\* The columns a row of each table has.
RowSet(r) ==
    IF r[1] = "user" THEN UserRow
    ELSE IF r[1] = "organization" THEN OrgRow
    ELSE IF r[1] = "membership" THEN MemberRow
    ELSE IF r[1] = "api_key" THEN KeyRow
    ELSE IF r[1] = "platform_setting" THEN SiteRows
    ELSE {Present}

\* The columns the trail tells of, but for those of organizations; the owner's flag
\* is left out as the seeder sets it without a word.
Column(r, c) ==
    c \in DOMAIN Created /\ r[1] # "organization" /\ <<r, c>> # <<U(Owner), "superadmin">>

OrgColumn == {"status", "config"}

\* Operations that change such a column of an account or a membership.
Administrative == {"invite", "member_status", "user_status", "superadmin"}
Seeders == {"run_seed", "seed_demo"}

-----------------------------------------------------------------------------
(* What holds of every unit of work from the first step of a request on.      *)

\* It writes whole rows and known columns, deletes nothing but keys, and puts a
\* membership only where its organization is.
Typed(unit) ==
    /\ \A r \in DOMAIN unit.inserts : unit.inserts[r] \in RowSet(r)
    /\ \A r \in DOMAIN unit.updates : \A x \in RowSet(r) : unit.updates[r] @@ x \in RowSet(r)
    /\ \A r \in unit.deletes : r[1] = "api_key"
    /\ unit.tokens \subseteq User \X Org
    /\ \A p \in unit.tokens : M(p[1], p[2]) \in DOMAIN unit.inserts \/ Exists(M(p[1], p[2]))
    /\ \A u \in User, o \in Org : M(u, o) \in DOMAIN unit.inserts =>
          O(o) \in DOMAIN unit.inserts \/ Exists(O(o))

\* An organization comes with its audit row, and with what that row says.
Founding(unit) ==
    /\ \A o \in Org \ {Seeded, Demo} : O(o) \in DOMAIN unit.inserts =>
          \E i \in DOMAIN unit.audit :
              unit.audit[i].action = "ORG_CREATED" /\ unit.audit[i].row = O(o)
    /\ \A i \in DOMAIN unit.audit : unit.audit[i].action = "ORG_CREATED" =>
          \E o \in Org :
            /\ unit.audit[i].row = O(o) /\ O(o) \in DOMAIN unit.inserts
            /\ "admin" \in DOMAIN unit.audit[i].after =>
                 \E u \in User : /\ unit.audit[i].after.admin = u
                                 /\ {U(u), M(u, o)} \subseteq DOMAIN unit.inserts

\* An audit row that suspends.
Suspends(e, r) == e.row = r /\ "status" \in DOMAIN e.after /\ e.after["status"] = "SUSPENDED"

\* Whoever gets another role, loses the superadmin flag or is suspended finds it in
\* the trail; nothing is created suspended.
Marked(unit) ==
    /\ \A u \in User :
          U(u) \in DOMAIN unit.updates /\ "superadmin" \in DOMAIN unit.updates[U(u)] =>
            \/ unit.updates[U(u)].superadmin = TRUE
            \/ \E i \in DOMAIN unit.audit : /\ unit.audit[i].action = "SUPERADMIN_CHANGED"
                                            /\ unit.audit[i].row = U(u)
                                            /\ ~unit.audit[i].after.superadmin
    /\ \A u \in User, o \in Org :
          M(u, o) \in DOMAIN unit.updates /\ "role" \in DOMAIN unit.updates[M(u, o)] =>
            \/ \E i \in DOMAIN unit.audit :
                  /\ unit.audit[i].action = "MEMBER_INVITED" /\ unit.audit[i].row = M(u, o)
                  /\ unit.audit[i].after.role = unit.updates[M(u, o)].role
            \/ /\ o = Demo /\ unit.updates[M(u, o)].role = DemoRole(u)
               /\ \E i \in DOMAIN unit.audit : unit.audit[i].action = "DEMO_SEEDED"
    /\ \A r \in DOMAIN unit.inserts : "status" \in DOMAIN unit.inserts[r] =>
          unit.inserts[r]["status"] = "ACTIVE"
    /\ \A r \in DOMAIN unit.updates :
          "status" \in DOMAIN unit.updates[r] /\ unit.updates[r]["status"] = "SUSPENDED" =>
            \E i \in DOMAIN unit.audit : Suspends(unit.audit[i], r)

\* A new row has its columns at their first values.
Original(unit) ==
    \A r \in DOMAIN unit.inserts : \A c \in DOMAIN unit.inserts[r] :
        Column(r, c) => unit.inserts[r][c] = Created[c]

\* A column of the trail changes with an audit row only.
Audited(unit) ==
    \A r \in DOMAIN unit.updates : \A c \in DOMAIN unit.updates[r] : Column(r, c) =>
        /\ unit.op \in Administrative
        /\ \E i \in DOMAIN unit.audit : /\ unit.audit[i].row = r
                                        /\ c \in DOMAIN Says(unit.audit[i])

\* And what an audit row says is written, or is there.
Truthful(unit) ==
    /\ Len(unit.audit) \in {0, 1}
    /\ \A i \in DOMAIN unit.audit : \A c \in DOMAIN Says(unit.audit[i]) :
          LET r == unit.audit[i].row
              v == Says(unit.audit[i])[c]
          IN  Column(r, c) =>
                /\ unit.op \in Administrative
                /\ r \in Rows /\ r[1] # "api_key"
                /\ \/ /\ r \in DOMAIN unit.inserts /\ c \in DOMAIN unit.inserts[r]
                      /\ unit.inserts[r][c] = v
                   \/ /\ r \in DOMAIN unit.updates /\ c \in DOMAIN unit.updates[r]
                      /\ unit.updates[r][c] = v /\ Exists(r)
                   \/ /\ r \in DOMAIN unit.updates => c \notin DOMAIN unit.updates[r]
                      /\ Exists(r) /\ c \in DOMAIN db[r] /\ db[r][c] = v

\* What an audit row says was there before is there.
Remembers(unit) ==
    \A i \in DOMAIN unit.audit : unit.audit[i].row \in {O(o) : o \in Org} =>
        \A c \in DOMAIN unit.audit[i].before :
            LET r == unit.audit[i].row
            IN  /\ Exists(r) /\ c \in OrgColumn \cap DOMAIN db[r]
                /\ unit.audit[i].before[c] = db[r][c]

\* A column of an organization changes with an audit row only, and that row tells
\* what it changed; a new organization is like every other.
Historical(unit) ==
    /\ Len(unit.audit) \in {0, 1}
    /\ \A o \in Org : O(o) \in DOMAIN unit.inserts => unit.inserts[O(o)] = NewOrg
    /\ \A o \in Org, c \in OrgColumn :
          O(o) \in DOMAIN unit.updates /\ c \in DOMAIN unit.updates[O(o)] =>
            \E i \in DOMAIN unit.audit :
                /\ unit.audit[i].row = O(o) /\ c \in DOMAIN Says(unit.audit[i])
                /\ Says(unit.audit[i])[c] = unit.updates[O(o)][c]
    /\ \A i \in DOMAIN unit.audit, o \in Org, c \in OrgColumn :
          /\ unit.audit[i].row = O(o)
          /\ c \in DOMAIN Says(unit.audit[i]) \/ c \in DOMAIN unit.audit[i].before
          => /\ Exists(O(o))
             /\ c \in DOMAIN Says(unit.audit[i]) /\ c \in DOMAIN unit.audit[i].before
             /\ \/ unit.audit[i].before[c] = Says(unit.audit[i])[c]
                \/ O(o) \in DOMAIN unit.updates /\ c \in DOMAIN unit.updates[O(o)]

\* Seeders add, and a fixture only where there is none.
Adding(unit) ==
    /\ unit.op = "run_seed" =>
          /\ \A r \in DOMAIN unit.updates : /\ r = U(Owner) /\ DOMAIN unit.updates[r] = {"superadmin"}
                                            /\ unit.updates[r].superadmin = TRUE
          /\ unit.deletes = {}
    /\ \A table \in Fixture, o \in Org, i \in Copy :
          /\ F(table, o, i) \notin DOMAIN unit.updates
          /\ F(table, o, i) \in DOMAIN unit.inserts =>
                unit.op \in Seeders /\ \A j \in Copy : ~Exists(F(table, o, j))

-----------------------------------------------------------------------------
(* What holds of the database.                                                *)

RowsInv ==
    /\ DOMAIN db = Rows
    /\ \A r \in Rows : db[r] \in {NoRow} \cup RowSet(r)
    /\ \A u \in User, o \in Org : Exists(M(u, o)) => Exists(O(o))
    /\ served \in 0..MaxRequests

ClaimKept(c) ==
    IF c.org = NoOrg
    THEN /\ Exists(U(c.user))
         /\ \/ db[U(c.user)].superadmin
            \/ \E i \in DOMAIN trail : /\ trail[i].action = "SUPERADMIN_CHANGED"
                                       /\ trail[i].row = U(c.user)
                                       /\ ~trail[i].after.superadmin
    ELSE /\ Exists(M(c.user, c.org))
         /\ \/ db[M(c.user, c.org)].role = c.role
            \/ \E i \in DOMAIN trail : /\ trail[i].action = "MEMBER_INVITED"
                                       /\ trail[i].row = M(c.user, c.org)
                                       /\ trail[i].after.role = db[M(c.user, c.org)].role
            \/ /\ c.org = Demo /\ db[M(c.user, c.org)].role = DemoRole(c.user)
               /\ \E i \in DOMAIN trail : trail[i].action = "DEMO_SEEDED"

ClaimsInv ==
    \A c \in claims : c \in [user : User, org : Org \cup {NoOrg}, role : Role] /\ ClaimKept(c)

SuspendedInv ==
    \A r \in Rows :
        Exists(r) /\ "status" \in DOMAIN db[r] /\ db[r]["status"] = "SUSPENDED" =>
            \E i \in DOMAIN trail : Suspends(trail[i], r)

FoundedInv ==
    /\ \A o \in Org \ {Seeded, Demo} : Exists(O(o)) =>
          \E i \in DOMAIN trail : trail[i].action = "ORG_CREATED" /\ trail[i].row = O(o)
    /\ \A i \in DOMAIN trail : trail[i].action = "ORG_CREATED" =>
          \E o \in Org :
            /\ trail[i].row = O(o) /\ Exists(O(o))
            /\ "admin" \in DOMAIN trail[i].after =>
                 \E u \in User : /\ trail[i].after.admin = u
                                 /\ Exists(U(u)) /\ Exists(M(u, o))

StandingInv ==
    /\ AccountsInv /\ RowsInv /\ ClaimsInv /\ SuspendedInv /\ FoundedInv
    /\ \A s \in Slot : sessions[s] # Idle =>
          Typed(sessions[s]) /\ Founding(sessions[s]) /\ Marked(sessions[s])

\* The trail tells of rows that are there.
Mentions ==
    \A i \in DOMAIN trail : \A c \in DOMAIN Says(trail[i]) : Column(trail[i].row, c) =>
        trail[i].row \in Rows /\ trail[i].row[1] # "api_key" /\ Exists(trail[i].row)

TrailInv ==
    /\ StandingInv /\ Mentions /\ TrailTellsRows
    /\ \A s \in Slot : sessions[s] # Idle =>
          Original(sessions[s]) /\ Audited(sessions[s]) /\ Truthful(sessions[s])
    /\ \A s, t \in Slot :
          /\ sessions[s] # Idle /\ sessions[t] # Idle
          /\ sessions[s].op \in Administrative /\ sessions[t].op \in Administrative
          => s = t

SeedingInv ==
    /\ StandingInv
    /\ \A s \in Slot : sessions[s] # Idle => Adding(sessions[s])
    /\ \A s, t \in Slot :
          /\ sessions[s] # Idle /\ sessions[t] # Idle
          /\ sessions[s].op \in Seeders /\ sessions[t].op \in Seeders
          => s = t

-----------------------------------------------------------------------------
(* Rows and their names.                                                      *)

LEMMA RowNames ==
    /\ \A u : U(u)[1] = "user" /\ U(u)[2] = u
    /\ \A o : O(o)[1] = "organization" /\ O(o)[2] = o
    /\ \A o : T(o)[1] = "document_type"
    /\ \A k : K(k)[1] = "api_key" /\ K(k)[2] = k
    /\ \A u, o : M(u, o)[1] = "membership" /\ M(u, o)[2] = u /\ M(u, o)[3] = o
    /\ \A table, o, i : F(table, o, i)[1] = table
    /\ Site[1] = "platform_setting"
<1>1. \A u, o : M(u, o)[1] = "membership" /\ M(u, o)[2] = u /\ M(u, o)[3] = o
  BY DEF M
<1>2. \A table, o, i : F(table, o, i)[1] = table
  BY DEF F
<1> QED BY <1>1, <1>2 DEF U, O, T, K, Site

LEMMA RowsNamed ==
    /\ \A u \in User : U(u) \in Rows
    /\ \A o \in Org : O(o) \in Rows /\ T(o) \in Rows
    /\ \A k \in Key : K(k) \in Rows
    /\ \A u \in User, o \in Org : M(u, o) \in Rows
    /\ \A table \in Fixture, o \in Org, i \in Copy : F(table, o, i) \in Rows
    /\ Site \in Rows
<1>1. ASSUME NEW u \in User, NEW o \in Org PROVE M(u, o) \in Rows
  <2>1. <<u, o>> \in User \X Org /\ M(u, o) = M(<<u, o>>[1], <<u, o>>[2])
    OBVIOUS
  <2> QED BY <2>1 DEF Rows
<1>2. ASSUME NEW table \in Fixture, NEW o \in Org, NEW i \in Copy PROVE F(table, o, i) \in Rows
  <2>1. /\ <<table, o, i>> \in Fixture \X Org \X Copy
        /\ F(table, o, i) = F(<<table, o, i>>[1], <<table, o, i>>[2], <<table, o, i>>[3])
    OBVIOUS
  <2> QED BY <2>1 DEF Rows
<1> QED BY <1>1, <1>2 DEF Rows

LEMMA Organizations ==
    /\ \A o \in Org : O(o)[1] = "organization"
    /\ \A r \in Rows : r[1] = "organization" <=> r \in {O(o) : o \in Org}
<1>1. ASSUME NEW r \in Rows, r[1] = "organization" PROVE r \in {O(o) : o \in Org}
  <2>1. \A u, o : M(u, o)[1] # "organization"
    BY RowNames
  <2>2. \A table \in Fixture : \A o, i : F(table, o, i)[1] # "organization"
    BY RowNames DEF Fixture
  <2>3. /\ \A u : U(u)[1] # "organization"
        /\ \A k : K(k)[1] # "organization"
        /\ \A o : T(o)[1] # "organization"
        /\ Site[1] # "organization"
    BY RowNames
  <2>4. \A p \in User \X Org : M(p[1], p[2]) # r
    BY <1>1, <2>1
  <2>5. \A p \in Fixture \X Org \X Copy : F(p[1], p[2], p[3]) # r
    BY <1>1, <2>2
  <2> QED BY <1>1, <2>3, <2>4, <2>5 DEF Rows
<1> QED BY <1>1, RowNames

LEMMA NoRowApart == \A r : NoRow \notin RowSet(r)
  BY RowsAssumption DEF RowSet

\* What a commit makes of a row.
LEMMA RowAfter ==
    ASSUME RowsInv, NEW s \in Slot, Commit(s), NEW unit, unit = sessions[s], Typed(unit), NEW r \in Rows
    PROVE  /\ r \in DOMAIN unit.inserts => db[r] = NoRow /\ db'[r] = unit.inserts[r]
           /\ r \notin DOMAIN unit.inserts /\ r \in unit.deletes =>
                 r[1] = "api_key" /\ db'[r] = NoRow
           /\ r \notin DOMAIN unit.inserts /\ r \notin unit.deletes /\ r \in DOMAIN unit.updates =>
                 Exists(r) /\ db'[r] = unit.updates[r] @@ db[r] /\ Exists(r)'
           /\ r \notin DOMAIN unit.inserts /\ r \notin unit.deletes /\ r \notin DOMAIN unit.updates =>
                 db'[r] = db[r]
           /\ db'[r] \in {NoRow} \cup RowSet(r)
           /\ DOMAIN db' = Rows
<1>1. /\ db' = Applied(unit) /\ ~Conflict(unit) /\ DOMAIN db = Rows /\ db[r] \in {NoRow} \cup RowSet(r)
  BY DEF Commit, CommitUnit, RowsInv
<1>2. DOMAIN db' = Rows
  BY <1>1 DEF Applied
<1>3. CASE r \in DOMAIN unit.inserts
  BY <1>1, <1>2, <1>3 DEF Applied, Conflict, Typed
<1>4. CASE r \notin DOMAIN unit.inserts /\ r \in unit.deletes
  BY <1>1, <1>2, <1>4 DEF Applied, Typed
<1>5. CASE r \notin DOMAIN unit.inserts /\ r \notin unit.deletes /\ r \in DOMAIN unit.updates
  <2>1. db[r] # NoRow /\ db'[r] = unit.updates[r] @@ db[r]
    BY <1>1, <1>5 DEF Applied, Conflict
  <2>2. unit.updates[r] @@ db[r] \in RowSet(r)
    BY <1>1, <1>5, <2>1 DEF Typed
  <2> QED BY <1>2, <1>5, <2>1, <2>2, NoRowApart DEF Exists
<1>6. CASE r \notin DOMAIN unit.inserts /\ r \notin unit.deletes /\ r \notin DOMAIN unit.updates
  BY <1>1, <1>2, <1>6 DEF Applied
<1> QED BY <1>3, <1>4, <1>5, <1>6

\* Only keys are ever deleted.
LEMMA Permanent ==
    ASSUME RowsInv, NEW s \in Slot, Commit(s), Typed(sessions[s]), NEW r \in Rows, r[1] # "api_key",
           Exists(r)
    PROVE  Exists(r)'
<1> DEFINE unit == sessions[s]
<1>1. /\ r \in DOMAIN unit.inserts => db[r] = NoRow
      /\ r \notin unit.deletes
      /\ r \notin DOMAIN unit.inserts /\ r \in DOMAIN unit.updates => Exists(r)'
      /\ r \notin DOMAIN unit.inserts /\ r \notin DOMAIN unit.updates => db'[r] = db[r]
  BY RowAfter DEF Typed
<1> QED BY <1>1 DEF Exists

\* A key that expires is still a key.
LEMMA AfterExpiry ==
    ASSUME RowsInv, NEW k \in Key, KeyExpires(k)
    PROVE  /\ UNCHANGED <<trail, sessions, claims, served>>
           /\ DOMAIN db' = Rows /\ \A r \in Rows : db'[r] \in {NoRow} \cup RowSet(r)
           /\ \A r \in Rows : r[1] # "api_key" => db'[r] = db[r]
           /\ \A r \in Rows : Exists(r)' <=> Exists(r)
<1>1. /\ db' = [db EXCEPT ![K(k)] = [db[K(k)] EXCEPT !.expired = TRUE]]
      /\ UNCHANGED <<trail, sessions, claims, served>> /\ db[K(k)] # NoRow
      /\ K(k) \in Rows /\ K(k)[1] = "api_key" /\ RowSet(K(k)) = KeyRow
      /\ DOMAIN db = Rows /\ \A r \in Rows : db[r] \in {NoRow} \cup RowSet(r)
  BY RowNames, RowsNamed DEF KeyExpires, Exists, RowSet, RowsInv
<1>2. db[K(k)] \in KeyRow
  BY <1>1
<1>3. db'[K(k)] = [db[K(k)] EXCEPT !.expired = TRUE]
  BY <1>1
<1>4. db'[K(k)] \in KeyRow /\ db'[K(k)] # NoRow
  BY <1>2, <1>3, RowsAssumption DEF KeyRow
<1>5. DOMAIN db' = Rows /\ \A r \in Rows : r # K(k) => db'[r] = db[r]
  BY <1>1
<1>6. \A r \in Rows : db'[r] \in {NoRow} \cup RowSet(r)
  BY <1>1, <1>4, <1>5
<1> QED BY <1>1, <1>4, <1>5, <1>6 DEF Exists

-----------------------------------------------------------------------------
(* Requests that overlap in any way: commits, rollbacks, expiry.              *)

\* The trail after a commit: what was there, then what the unit brings.
LEMMA Appended ==
    ASSUME NEW p, NEW q, IsSeq(p), IsSeq(q)
    PROVE  /\ Len(p) \in Nat /\ DOMAIN p = 1..Len(p) /\ Len(q) \in Nat /\ DOMAIN q = 1..Len(q)
           /\ Len(p \o q) = Len(p) + Len(q) /\ DOMAIN (p \o q) = 1..(Len(p) + Len(q))
           /\ \A i \in DOMAIN p : i \in DOMAIN (p \o q) /\ (p \o q)[i] = p[i]
           /\ \A i \in DOMAIN q : Len(p) + i \in DOMAIN (p \o q) /\ (p \o q)[Len(p) + i] = q[i]
           /\ \A i \in DOMAIN (p \o q) : i \in DOMAIN p \/ \E j \in DOMAIN q : i = Len(p) + j
<1>1. PICK A : p \in Seq(A)
  BY DEF IsSeq
<1>2. PICK B : q \in Seq(B)
  BY DEF IsSeq
<1>3. p \in Seq(A \cup B) /\ q \in Seq(A \cup B) /\ p \o q \in Seq(A \cup B)
  BY <1>1, <1>2
<1>4. /\ Len(p) \in Nat /\ DOMAIN p = 1..Len(p) /\ Len(q) \in Nat /\ DOMAIN q = 1..Len(q)
      /\ Len(p \o q) = Len(p) + Len(q) /\ DOMAIN (p \o q) = 1..(Len(p) + Len(q))
  BY <1>3
<1>5. /\ \A i \in DOMAIN p : i \in DOMAIN (p \o q) /\ (p \o q)[i] = p[i]
      /\ \A i \in DOMAIN q : Len(p) + i \in DOMAIN (p \o q) /\ (p \o q)[Len(p) + i] = q[i]
  BY <1>3
<1>6. ASSUME NEW i \in 1..(Len(p) + Len(q)), i \notin 1..Len(p)
      PROVE  \E j \in 1..Len(q) : i = Len(p) + j
  <2>1. i - Len(p) \in 1..Len(q) /\ i = Len(p) + (i - Len(p))
    BY <1>4, <1>6
  <2> QED BY <2>1
<1> QED BY <1>4, <1>5, <1>6

\* What a commit does, by parts.
LEMMA Committed ==
    ASSUME StandingInv, NEW s \in Slot, Commit(s)
    PROVE  /\ sessions[s] # Idle /\ Sound(sessions[s])
           /\ Typed(sessions[s]) /\ Founding(sessions[s]) /\ Marked(sessions[s])
           /\ sessions' = [sessions EXCEPT ![s] = Idle] /\ UNCHANGED served
           /\ trail' = trail \o sessions[s].audit /\ IsSeq(trail) /\ IsSeq(sessions[s].audit)
           /\ \A x \in Slot : sessions'[x] # Idle => sessions'[x] = sessions[x] /\ x # s
  BY DEF StandingInv, AccountsInv, Commit, CommitUnit, Sound

LEMMA TrailAfter ==
    ASSUME StandingInv, NEW s \in Slot, Commit(s)
    PROVE  /\ \A i \in DOMAIN trail : i \in DOMAIN trail' /\ trail'[i] = trail[i]
           /\ \A i \in DOMAIN sessions[s].audit :
                 /\ Len(trail) + i \in DOMAIN trail'
                 /\ trail'[Len(trail) + i] = sessions[s].audit[i]
           /\ \A i \in DOMAIN trail' :
                 i \in DOMAIN trail \/ \E j \in DOMAIN sessions[s].audit : i = Len(trail) + j
<1> DEFINE new == sessions[s].audit
<1>1. trail' = trail \o new /\ IsSeq(trail) /\ IsSeq(new)
  BY Committed
<1> HIDE DEF new
<1>2. /\ \A i \in DOMAIN trail : i \in DOMAIN trail' /\ trail'[i] = trail[i]
      /\ \A i \in DOMAIN new : Len(trail) + i \in DOMAIN trail' /\ trail'[Len(trail) + i] = new[i]
      /\ \A i \in DOMAIN trail' : i \in DOMAIN trail \/ \E j \in DOMAIN new : i = Len(trail) + j
  BY <1>1, Appended
<1> QED BY <1>2 DEF new

LEMMA CommitRows ==
    ASSUME StandingInv, NEW s \in Slot, Commit(s)
    PROVE  RowsInv'
<1> DEFINE unit == sessions[s]
<1>0. RowsInv /\ Typed(unit) /\ UNCHANGED served
  BY Committed DEF StandingInv
<1>1. DOMAIN db' = Rows /\ \A r \in Rows : db'[r] \in {NoRow} \cup RowSet(r)
  BY <1>0, RowAfter, RowsNamed
<1>2. ASSUME NEW u \in User, NEW o \in Org, Exists(M(u, o))' PROVE Exists(O(o))'
  <2>0. M(u, o) \in Rows /\ O(o) \in Rows /\ M(u, o)[1] # "api_key" /\ O(o)[1] # "api_key"
    BY RowNames, RowsNamed
  <2>1. Exists(O(o)) => Exists(O(o))'
    BY <1>0, <2>0, Permanent
  <2>2. O(o) \in DOMAIN unit.inserts => Exists(O(o))'
    BY <1>0, <2>0, RowAfter, NoRowApart DEF Exists, Typed
  <2>3. M(u, o) \in DOMAIN unit.inserts \/ Exists(M(u, o))
    BY <1>0, <1>2, <2>0, RowAfter DEF Exists
  <2>4. Exists(M(u, o)) => Exists(O(o))
    BY <1>0 DEF RowsInv
  <2>5. M(u, o) \in DOMAIN unit.inserts => O(o) \in DOMAIN unit.inserts \/ Exists(O(o))
    BY <1>0 DEF Typed
  <2> QED BY <2>1, <2>2, <2>3, <2>4, <2>5
<1> QED BY <1>0, <1>1, <1>2 DEF RowsInv

\* A claim that was issued before the commit.
LEMMA ClaimAfterCommit ==
    ASSUME StandingInv, NEW s \in Slot, Commit(s),
           NEW c \in [user : User, org : Org \cup {NoOrg}, role : Role], ClaimKept(c)
    PROVE  ClaimKept(c)'
<1> DEFINE unit == sessions[s]
<1>0. /\ RowsInv /\ Typed(unit) /\ Marked(unit) /\ c.user \in User /\ c.org \in Org \cup {NoOrg}
      /\ trail' = trail \o unit.audit /\ IsSeq(trail) /\ IsSeq(unit.audit)
  BY Committed DEF StandingInv
<1>1. /\ \A i \in DOMAIN trail : i \in DOMAIN trail' /\ trail'[i] = trail[i]
      /\ \A i \in DOMAIN unit.audit : Len(trail) + i \in DOMAIN trail' /\ trail'[Len(trail) + i] = unit.audit[i]
  BY TrailAfter
<1>2. CASE c.org = NoOrg
  <2> DEFINE r == U(c.user)
  <2>0. r \in Rows /\ r[1] # "api_key" /\ Exists(r)
    BY <1>0, <1>2, RowNames, RowsNamed DEF ClaimKept
  <2>1. Exists(r)'
    BY <1>0, <2>0, Permanent
  <2>2. CASE \E i \in DOMAIN trail : /\ trail[i].action = "SUPERADMIN_CHANGED"
                                       /\ trail[i].row = r /\ ~trail[i].after.superadmin
    BY <1>1, <1>2, <2>1, <2>2 DEF ClaimKept
  <2>3. CASE /\ db[r].superadmin
             /\ r \in DOMAIN unit.updates /\ "superadmin" \in DOMAIN unit.updates[r]
    <3>1. \/ unit.updates[r].superadmin = TRUE
          \/ \E i \in DOMAIN unit.audit : /\ unit.audit[i].action = "SUPERADMIN_CHANGED"
                                          /\ unit.audit[i].row = r
                                          /\ ~unit.audit[i].after.superadmin
      BY <1>0, <2>3 DEF Marked
    <3>2. db'[r] = unit.updates[r] @@ db[r]
      BY <1>0, <2>0, <2>3, RowAfter DEF Exists, Typed
    <3>3. db'[r].superadmin = unit.updates[r].superadmin
      BY <2>3, <3>2 DEF @@
    <3> QED BY <1>1, <1>2, <2>1, <3>1, <3>3 DEF ClaimKept
  <2>4. CASE /\ db[r].superadmin
             /\ r \in DOMAIN unit.updates => "superadmin" \notin DOMAIN unit.updates[r]
    <3>1. db'[r] = db[r] \/ (r \in DOMAIN unit.updates /\ db'[r] = unit.updates[r] @@ db[r])
      BY <1>0, <2>0, RowAfter DEF Exists, Typed
    <3>2. "superadmin" \in DOMAIN db[r]
      BY <1>0, <2>0, RowNames DEF RowsInv, RowSet, UserRow, Exists
    <3>3. db'[r].superadmin = db[r].superadmin
      BY <2>4, <3>1, <3>2 DEF @@
    <3> QED BY <1>2, <2>1, <2>4, <3>3 DEF ClaimKept
  <2> QED BY <1>2, <2>2, <2>3, <2>4 DEF ClaimKept
<1>3. CASE c.org # NoOrg
  <2> DEFINE r == M(c.user, c.org)
  <2>0. r \in Rows /\ r[1] # "api_key" /\ Exists(r) /\ c.org \in Org
    BY <1>0, <1>3, RowNames, RowsNamed DEF ClaimKept
  <2>1. Exists(r)'
    BY <1>0, <2>0, Permanent
  <2>2. "role" \in DOMAIN db[r]
    BY <1>0, <2>0, RowNames DEF RowsInv, RowSet, MemberRow, Exists
  <2>3. CASE r \in DOMAIN unit.updates /\ "role" \in DOMAIN unit.updates[r]
    <3>1. db'[r] = unit.updates[r] @@ db[r]
      BY <1>0, <2>0, <2>3, RowAfter DEF Exists, Typed
    <3>2. db'[r].role = unit.updates[r].role
      BY <2>3, <3>1 DEF @@
    <3>3. \/ \E i \in DOMAIN unit.audit :
                /\ unit.audit[i].action = "MEMBER_INVITED" /\ unit.audit[i].row = r
                /\ unit.audit[i].after.role = unit.updates[r].role
          \/ /\ c.org = Demo /\ unit.updates[r].role = DemoRole(c.user)
             /\ \E i \in DOMAIN unit.audit : unit.audit[i].action = "DEMO_SEEDED"
      BY <1>0, <2>0, <2>3 DEF Marked
    <3> QED BY <1>1, <1>3, <2>1, <3>2, <3>3 DEF ClaimKept
  <2>4. CASE r \in DOMAIN unit.updates => "role" \notin DOMAIN unit.updates[r]
    <3>1. db'[r] = db[r] \/ (r \in DOMAIN unit.updates /\ db'[r] = unit.updates[r] @@ db[r])
      BY <1>0, <2>0, RowAfter DEF Exists, Typed
    <3>2. db'[r].role = db[r].role
      BY <2>2, <2>4, <3>1 DEF @@
    <3>3. \/ db[r].role = c.role
          \/ \E i \in DOMAIN trail : /\ trail[i].action = "MEMBER_INVITED" /\ trail[i].row = r
                                     /\ trail[i].after.role = db[r].role
          \/ /\ c.org = Demo /\ db[r].role = DemoRole(c.user)
             /\ \E i \in DOMAIN trail : trail[i].action = "DEMO_SEEDED"
      BY <1>3 DEF ClaimKept
    <3> QED BY <1>1, <1>3, <2>1, <3>2, <3>3 DEF ClaimKept
  <2> QED BY <2>3, <2>4
<1> QED BY <1>2, <1>3

\* A sign-in issues claims that rows grant then.
LEMMA SignInKept ==
    ASSUME RowsInv', NEW held,
           \A c \in held : c \in [user : User, org : Org \cup {NoOrg}, role : Role] /\ ClaimKept(c)',
           NEW c \in SignIns(db', held)
    PROVE  c \in [user : User, org : Org \cup {NoOrg}, role : Role] /\ ClaimKept(c)'
<1>1. CASE c \in held
  BY <1>1
<1>2. CASE \E u \in User, o \in Org : /\ o \in ActiveOrgs(db', u)
                                      /\ c = [user |-> u, org |-> o, role |-> db'[M(u, o)].role]
  <2>1. PICK u \in User, o \in Org : /\ o \in ActiveOrgs(db', u)
                                     /\ c = [user |-> u, org |-> o, role |-> db'[M(u, o)].role]
    BY <1>2
  <2>2. M(u, o) \in Rows /\ RowSet(M(u, o)) = MemberRow /\ db'[M(u, o)] # NoRow /\ o # NoOrg
    BY <2>1, RowNames, RowsNamed, AccountsAssumption DEF ActiveOrgs, RowSet
  <2>3. db'[M(u, o)] \in MemberRow
    BY <2>2 DEF RowsInv
  <2>4. db'[M(u, o)].role \in Role
    BY <2>3 DEF MemberRow
  <2> QED BY <2>1, <2>2, <2>4 DEF ClaimKept, Exists
<1>3. CASE \E u \in User : /\ db'[U(u)] # NoRow /\ db'[U(u)].superadmin
                           /\ c = [user |-> u, org |-> NoOrg, role |-> "SUPERADMIN"]
  BY <1>3 DEF ClaimKept, Exists, Role
<1> QED BY <1>1, <1>2, <1>3 DEF SignIns

LEMMA CommitClaims ==
    ASSUME StandingInv, NEW s \in Slot, Commit(s)
    PROVE  ClaimsInv'
<1> DEFINE unit   == sessions[s]
           issued == {[user |-> p[1], org |-> p[2], role |-> db'[M(p[1], p[2])].role] : p \in unit.tokens}
           Good(c) == c \in [user : User, org : Org \cup {NoOrg}, role : Role] /\ ClaimKept(c)
<1>0. RowsInv /\ RowsInv' /\ Typed(unit) /\ \A c \in claims : Good(c)
  BY Committed, CommitRows DEF StandingInv, ClaimsInv
<1>1. \A c \in claims : Good(c)'
  BY <1>0, ClaimAfterCommit
<1>2. ASSUME NEW c \in issued PROVE Good(c)'
  <2>1. PICK p \in unit.tokens : c = [user |-> p[1], org |-> p[2], role |-> db'[M(p[1], p[2])].role]
    BY <1>2
  <2> DEFINE r == M(p[1], p[2])
  <2>2. /\ p[1] \in User /\ p[2] \in Org /\ r \in Rows /\ r[1] # "api_key" /\ RowSet(r) = MemberRow
        /\ r \in DOMAIN unit.inserts \/ Exists(r)
    BY <1>0, RowNames, RowsNamed, AccountsAssumption DEF Typed, RowSet
  <2>3. Exists(r)'
    BY <1>0, <2>2, RowAfter, Permanent, NoRowApart DEF Exists, Typed
  <2>4. db'[r] \in MemberRow
    BY <1>0, <2>2, <2>3 DEF RowsInv, Exists
  <2>5. db'[r].role \in Role
    BY <2>4 DEF MemberRow
  <2>6. p[2] # NoOrg
    BY <2>2, AccountsAssumption
  <2> QED BY <2>1, <2>2, <2>3, <2>5, <2>6 DEF ClaimKept
<1>3. claims' = SignIns(db', claims \cup issued)
  BY DEF Commit
<1>4. \A c \in claims \cup issued : Good(c)'
  BY <1>1, <1>2
<1>5. \A c \in claims' : Good(c)'
  <2> HIDE DEF issued
  <2>1. ASSUME NEW c \in SignIns(db', claims \cup issued) PROVE Good(c)'
    BY <1>0, <1>4, <2>1, SignInKept
  <2> QED BY <1>3, <2>1
<1> QED BY <1>5 DEF ClaimsInv

LEMMA CommitSuspended ==
    ASSUME StandingInv, NEW s \in Slot, Commit(s)
    PROVE  SuspendedInv'
<1> DEFINE unit == sessions[s]
<1>0. RowsInv /\ Typed(unit) /\ Marked(unit) /\ SuspendedInv
  BY Committed DEF StandingInv
<1>1. /\ \A i \in DOMAIN trail : i \in DOMAIN trail' /\ trail'[i] = trail[i]
      /\ \A i \in DOMAIN unit.audit : Len(trail) + i \in DOMAIN trail' /\ trail'[Len(trail) + i] = unit.audit[i]
  BY TrailAfter
<1>2. ASSUME NEW r \in Rows, Exists(r)', "status" \in DOMAIN db'[r], db'[r]["status"] = "SUSPENDED"
      PROVE  \E i \in DOMAIN trail' : Suspends(trail'[i], r)
  <2>1. r \notin DOMAIN unit.inserts
    BY <1>0, <1>2, RowAfter DEF Marked
  <2>2. r \notin unit.deletes
    BY <1>0, <1>2, <2>1, RowAfter DEF Exists
  <2>3. CASE /\ r \in DOMAIN unit.updates /\ "status" \in DOMAIN unit.updates[r]
    <3>1. db'[r] = unit.updates[r] @@ db[r]
      BY <1>0, <2>1, <2>2, <2>3, RowAfter
    <3>2. unit.updates[r]["status"] = "SUSPENDED"
      BY <1>2, <2>3, <3>1 DEF @@
    <3>3. PICK i \in DOMAIN unit.audit : Suspends(unit.audit[i], r)
      BY <1>0, <2>3, <3>2 DEF Marked
    <3> QED BY <1>1, <3>3
  <2>4. CASE r \in DOMAIN unit.updates => "status" \notin DOMAIN unit.updates[r]
    <3>1. \/ db'[r] = db[r]
          \/ r \in DOMAIN unit.updates /\ db'[r] = unit.updates[r] @@ db[r]
      BY <1>0, <2>1, <2>2, RowAfter
    <3>2. Exists(r)
      BY <1>0, <1>2, <2>1, <2>2, RowAfter DEF Exists
    <3>3. "status" \in DOMAIN db[r] /\ db[r]["status"] = "SUSPENDED"
      BY <1>2, <2>4, <3>1 DEF @@
    <3>4. PICK i \in DOMAIN trail : Suspends(trail[i], r)
      BY <1>0, <3>2, <3>3 DEF SuspendedInv
    <3> QED BY <1>1, <3>4
  <2> QED BY <2>3, <2>4
<1> QED BY <1>2 DEF SuspendedInv, Suspends

LEMMA CommitFounded ==
    ASSUME StandingInv, NEW s \in Slot, Commit(s)
    PROVE  FoundedInv'
<1> DEFINE unit == sessions[s]
<1>0. RowsInv /\ Typed(unit) /\ Founding(unit) /\ FoundedInv
  BY Committed DEF StandingInv
<1>1. /\ \A i \in DOMAIN trail : i \in DOMAIN trail' /\ trail'[i] = trail[i]
      /\ \A i \in DOMAIN unit.audit : Len(trail) + i \in DOMAIN trail' /\ trail'[Len(trail) + i] = unit.audit[i]
      /\ \A i \in DOMAIN trail' : i \in DOMAIN trail \/ \E j \in DOMAIN unit.audit : i = Len(trail) + j
  BY TrailAfter
<1>2. \A r \in Rows : r[1] # "api_key" /\ (Exists(r) \/ r \in DOMAIN unit.inserts) => Exists(r)'
  BY <1>0, RowAfter, Permanent, NoRowApart DEF Exists, Typed
<1>3. \A r \in Rows : r[1] # "api_key" /\ Exists(r)' => Exists(r) \/ r \in DOMAIN unit.inserts
  BY <1>0, RowAfter DEF Exists, Typed
<1>4. ASSUME NEW o \in Org \ {Seeded, Demo}, Exists(O(o))'
      PROVE  \E i \in DOMAIN trail' : trail'[i].action = "ORG_CREATED" /\ trail'[i].row = O(o)
  <2>1. Exists(O(o)) \/ O(o) \in DOMAIN unit.inserts
    BY <1>3, <1>4, RowNames, RowsNamed
  <2>2. CASE Exists(O(o))
    BY <1>0, <1>1, <2>2 DEF FoundedInv
  <2>3. CASE O(o) \in DOMAIN unit.inserts
    BY <1>0, <1>1, <2>3 DEF Founding
  <2> QED BY <2>1, <2>2, <2>3
<1>5. ASSUME NEW i \in DOMAIN trail', trail'[i].action = "ORG_CREATED"
      PROVE  \E o \in Org :
               /\ trail'[i].row = O(o) /\ Exists(O(o))'
               /\ "admin" \in DOMAIN trail'[i].after =>
                    \E u \in User : /\ trail'[i].after.admin = u
                                    /\ Exists(U(u))' /\ Exists(M(u, o))'
  <2>0. \A u \in User, o \in Org :
           /\ Exists(U(u)) \/ U(u) \in DOMAIN unit.inserts => Exists(U(u))'
           /\ Exists(O(o)) \/ O(o) \in DOMAIN unit.inserts => Exists(O(o))'
           /\ Exists(M(u, o)) \/ M(u, o) \in DOMAIN unit.inserts => Exists(M(u, o))'
    <3>1. \A u \in User, o \in Org : /\ U(u) \in Rows /\ U(u)[1] # "api_key"
                                     /\ O(o) \in Rows /\ O(o)[1] # "api_key"
                                     /\ M(u, o) \in Rows /\ M(u, o)[1] # "api_key"
      BY RowNames, RowsNamed
    <3> QED BY <1>2, <3>1
  <2>1. CASE i \in DOMAIN trail
    <3>0. trail'[i] = trail[i]
      BY <1>1, <2>1
    <3>1. PICK o \in Org :
             /\ trail[i].row = O(o) /\ Exists(O(o))
             /\ "admin" \in DOMAIN trail[i].after =>
                  \E u \in User : trail[i].after.admin = u /\ Exists(U(u)) /\ Exists(M(u, o))
      BY <1>0, <1>1, <1>5, <2>1 DEF FoundedInv
    <3>2. trail'[i].row = O(o) /\ Exists(O(o))'
      BY <2>0, <3>0, <3>1, AccountsAssumption
    <3>3. ASSUME "admin" \in DOMAIN trail'[i].after
          PROVE  \E u \in User : trail'[i].after.admin = u /\ Exists(U(u))' /\ Exists(M(u, o))'
      <4>1. PICK u \in User : trail[i].after.admin = u /\ Exists(U(u)) /\ Exists(M(u, o))
        BY <1>1, <2>1, <3>1, <3>3
      <4> QED BY <1>1, <2>0, <2>1, <4>1
    <3> QED BY <3>2, <3>3
  <2>2. CASE i \notin DOMAIN trail
    <3>1. PICK j \in DOMAIN unit.audit : i = Len(trail) + j /\ trail'[i] = unit.audit[j]
      BY <1>1, <2>2
    <3>2. PICK o \in Org :
             /\ unit.audit[j].row = O(o) /\ O(o) \in DOMAIN unit.inserts
             /\ "admin" \in DOMAIN unit.audit[j].after =>
                  \E u \in User : /\ unit.audit[j].after.admin = u
                                  /\ {U(u), M(u, o)} \subseteq DOMAIN unit.inserts
      BY <1>0, <1>5, <3>1 DEF Founding
    <3>3. trail'[i].row = O(o) /\ Exists(O(o))'
      BY <2>0, <3>1, <3>2, AccountsAssumption
    <3>4. ASSUME "admin" \in DOMAIN trail'[i].after
          PROVE  \E u \in User : trail'[i].after.admin = u /\ Exists(U(u))' /\ Exists(M(u, o))'
      <4>1. PICK u \in User : /\ unit.audit[j].after.admin = u
                              /\ {U(u), M(u, o)} \subseteq DOMAIN unit.inserts
        BY <3>1, <3>2, <3>4
      <4> QED BY <2>0, <3>1, <4>1
    <3> QED BY <3>3, <3>4
  <2> QED BY <2>1, <2>2
<1> QED BY <1>4, <1>5 DEF FoundedInv

\* Units stay what they are as long as rows stay.
LEMMA UnitsKept ==
    ASSUME StandingInv, NEW x \in Slot, sessions[x] # Idle, sessions'[x] = sessions[x],
           \A u \in User, o \in Org : /\ Exists(M(u, o)) => Exists(M(u, o))'
                                      /\ Exists(O(o)) => Exists(O(o))'
    PROVE  Typed(sessions[x])' /\ Founding(sessions[x])' /\ Marked(sessions[x])'
<1> DEFINE unit == sessions[x]
<1>1. Typed(unit) /\ Founding(unit) /\ Marked(unit)
  BY DEF StandingInv
<1>2. /\ \A r \in DOMAIN unit.inserts : unit.inserts[r] \in RowSet(r)
      /\ \A r \in DOMAIN unit.updates : \A y \in RowSet(r) : unit.updates[r] @@ y \in RowSet(r)
      /\ \A r \in unit.deletes : r[1] = "api_key"
      /\ unit.tokens \subseteq User \X Org
      /\ \A p \in unit.tokens : M(p[1], p[2]) \in DOMAIN unit.inserts \/ Exists(M(p[1], p[2]))'
      /\ \A u \in User, o \in Org : M(u, o) \in DOMAIN unit.inserts =>
            O(o) \in DOMAIN unit.inserts \/ Exists(O(o))'
  BY <1>1 DEF Typed
<1>3. Typed(sessions[x])'
  BY <1>2 DEF Typed
<1> QED BY <1>1, <1>3 DEF Founding, Marked

LEMMA StandCommit ==
    ASSUME StandingInv, NEW s \in Slot, Commit(s)
    PROVE  StandingInv'
<1>1. RowsInv /\ Typed(sessions[s])
  BY Committed DEF StandingInv
<1>2. \A u \in User, o \in Org : /\ Exists(M(u, o)) => Exists(M(u, o))'
                                 /\ Exists(O(o)) => Exists(O(o))'
  BY <1>1, Permanent, RowNames, RowsNamed
<1>3. \A x \in Slot : sessions'[x] # Idle =>
         Typed(sessions[x])' /\ Founding(sessions[x])' /\ Marked(sessions[x])'
  BY <1>2, Committed, UnitsKept
<1>4. AccountsInv'
  BY CommitHolds DEF StandingInv
<1> QED BY <1>3, <1>4, CommitRows, CommitClaims, CommitSuspended, CommitFounded DEF StandingInv

\* Claims and foundations outlast a step that keeps trail, claims and rows.
LEMMA QuietStep ==
    ASSUME StandingInv, AccountsInv', RowsInv', UNCHANGED <<trail, claims>>,
           \A r \in Rows : (Exists(r) <=> Exists(r)') /\ (r[1] # "api_key" => db'[r] = db[r])
    PROVE  ClaimsInv' /\ SuspendedInv' /\ FoundedInv'
<1>0. \A u \in User, o \in Org :
         /\ db'[U(u)] = db[U(u)] /\ db'[M(u, o)] = db[M(u, o)] /\ db'[O(o)] = db[O(o)]
         /\ Exists(U(u)) => Exists(U(u))'
         /\ Exists(M(u, o)) => Exists(M(u, o))'
         /\ Exists(O(o)) <=> Exists(O(o))'
  BY RowNames, RowsNamed
<1>1. ClaimsInv'
  <2>1. ASSUME NEW c \in claims PROVE ClaimKept(c)'
    <3>1. c \in [user : User, org : Org \cup {NoOrg}, role : Role] /\ ClaimKept(c)
      BY DEF StandingInv, ClaimsInv
    <3>2. c.user \in User /\ (c.org # NoOrg => c.org \in Org)
      BY <3>1
    <3>3. CASE c.org = NoOrg
      <4> DEFINE r == U(c.user)
      <4>1. db'[r] = db[r] /\ (Exists(r) => Exists(r)')
        BY <1>0, <3>2, AccountsAssumption
      <4> HIDE DEF r
      <4>2. /\ Exists(U(c.user))
            /\ \/ db[U(c.user)].superadmin
               \/ \E i \in DOMAIN trail : /\ trail[i].action = "SUPERADMIN_CHANGED"
                                          /\ trail[i].row = U(c.user)
                                          /\ ~trail[i].after.superadmin
        BY <3>1, <3>3 DEF ClaimKept
      <4> QED BY <3>3, <4>1, <4>2 DEF ClaimKept, r
    <3>4. CASE c.org # NoOrg
      <4> DEFINE r == M(c.user, c.org)
      <4>1. db'[r] = db[r] /\ (Exists(r) => Exists(r)')
        BY <1>0, <3>2, <3>4
      <4> HIDE DEF r
      <4>2. /\ Exists(r)
            /\ \/ db[r].role = c.role
               \/ \E i \in DOMAIN trail : /\ trail[i].action = "MEMBER_INVITED"
                                          /\ trail[i].row = r /\ trail[i].after.role = db[r].role
               \/ /\ c.org = Demo /\ db[r].role = DemoRole(c.user)
                  /\ \E i \in DOMAIN trail : trail[i].action = "DEMO_SEEDED"
        BY <3>1, <3>4 DEF ClaimKept, r
      <4> QED BY <3>4, <4>1, <4>2 DEF ClaimKept, r
    <3> QED BY <3>3, <3>4
  <2>2. \A c \in claims : c \in [user : User, org : Org \cup {NoOrg}, role : Role]
    BY DEF StandingInv, ClaimsInv
  <2> QED BY <2>1, <2>2 DEF ClaimsInv
<1>2. SuspendedInv'
  <2>1. SuspendedInv /\ trail' = trail /\ RowsInv'
    BY DEF StandingInv
  <2>2. ASSUME NEW r \in Rows, Exists(r)', "status" \in DOMAIN db'[r], db'[r]["status"] = "SUSPENDED"
        PROVE  \E i \in DOMAIN trail' : Suspends(trail'[i], r)
    <3>1. CASE r[1] = "api_key"
      BY <2>1, <2>2, <3>1 DEF RowsInv, RowSet, KeyRow, Exists
    <3>2. CASE r[1] # "api_key"
      <4>1. Exists(r) /\ db'[r] = db[r]
        BY <2>2, <3>2
      <4> QED BY <2>1, <2>2, <4>1 DEF SuspendedInv
    <3> QED BY <3>1, <3>2
  <2> QED BY <2>2 DEF SuspendedInv, Suspends
<1>3. FoundedInv'
  <2>1. FoundedInv /\ trail' = trail
    BY DEF StandingInv
  <2>2. ASSUME NEW o \in Org \ {Seeded, Demo}, Exists(O(o))'
        PROVE  \E i \in DOMAIN trail' : trail'[i].action = "ORG_CREATED" /\ trail'[i].row = O(o)
    <3>1. Exists(O(o))
      BY <1>0, <2>2, AccountsAssumption
    <3>2. PICK i \in DOMAIN trail : trail[i].action = "ORG_CREATED" /\ trail[i].row = O(o)
      BY <2>1, <3>1 DEF FoundedInv
    <3> QED BY <2>1, <3>2
  <2>3. ASSUME NEW i \in DOMAIN trail', trail'[i].action = "ORG_CREATED"
        PROVE  \E o \in Org :
                 /\ trail'[i].row = O(o) /\ Exists(O(o))'
                 /\ "admin" \in DOMAIN trail'[i].after =>
                      \E u \in User : trail'[i].after.admin = u /\ Exists(U(u))' /\ Exists(M(u, o))'
    <3>1. PICK o \in Org :
             /\ trail[i].row = O(o) /\ Exists(O(o))
             /\ "admin" \in DOMAIN trail[i].after =>
                  \E u \in User : trail[i].after.admin = u /\ Exists(U(u)) /\ Exists(M(u, o))
      BY <2>1, <2>3 DEF FoundedInv
    <3>2. ASSUME "admin" \in DOMAIN trail'[i].after
          PROVE  \E u \in User : trail'[i].after.admin = u /\ Exists(U(u))' /\ Exists(M(u, o))'
      <4>1. PICK u \in User : trail[i].after.admin = u /\ Exists(U(u)) /\ Exists(M(u, o))
        BY <2>1, <3>1, <3>2
      <4>2. Exists(U(u))' /\ Exists(M(u, o))'
        BY <1>0, <4>1
      <4> QED BY <2>1, <4>1, <4>2
    <3>3. trail'[i].row = O(o) /\ Exists(O(o))'
      BY <1>0, <2>1, <3>1, AccountsAssumption
    <3> QED BY <3>2, <3>3
  <2> QED BY <2>2, <2>3 DEF FoundedInv
<1> QED BY <1>1, <1>2, <1>3

LEMMA StandExpiry ==
    ASSUME StandingInv, NEW k \in Key, KeyExpires(k)
    PROVE  StandingInv'
<1>0. RowsInv /\ AccountsInv
  BY DEF StandingInv
<1>1. /\ UNCHANGED <<trail, sessions, claims, served>>
      /\ DOMAIN db' = Rows /\ \A r \in Rows : db'[r] \in {NoRow} \cup RowSet(r)
      /\ \A r \in Rows : (Exists(r) <=> Exists(r)') /\ (r[1] # "api_key" => db'[r] = db[r])
  BY <1>0, AfterExpiry
<1>2. AccountsInv'
  BY <1>0, ExpiryHolds
<1>3. \A u \in User, o \in Org : /\ Exists(M(u, o)) <=> Exists(M(u, o))'
                                 /\ Exists(O(o)) <=> Exists(O(o))'
  BY <1>1, RowsNamed
<1>4. RowsInv'
  BY <1>0, <1>1, <1>3 DEF RowsInv
<1>5. \A x \in Slot : sessions'[x] # Idle =>
         Typed(sessions[x])' /\ Founding(sessions[x])' /\ Marked(sessions[x])'
  BY <1>1, <1>3, UnitsKept
<1> QED BY <1>1, <1>2, <1>4, <1>5, QuietStep DEF StandingInv

LEMMA StandRefuse ==
    ASSUME StandingInv, NEW s \in Slot, Refuse(s)
    PROVE  StandingInv'
<1>1. /\ sessions' = [sessions EXCEPT ![s] = Idle] /\ UNCHANGED <<db, trail, claims, served>>
      /\ RowsInv /\ AccountsInv
  BY DEF Refuse, Rollback, StandingInv
<1>2. AccountsInv'
  BY <1>1, RefuseHolds
<1>3. RowsInv' /\ \A r : Exists(r)' <=> Exists(r)
  BY <1>1 DEF RowsInv, Exists
<1>4. \A x \in Slot : sessions'[x] # Idle => sessions'[x] = sessions[x]
  BY <1>1 DEF AccountsInv
<1>5. \A x \in Slot : sessions'[x] # Idle =>
         Typed(sessions[x])' /\ Founding(sessions[x])' /\ Marked(sessions[x])'
  BY <1>3, <1>4, UnitsKept
<1> QED BY <1>1, <1>2, <1>3, <1>5, QuietStep DEF StandingInv

\* A request that opens a unit of the right form.
LEMMA StandBegun ==
    ASSUME StandingInv, AccountsInv', NEW s \in Slot, NEW unit, Begin(s, unit),
           Typed(unit), Founding(unit), Marked(unit)
    PROVE  StandingInv'
<1>1. /\ sessions' = [sessions EXCEPT ![s] = unit] /\ UNCHANGED <<db, trail, claims>>
      /\ served < MaxRequests /\ served' = served + 1 /\ RowsInv /\ AccountsInv
  BY DEF Begin, Open, StandingInv
<1>2. RowsInv' /\ \A r : Exists(r)' <=> Exists(r)
  BY <1>1, AccountsAssumption DEF RowsInv, Exists
<1>3. \A x \in Slot : sessions'[x] = IF x = s THEN unit ELSE sessions[x]
  BY <1>1 DEF AccountsInv
<1>4. ASSUME NEW x \in Slot, sessions'[x] # Idle
      PROVE  Typed(sessions[x])' /\ Founding(sessions[x])' /\ Marked(sessions[x])'
  <2>1. CASE x # s
    BY <1>2, <1>3, <1>4, <2>1, UnitsKept
  <2>2. CASE x = s
    BY <1>2, <1>3, <2>2 DEF Typed, Founding, Marked
  <2> QED BY <2>1, <2>2
<1> QED BY <1>1, <1>2, <1>4, QuietStep DEF StandingInv

-----------------------------------------------------------------------------
(* Requests: the unit of work that each of them opens.                        *)

Fit(unit) ==
    /\ Typed(unit) /\ Founding(unit) /\ Marked(unit)
    /\ Original(unit) /\ Audited(unit) /\ Truthful(unit)
    /\ Remembers(unit) /\ Historical(unit) /\ Adding(unit)

LEMMA Single ==
    ASSUME NEW a, NEW r, NEW b, NEW x, NEW t, t = <<Entry(a, r, b, x)>>
    PROVE  /\ DOMAIN t = {1} /\ Len(t) = 1
           /\ t[1].action = a /\ t[1].row = r /\ t[1].before = b /\ t[1].after = x
           /\ a # "MEMBER_INVITED" => Says(t[1]) = x
<1>1. DOMAIN t = {1} /\ Len(t) = 1 /\ t[1] = Entry(a, r, b, x)
  OBVIOUS
<1> QED BY <1>1 DEF Entry, Says

\* One row that is found, with a new value for one of its columns.
LEMMA Alone ==
    ASSUME NEW r, Exists(r), NEW new, NEW col, DOMAIN new = {col}
    PROVE  /\ DOMAIN Changed(r :> new) \subseteq {r}
           /\ r \in DOMAIN Changed(r :> new) =>
                /\ DOMAIN Changed(r :> new)[r] = {col} /\ Changed(r :> new)[r][col] = new[col]
                /\ Changed(r :> new)[r] = [c \in {col} |-> new[col]]
           /\ r \notin DOMAIN Changed(r :> new) => db[r][col] = new[col]
<1> DEFINE rows == r :> new
<1>1. DOMAIN rows = {r} /\ rows[r] = new
  BY DEF :>
<1> HIDE DEF rows
<1>2. /\ DOMAIN Changed(rows) \subseteq {r}
      /\ r \in DOMAIN Changed(rows) =>
           /\ Changed(rows)[r] = [c \in {x \in {col} : new[x] # db[r][x]} |-> new[c]]
           /\ {x \in {col} : new[x] # db[r][x]} # {}
      /\ r \notin DOMAIN Changed(rows) => {x \in {col} : new[x] # db[r][x]} = {}
  BY <1>1 DEF Changed, Exists
<1>3. {x \in {col} : new[x] # db[r][x]} # {} => {x \in {col} : new[x] # db[r][x]} = {col}
  OBVIOUS
<1> QED BY <1>2, <1>3 DEF rows

\* What a request that updates one column must see to: whose column it is, that the
\* superadmin flag is audited as such, and that an organization is remembered.
Warranted(op, action, r, col, before, new) ==
    /\ op \notin Seeders /\ col \in DOMAIN Created
    /\ r[1] = "organization" \/ (op \in Administrative /\ r[1] \in {"user", "membership"})
    /\ col = "superadmin" => action = "SUPERADMIN_CHANGED" /\ new[col] \in BOOLEAN
    /\ r[1] = "organization" => /\ col \in OrgColumn
                                /\ DOMAIN before = {col} /\ before[col] = db[r][col]

LEMMA UpdateFits ==
    ASSUME RowsInv, NEW op, NEW r \in Rows, Exists(r),
           NEW new, NEW col, DOMAIN new = {col},
           \A x \in RowSet(r) : col \in DOMAIN x /\ [x EXCEPT ![col] = new[col]] \in RowSet(r),
           NEW action, action \notin {"ORG_CREATED", "MEMBER_INVITED"}, NEW before,
           Warranted(op, action, r, col, before, new),
           NEW unit, unit = [Unit(op) EXCEPT !.updates = Changed(r :> new),
                                             !.audit   = <<Entry(action, r, before, new)>>]
    PROVE  Fit(unit)
<1> DEFINE updates == Changed(r :> new)
           audit == <<Entry(action, r, before, new)>>
<1>0. /\ op \notin Seeders /\ col \in DOMAIN Created
      /\ r[1] = "organization" \/ (op \in Administrative /\ r[1] \in {"user", "membership"})
      /\ col = "superadmin" => action = "SUPERADMIN_CHANGED" /\ new[col] \in BOOLEAN
      /\ r[1] = "organization" => /\ col \in OrgColumn
                                  /\ DOMAIN before = {col} /\ before[col] = db[r][col]
  BY DEF Warranted
<1>1. /\ DOMAIN updates \subseteq {r}
      /\ r \in DOMAIN updates => updates[r] = [c \in {col} |-> new[col]]
      /\ r \notin DOMAIN updates => db[r][col] = new[col]
  BY Alone
<1>2. /\ DOMAIN audit = {1} /\ Len(audit) = 1 /\ audit[1].action = action
      /\ audit[1].row = r /\ audit[1].before = before /\ audit[1].after = new /\ Says(audit[1]) = new
  <2>1. action # "MEMBER_INVITED"
    OBVIOUS
  <2>2. audit = <<Entry(action, r, before, new)>>
    OBVIOUS
  <2> HIDE DEF audit, updates
  <2> QED BY <2>1, <2>2, Single
<1> HIDE DEF updates, audit
<1>3. /\ unit.op = op /\ unit.updates = updates /\ unit.audit = audit
      /\ DOMAIN unit.inserts = {} /\ unit.deletes = {} /\ unit.tokens = {}
  BY NoRowsAtAll DEF Unit, updates, audit
<1>4. Typed(unit)
  <2>1. ASSUME r \in DOMAIN updates, NEW x \in RowSet(r) PROVE updates[r] @@ x \in RowSet(r)
    <3>1. col \in DOMAIN x /\ [x EXCEPT ![col] = new[col]] \in RowSet(r)
      OBVIOUS
    <3> DEFINE Same(v) == [c \in {col} |-> v] @@ x = [x EXCEPT ![col] = v]
    <3>2. ASSUME NEW v PROVE Same(v)
      <4>1. x = [c \in DOMAIN x |-> x[c]]
        BY DEF RowSet, UserRow, OrgRow, MemberRow, KeyRow, SiteRows, Present
      <4> QED BY <3>1, <4>1 DEF @@
    <3>3. Same(new[col])
      <4> HIDE DEF Same
      <4> QED BY <3>2
    <3> QED BY <1>1, <2>1, <3>1, <3>3
  <2> QED BY <1>1, <1>3, <2>1 DEF Typed
<1>5. Founding(unit)
  BY <1>2, <1>3 DEF Founding
<1>6. Marked(unit)
  <2>1. ASSUME NEW u \in User, U(u) \in DOMAIN updates, "superadmin" \in DOMAIN updates[U(u)]
        PROVE  \/ updates[U(u)].superadmin = TRUE
               \/ /\ audit[1].action = "SUPERADMIN_CHANGED" /\ audit[1].row = U(u)
                  /\ ~audit[1].after.superadmin
    <3>1. r = U(u) /\ col = "superadmin" /\ updates[r]["superadmin"] = new["superadmin"]
      BY <1>1, <2>1
    <3> QED BY <1>0, <1>2, <3>1
  <2>2. \A u \in User, o \in Org : M(u, o) \in DOMAIN updates => "role" \notin DOMAIN updates[M(u, o)]
    BY <1>0, <1>1 DEF Created
  <2>3. ASSUME NEW x \in DOMAIN updates, "status" \in DOMAIN updates[x],
               updates[x]["status"] = "SUSPENDED"
        PROVE  Suspends(audit[1], x)
    BY <1>1, <1>2, <2>3 DEF Suspends
  <2> QED BY <1>2, <1>3, <2>1, <2>2, <2>3 DEF Marked
<1>7. Original(unit)
  BY <1>3 DEF Original
<1>8. Audited(unit)
  BY <1>0, <1>1, <1>2, <1>3 DEF Audited, Column
<1>9. db[r] \in RowSet(r)
  BY DEF RowsInv, Exists
<1>10. Truthful(unit)
  <2>1. /\ r[1] # "api_key" /\ Exists(r) /\ col \in DOMAIN db[r]
        /\ r[1] # "organization" => op \in Administrative
        /\ \/ r \in DOMAIN updates /\ col \in DOMAIN updates[r] /\ updates[r][col] = new[col]
           \/ r \notin DOMAIN updates /\ db[r][col] = new[col]
    BY <1>0, <1>1, <1>9
  <2> QED BY <1>2, <1>3, <2>1 DEF Truthful, Column
<1>11. Remembers(unit)
  <2>1. r \in {O(o) : o \in Org} => r[1] = "organization"
    BY RowNames
  <2>2. col \in DOMAIN db[r]
    BY <1>9
  <2> QED BY <1>0, <1>2, <1>3, <2>1, <2>2 DEF Remembers
<1>12. Adding(unit)
  BY <1>0, <1>1, <1>3, RowNames DEF Adding, Fixture, Seeders
<1>13. Historical(unit)
  <2>1. ASSUME NEW o \in Org, NEW c \in OrgColumn, O(o) \in DOMAIN updates, c \in DOMAIN updates[O(o)]
        PROVE  audit[1].row = O(o) /\ c \in DOMAIN Says(audit[1]) /\ Says(audit[1])[c] = updates[O(o)][c]
    BY <1>1, <1>2, <2>1
  <2>2. ASSUME NEW o \in Org, NEW c \in OrgColumn, audit[1].row = O(o),
               c \in DOMAIN Says(audit[1]) \/ c \in DOMAIN audit[1].before
        PROVE  /\ Exists(O(o)) /\ c \in DOMAIN Says(audit[1]) /\ c \in DOMAIN audit[1].before
               /\ \/ audit[1].before[c] = Says(audit[1])[c]
                  \/ O(o) \in DOMAIN updates /\ c \in DOMAIN updates[O(o)]
    <3>1. r = O(o) /\ r[1] = "organization" /\ c = col
      BY <1>0, <1>2, <2>2, RowNames
    <3> QED BY <1>0, <1>1, <1>2, <3>1
  <2> QED BY <1>2, <1>3, <2>1, <2>2 DEF Historical
<1> QED BY <1>4, <1>5, <1>6, <1>7, <1>8, <1>10, <1>11, <1>12, <1>13 DEF Fit

Opens(s) == \E unit : Begin(s, unit) /\ Fit(unit)

LEMMA RowSets ==
    /\ \A u : RowSet(U(u)) = UserRow
    /\ \A o : RowSet(O(o)) = OrgRow /\ RowSet(T(o)) = {Present}
    /\ \A k : RowSet(K(k)) = KeyRow
    /\ \A u, o : RowSet(M(u, o)) = MemberRow
    /\ \A table \in Fixture : \A o, i : RowSet(F(table, o, i)) = {Present}
    /\ RowSet(Site) = SiteRows
  BY RowNames DEF RowSet, Fixture

\* A row with another value in one of its columns.
LEMMA Rewritten ==
    /\ \A x \in UserRow : \A v \in Status :
          "status" \in DOMAIN x /\ [x EXCEPT !["status"] = v] \in UserRow
    /\ \A x \in UserRow : \A v \in BOOLEAN :
          "superadmin" \in DOMAIN x /\ [x EXCEPT !["superadmin"] = v] \in UserRow
    /\ \A x \in OrgRow : \A v \in Status :
          "status" \in DOMAIN x /\ [x EXCEPT !["status"] = v] \in OrgRow
    /\ \A x \in OrgRow : \A v \in SUBSET Part :
          "config" \in DOMAIN x /\ [x EXCEPT !["config"] = v] \in OrgRow
    /\ \A x \in MemberRow : \A v \in Status :
          "status" \in DOMAIN x /\ [x EXCEPT !["status"] = v] \in MemberRow
<1>1. /\ \A x \in UserRow : \A v \in Status :
            "status" \in DOMAIN x /\ [x EXCEPT !["status"] = v] \in UserRow
      /\ \A x \in UserRow : \A v \in BOOLEAN :
            "superadmin" \in DOMAIN x /\ [x EXCEPT !["superadmin"] = v] \in UserRow
  BY DEF UserRow
<1>2. /\ \A x \in OrgRow : \A v \in Status :
            "status" \in DOMAIN x /\ [x EXCEPT !["status"] = v] \in OrgRow
      /\ \A x \in OrgRow : \A v \in SUBSET Part :
            "config" \in DOMAIN x /\ [x EXCEPT !["config"] = v] \in OrgRow
  BY DEF OrgRow
<1>3. \A x \in MemberRow : \A v \in Status :
         "status" \in DOMAIN x /\ [x EXCEPT !["status"] = v] \in MemberRow
  BY DEF MemberRow
<1> QED BY <1>1, <1>2, <1>3

\* Whoever may administer an organization is, or was, a member of one that is there.
LEMMA Administered ==
    ASSUME StandingInv, NEW o \in Org, MayAdminister(o)
    PROVE  Exists(O(o))
<1>1. PICK c \in claims : c.org = o
  BY DEF MayAdminister
<1>2. c.user \in User /\ Exists(M(c.user, o))
  BY <1>1, AccountsAssumption DEF StandingInv, ClaimsInv, ClaimKept
<1> QED BY <1>2 DEF StandingInv, RowsInv

LEMMA SetMemberStatusOpens ==
    ASSUME StandingInv, NEW s \in Slot, NEW o \in Org, NEW u \in User, NEW status \in Status,
           SetMemberStatus(s, o, u, status)
    PROVE  Opens(s)
<1> DEFINE new  == [status |-> status]
           unit == [Unit("member_status") EXCEPT
                      !.updates = Changed(M(u, o) :> new),
                      !.audit   = <<Entry("MEMBER_STATUS_CHANGED", M(u, o), Nothing, new)>>]
<1>1. Begin(s, unit) /\ Exists(M(u, o))
  BY DEF SetMemberStatus
<1>2. /\ DOMAIN new = {"status"} /\ M(u, o) \in Rows /\ M(u, o)[1] = "membership"
      /\ RowsInv
  BY RowNames, RowsNamed DEF StandingInv
<1>3. \A x \in RowSet(M(u, o)) :
         "status" \in DOMAIN x /\ [x EXCEPT !["status"] = new["status"]] \in RowSet(M(u, o))
  <2>1. new["status"] = status
    OBVIOUS
  <2> HIDE DEF new
  <2> QED BY <2>1, Rewritten, RowSets
<1>4. Warranted("member_status", "MEMBER_STATUS_CHANGED", M(u, o), "status", Nothing, new)
  BY <1>2 DEF Warranted, Administrative, Seeders, Created
<1> HIDE DEF new
<1>5. Fit(unit)
  BY <1>1, <1>2, <1>3, <1>4, UpdateFits
<1> QED BY <1>1, <1>5 DEF Opens

LEMMA SetOrgStatusOpens ==
    ASSUME StandingInv, NEW s \in Slot, NEW o \in Org, NEW status \in Status,
           SetOrgStatus(s, o, status)
    PROVE  Opens(s)
<1> DEFINE new    == [status |-> status]
           before == [status |-> db[O(o)].status]
           unit   == [Unit("org_status") EXCEPT
                        !.updates = Changed(O(o) :> new),
                        !.audit   = <<Entry("ORG_STATUS_CHANGED", O(o), before, new)>>]
<1>1. Begin(s, unit) /\ Exists(O(o))
  BY DEF SetOrgStatus
<1>2. /\ DOMAIN new = {"status"} /\ O(o) \in Rows /\ O(o)[1] = "organization"
      /\ RowsInv
  BY RowNames, RowsNamed DEF StandingInv
<1>3. \A x \in RowSet(O(o)) :
         "status" \in DOMAIN x /\ [x EXCEPT !["status"] = new["status"]] \in RowSet(O(o))
  <2>1. new["status"] = status
    OBVIOUS
  <2> HIDE DEF new
  <2> QED BY <2>1, Rewritten, RowSets
<1>4. Warranted("org_status", "ORG_STATUS_CHANGED", O(o), "status", before, new)
  BY <1>2 DEF Warranted, Administrative, Seeders, Created, OrgColumn
<1> HIDE DEF new, before
<1>5. Fit(unit)
  BY <1>1, <1>2, <1>3, <1>4, UpdateFits
<1> QED BY <1>1, <1>5 DEF Opens

LEMMA ConfigureOpens ==
    ASSUME StandingInv, NEW s \in Slot, NEW o \in Org, NEW parts \in SUBSET Part,
           Configure(s, o, parts)
    PROVE  Opens(s)
<1> DEFINE new    == [config |-> db[O(o)].config \cup parts]
           before == [config |-> db[O(o)].config]
           unit   == [Unit("org_config") EXCEPT
                        !.updates = Changed(O(o) :> new),
                        !.audit   = <<Entry("ORG_CONFIG_UPDATED", O(o), before, new)>>]
<1>1. Begin(s, unit) /\ Exists(O(o))
  BY Administered DEF Configure
<1>2. /\ DOMAIN new = {"config"} /\ O(o) \in Rows /\ O(o)[1] = "organization"
      /\ RowsInv
  BY RowNames, RowsNamed DEF StandingInv
<1>3. \A x \in RowSet(O(o)) :
         "config" \in DOMAIN x /\ [x EXCEPT !["config"] = new["config"]] \in RowSet(O(o))
  <2>1. db[O(o)] \in OrgRow
    BY <1>1, <1>2, RowSets DEF RowsInv, Exists
  <2>2. new["config"] \in SUBSET Part
    BY <2>1 DEF OrgRow
  <2> HIDE DEF new
  <2> QED BY <2>2, Rewritten, RowSets
<1>4. Warranted("org_config", "ORG_CONFIG_UPDATED", O(o), "config", before, new)
  BY <1>2 DEF Warranted, Administrative, Seeders, Created, OrgColumn
<1> HIDE DEF new, before
<1>5. Fit(unit)
  BY <1>1, <1>2, <1>3, <1>4, UpdateFits
<1> QED BY <1>1, <1>5 DEF Opens

LEMMA SetUserStatusOpens ==
    ASSUME StandingInv, NEW s \in Slot, NEW u \in User, NEW status \in Status,
           SetUserStatus(s, u, status)
    PROVE  Opens(s)
<1> DEFINE new  == [status |-> status]
           unit == [Unit("user_status") EXCEPT
                      !.updates = Changed(U(u) :> new),
                      !.audit   = <<Entry("USER_STATUS_CHANGED", U(u), new, new)>>]
<1>1. Begin(s, unit) /\ Exists(U(u))
  BY DEF SetUserStatus
<1>2. /\ DOMAIN new = {"status"} /\ U(u) \in Rows /\ U(u)[1] = "user"
      /\ RowsInv
  BY RowNames, RowsNamed DEF StandingInv
<1>3. \A x \in RowSet(U(u)) :
         "status" \in DOMAIN x /\ [x EXCEPT !["status"] = new["status"]] \in RowSet(U(u))
  <2>1. new["status"] = status
    OBVIOUS
  <2> HIDE DEF new
  <2> QED BY <2>1, Rewritten, RowSets
<1>4. Warranted("user_status", "USER_STATUS_CHANGED", U(u), "status", new, new)
  BY <1>2 DEF Warranted, Administrative, Seeders, Created
<1> HIDE DEF new
<1>5. Fit(unit)
  BY <1>1, <1>2, <1>3, <1>4, UpdateFits
<1> QED BY <1>1, <1>5 DEF Opens

LEMMA ToggleSuperadminOpens ==
    ASSUME StandingInv, NEW s \in Slot, NEW u \in User, NEW flag \in BOOLEAN,
           ToggleSuperadmin(s, u, flag)
    PROVE  Opens(s)
<1> DEFINE new  == [superadmin |-> flag]
           unit == [Unit("superadmin") EXCEPT
                      !.updates = Changed(U(u) :> new),
                      !.audit   = <<Entry("SUPERADMIN_CHANGED", U(u), Nothing, new)>>]
<1>1. Begin(s, unit) /\ Exists(U(u))
  BY DEF ToggleSuperadmin
<1>2. /\ DOMAIN new = {"superadmin"} /\ U(u) \in Rows /\ U(u)[1] = "user"
      /\ RowsInv
  BY RowNames, RowsNamed DEF StandingInv
<1>3. \A x \in RowSet(U(u)) :
         "superadmin" \in DOMAIN x /\ [x EXCEPT !["superadmin"] = new["superadmin"]] \in RowSet(U(u))
  <2>1. new["superadmin"] = flag
    OBVIOUS
  <2> HIDE DEF new
  <2> QED BY <2>1, Rewritten, RowSets
<1>4. Warranted("superadmin", "SUPERADMIN_CHANGED", U(u), "superadmin", Nothing, new)
  BY <1>2 DEF Warranted, Administrative, Seeders, Created
<1> HIDE DEF new
<1>5. Fit(unit)
  BY <1>1, <1>2, <1>3, <1>4, UpdateFits
<1> QED BY <1>1, <1>5 DEF Opens

\* Units of the tables that neither claims nor the trail's columns are about.
Aside(unit) ==
    /\ \A r \in DOMAIN unit.inserts :
          /\ r[1] \in {"api_key", "document_type", "platform_setting"}
          /\ unit.inserts[r] \in RowSet(r)
    /\ \A r \in DOMAIN unit.updates :
          /\ r[1] \in {"api_key", "document_type", "platform_setting"}
          /\ \A x \in RowSet(r) : unit.updates[r] @@ x \in RowSet(r)
          /\ DOMAIN unit.updates[r] \cap DOMAIN Created = {}
    /\ \A r \in unit.deletes : r[1] = "api_key"
    /\ unit.tokens = {} /\ unit.op \notin Seeders
    /\ Len(unit.audit) \in {0, 1}
    /\ \A i \in DOMAIN unit.audit :
          /\ unit.audit[i].action # "ORG_CREATED"
          /\ unit.audit[i].row[1] # "organization"
          /\ DOMAIN Says(unit.audit[i]) \cap DOMAIN Created = {}

LEMMA AsideFits ==
    ASSUME NEW unit, Aside(unit)
    PROVE  Fit(unit)
<1>1. \A u, o : /\ U(u) \notin DOMAIN unit.inserts \cup DOMAIN unit.updates
                /\ O(o) \notin DOMAIN unit.inserts \cup DOMAIN unit.updates
                /\ M(u, o) \notin DOMAIN unit.inserts \cup DOMAIN unit.updates
  BY RowNames DEF Aside
<1>2. \A table \in Fixture : \A o, i :
         F(table, o, i) \notin DOMAIN unit.inserts \cup DOMAIN unit.updates
  BY RowNames DEF Fixture, Aside
<1>3. Typed(unit)
  BY <1>1 DEF Typed, Aside
<1>4. Founding(unit)
  BY <1>1 DEF Founding, Aside
<1>5. \A r \in DOMAIN unit.inserts : DOMAIN unit.inserts[r] \cap DOMAIN Created = {}
  BY DEF RowSet, KeyRow, SiteRows, Present, Created, Aside
<1>6. Marked(unit)
  <2>1. "status" \in DOMAIN Created
    BY DEF Created
  <2> QED BY <1>1, <1>5, <2>1 DEF Marked, Aside
<1>11. Original(unit)
  BY <1>5 DEF Original, Column
<1>12. Historical(unit)
  BY <1>1, RowNames DEF Historical, Aside
<1>7. Audited(unit)
  BY DEF Audited, Column, Aside
<1>8. Truthful(unit)
  BY DEF Truthful, Column, Aside
<1>9. Remembers(unit)
  BY RowNames DEF Remembers, Aside
<1>10. Adding(unit)
  BY <1>2 DEF Adding, Seeders, Aside
<1> QED BY <1>3, <1>4, <1>6, <1>7, <1>8, <1>9, <1>10, <1>11, <1>12 DEF Fit

LEMMA CreateDocumentTypeOpens ==
    ASSUME NEW s \in Slot, NEW o \in Org, CreateDocumentType(s, o)
    PROVE  Opens(s)
<1> DEFINE inserts == T(o) :> Present
           audit   == <<Entry("DOCUMENT_TYPE_CREATED", T(o), Nothing, Nothing)>>
           unit    == [Unit("document_type") EXCEPT !.inserts = inserts, !.audit = audit]
<1>1. Begin(s, unit)
  BY DEF CreateDocumentType
<1>2. DOMAIN inserts = {T(o)} /\ inserts[T(o)] = Present /\ T(o)[1] = "document_type"
  BY RowNames DEF :>
<1>3. /\ DOMAIN audit = {1} /\ Len(audit) = 1 /\ audit[1].action = "DOCUMENT_TYPE_CREATED"
      /\ audit[1].row = T(o) /\ Says(audit[1]) = Nothing
  <2>1. audit = <<Entry("DOCUMENT_TYPE_CREATED", T(o), Nothing, Nothing)>>
    OBVIOUS
  <2> HIDE DEF audit
  <2> QED BY <2>1, Single
<1> HIDE DEF inserts, audit
<1>4. /\ unit.op \notin Seeders /\ unit.inserts = inserts /\ unit.audit = audit /\ unit.tokens = {}
      /\ DOMAIN unit.updates = {} /\ unit.deletes = {}
  BY NoRowsAtAll DEF Unit, Seeders
<1> HIDE DEF unit
<1>5. Aside(unit)
  BY <1>2, <1>3, <1>4, RowSets, NoRowsAtAll DEF Aside
<1> QED BY <1>1, <1>5, AsideFits DEF Opens

LEMMA CreateKeyOpens ==
    ASSUME NEW s \in Slot, NEW o \in Org, NEW k \in Key, CreateKey(s, o, k)
    PROVE  Opens(s)
<1> DEFINE inserts == K(k) :> NewKey(o)
           audit   == <<Entry("API_KEY_CREATED", K(k), Nothing, Nothing)>>
           unit    == [Unit("create_key") EXCEPT !.inserts = inserts, !.audit = audit]
<1>1. Begin(s, unit)
  BY DEF CreateKey
<1>2. DOMAIN inserts = {K(k)} /\ inserts[K(k)] \in KeyRow /\ K(k)[1] = "api_key"
  BY RowNames DEF :>, NewKey, KeyRow
<1>3. /\ DOMAIN audit = {1} /\ Len(audit) = 1 /\ audit[1].action = "API_KEY_CREATED"
      /\ audit[1].row = K(k) /\ Says(audit[1]) = Nothing
  <2>1. audit = <<Entry("API_KEY_CREATED", K(k), Nothing, Nothing)>>
    OBVIOUS
  <2> HIDE DEF audit
  <2> QED BY <2>1, Single
<1> HIDE DEF inserts, audit
<1>4. /\ unit.op \notin Seeders /\ unit.inserts = inserts /\ unit.audit = audit /\ unit.tokens = {}
      /\ DOMAIN unit.updates = {} /\ unit.deletes = {}
  BY NoRowsAtAll DEF Unit, Seeders
<1> HIDE DEF unit
<1>5. Aside(unit)
  <2>1. \A r \in DOMAIN unit.inserts : r[1] = "api_key" /\ unit.inserts[r] \in RowSet(r)
    BY <1>2, <1>4, RowSets
  <2>2. \A i \in DOMAIN unit.audit : /\ unit.audit[i].action # "ORG_CREATED"
                                    /\ unit.audit[i].row[1] = "api_key"
                                    /\ Says(unit.audit[i]) = Nothing
    BY <1>2, <1>3, <1>4
  <2>3. Len(unit.audit) = 1
    BY <1>3, <1>4
  <2> QED BY <1>4, <2>1, <2>2, <2>3, NoRowsAtAll DEF Aside
<1> QED BY <1>1, <1>5, AsideFits DEF Opens

LEMMA RevokeKeyOpens ==
    ASSUME NEW s \in Slot, NEW k \in Key, RevokeKey(s, k)
    PROVE  Opens(s)
<1> DEFINE audit == <<Entry("API_KEY_REVOKED", K(k), Nothing, Nothing)>>
           unit  == [Unit("revoke_key") EXCEPT !.deletes = {K(k)}, !.audit = audit]
<1>1. Begin(s, unit)
  BY DEF RevokeKey
<1>2. K(k)[1] = "api_key"
  BY RowNames
<1>3. /\ DOMAIN audit = {1} /\ Len(audit) = 1 /\ audit[1].action = "API_KEY_REVOKED"
      /\ audit[1].row = K(k) /\ Says(audit[1]) = Nothing
  <2>1. audit = <<Entry("API_KEY_REVOKED", K(k), Nothing, Nothing)>>
    OBVIOUS
  <2> HIDE DEF audit
  <2> QED BY <2>1, Single
<1> HIDE DEF audit
<1>4. /\ unit.op \notin Seeders /\ unit.deletes = {K(k)} /\ unit.audit = audit /\ unit.tokens = {}
      /\ DOMAIN unit.inserts = {} /\ DOMAIN unit.updates = {}
  BY NoRowsAtAll DEF Unit, Seeders
<1> HIDE DEF unit
<1>5. \A r \in unit.deletes : r[1] = "api_key"
  BY <1>2, <1>4
<1>6. Aside(unit)
  <2>1. \A i \in DOMAIN unit.audit : /\ unit.audit[i].action # "ORG_CREATED"
                                    /\ unit.audit[i].row[1] = "api_key"
                                    /\ Says(unit.audit[i]) = Nothing
    BY <1>2, <1>3, <1>4
  <2>2. Len(unit.audit) = 1
    BY <1>3, <1>4
  <2> QED BY <1>4, <1>5, <2>1, <2>2, NoRowsAtAll DEF Aside
<1> QED BY <1>1, <1>6, AsideFits DEF Opens

LEMMA UseKeyOpens ==
    ASSUME NEW s \in Slot, NEW k \in Key, UseKey(s, k)
    PROVE  Opens(s)
<1> DEFINE updates == K(k) :> [used |-> TRUE]
           unit    == [Unit("external") EXCEPT !.updates = updates, !.reads = {K(k)}]
<1>1. Begin(s, unit)
  BY DEF UseKey
<1>2. DOMAIN updates = {K(k)} /\ updates[K(k)] = [used |-> TRUE] /\ K(k)[1] = "api_key"
  BY RowNames DEF :>
<1>3. ASSUME NEW x \in KeyRow PROVE [used |-> TRUE] @@ x \in KeyRow
  BY DEF KeyRow, @@
<1> HIDE DEF updates
<1>4. /\ unit.op \notin Seeders /\ unit.updates = updates /\ unit.tokens = {}
      /\ unit.audit = <<>> /\ DOMAIN unit.inserts = {} /\ unit.deletes = {}
  BY NoRowsAtAll DEF Unit, Seeders
<1> HIDE DEF unit
<1>5. /\ Len(unit.audit) = 0 /\ DOMAIN unit.audit = {}
      /\ DOMAIN unit.updates = {K(k)} /\ DOMAIN unit.updates[K(k)] \cap DOMAIN Created = {}
      /\ RowSet(K(k)) = KeyRow /\ \A x \in KeyRow : unit.updates[K(k)] @@ x \in KeyRow
  <2>1. Len(unit.audit) = 0 /\ DOMAIN unit.audit = {}
    BY <1>4
  <2>2. DOMAIN unit.updates[K(k)] \cap DOMAIN Created = {}
    BY <1>2, <1>4 DEF Created
  <2> QED BY <1>2, <1>3, <1>4, <2>1, <2>2, RowSets
<1>6. Aside(unit)
  BY <1>2, <1>4, <1>5 DEF Aside
<1> QED BY <1>1, <1>6, AsideFits DEF Opens

LEMMA UpdateSettingsOpens ==
    ASSUME NEW s \in Slot, NEW values \in Values, UpdateSettings(s, values)
    PROVE  Opens(s)
<1> DEFINE new     == SiteRow(Merged(values))
           inserts == Missing(Site :> new)
           updates == Changed(Site :> new)
           audit   == <<Entry("PLATFORM_SETTINGS_UPDATED", Site, Nothing, values)>>
           unit    == [Unit("settings") EXCEPT !.inserts = inserts, !.updates = updates,
                                               !.audit = audit]
<1>1. Begin(s, unit)
  BY DEF UpdateSettings
<1>2. Merged(values) \in Setting /\ DOMAIN values \cap DOMAIN Created = {}
  BY DEF Merged, Values, Setting, DefaultSettings, Created, @@
<1>3. /\ DOMAIN new = {"value"} /\ new["value"] \in Setting /\ new \in SiteRows
      /\ Site[1] = "platform_setting" /\ RowSet(Site) = SiteRows
  BY <1>2, RowNames, RowSets DEF SiteRow, SiteRows
<1> HIDE DEF new
<1>4. DOMAIN inserts \subseteq {Site} /\ (Site \in DOMAIN inserts => inserts[Site] \in SiteRows)
  BY <1>3 DEF Missing, :>
<1>5. /\ DOMAIN updates \subseteq {Site}
      /\ Site \in DOMAIN updates => updates[Site] = [c \in {"value"} |-> new["value"]]
  <2>1. CASE Exists(Site)
    BY <1>3, <2>1, Alone
  <2>2. CASE ~Exists(Site)
    BY <2>2 DEF Changed, :>, Exists
  <2> QED BY <2>1, <2>2
<1>6. ASSUME Site \in DOMAIN updates
      PROVE  /\ \A x \in SiteRows : updates[Site] @@ x \in SiteRows
             /\ DOMAIN updates[Site] \cap DOMAIN Created = {}
  BY <1>3, <1>5, <1>6 DEF SiteRows, Created, @@
<1>7. /\ DOMAIN audit = {1} /\ Len(audit) = 1 /\ audit[1].action = "PLATFORM_SETTINGS_UPDATED"
      /\ audit[1].row = Site /\ Says(audit[1]) = values
  <2>1. audit = <<Entry("PLATFORM_SETTINGS_UPDATED", Site, Nothing, values)>>
    OBVIOUS
  <2> HIDE DEF audit
  <2> QED BY <2>1, Single
<1> HIDE DEF inserts, updates, audit
<1>8. /\ unit.op \notin Seeders /\ unit.inserts = inserts /\ unit.updates = updates
      /\ unit.audit = audit /\ unit.tokens = {} /\ unit.deletes = {}
  BY DEF Unit, Seeders
<1> HIDE DEF unit
<1>9. Aside(unit)
  BY <1>2, <1>3, <1>4, <1>5, <1>6, <1>7, <1>8 DEF Aside
<1> QED BY <1>1, <1>9, AsideFits DEF Opens

\* The rows that are inserted have their columns, at the first values.
LEMMA NewRows ==
    /\ NewUser \in UserRow /\ NewOrg \in OrgRow /\ \A role \in Role : Member(role) \in MemberRow
    /\ \A o \in Org : NewKey(o) \in KeyRow
    /\ \A c \in DOMAIN NewUser : c \in DOMAIN Created /\ NewUser[c] = Created[c]
    /\ \A c \in DOMAIN NewOrg : c \in DOMAIN Created /\ NewOrg[c] = Created[c]
    /\ \A role : DOMAIN Member(role) = {"role", "status"}
    /\ \A role : Member(role)["status"] = Created["status"] /\ Member(role)["role"] = role
    /\ DOMAIN Created = {"status", "config", "superadmin"}
    /\ \A o : DOMAIN NewKey(o) = {"org", "expired", "used"}
    /\ DOMAIN Present = {"present"}
<1>1. /\ NewUser \in UserRow
      /\ \A c \in DOMAIN NewUser : c \in DOMAIN Created /\ NewUser[c] = Created[c]
  <2>1. NewUser \in UserRow
    BY DEF NewUser, UserRow, Status
  <2>2. DOMAIN NewUser = {"status", "superadmin"}
    BY DEF NewUser
  <2>3. /\ {"status", "superadmin"} \subseteq DOMAIN Created
        /\ NewUser["status"] = Created["status"] /\ NewUser["superadmin"] = Created["superadmin"]
    BY DEF NewUser, Created
  <2> QED BY <2>1, <2>2, <2>3
<1>2. /\ NewOrg \in OrgRow
      /\ \A c \in DOMAIN NewOrg : c \in DOMAIN Created /\ NewOrg[c] = Created[c]
  BY DEF NewOrg, OrgRow, Status, Created
<1>3. /\ \A role \in Role : Member(role) \in MemberRow
      /\ \A role : DOMAIN Member(role) = {"role", "status"}
      /\ \A role : Member(role)["status"] = Created["status"] /\ Member(role)["role"] = role
  BY DEF Member, MemberRow, Status, Created
<1>4. /\ \A o \in Org : NewKey(o) \in KeyRow
      /\ \A o : DOMAIN NewKey(o) = {"org", "expired", "used"}
      /\ DOMAIN Present = {"present"} /\ DOMAIN Created = {"status", "config", "superadmin"}
  BY DEF NewKey, KeyRow, Present, Created
<1> QED BY <1>1, <1>2, <1>3, <1>4

\* A row as it is inserted for an account, an organization or a membership.
New(r, row) ==
    \/ r[1] = "user" /\ row = NewUser
    \/ r[1] = "organization" /\ row = NewOrg
    \/ r[1] = "membership" /\ \E role \in Role : row = Member(role)

LEMMA NewFits ==
    ASSUME NEW r, NEW row, New(r, row)
    PROVE  /\ row \in RowSet(r) /\ r[1] \notin Fixture
           /\ \A c \in DOMAIN row \cap DOMAIN Created : row[c] = Created[c]
<1>1. CASE r[1] = "user" /\ row = NewUser
  BY <1>1, NewRows DEF RowSet, Fixture
<1>2. CASE r[1] = "organization" /\ row = NewOrg
  BY <1>2, NewRows DEF RowSet, Fixture
<1>3. CASE r[1] = "membership" /\ \E role \in Role : row = Member(role)
  BY <1>3, NewRows DEF RowSet, Fixture
<1> QED BY <1>1, <1>2, <1>3 DEF New

\* Units that only add accounts, organizations and memberships.
Enrolling(unit) ==
    /\ \A r \in DOMAIN unit.inserts : New(r, unit.inserts[r])
    /\ DOMAIN unit.updates = {} /\ unit.deletes = {} /\ unit.op \notin Seeders
    /\ unit.tokens \subseteq User \X Org
    /\ \A p \in unit.tokens : M(p[1], p[2]) \in DOMAIN unit.inserts \/ Exists(M(p[1], p[2]))
    /\ \A u \in User, o \in Org : M(u, o) \in DOMAIN unit.inserts =>
          O(o) \in DOMAIN unit.inserts \/ Exists(O(o))
    /\ Len(unit.audit) \in {0, 1}
    /\ \A i \in DOMAIN unit.audit : /\ DOMAIN Says(unit.audit[i]) \cap DOMAIN Created = {}
                                    /\ DOMAIN unit.audit[i].before = {}
    /\ Founding(unit)

LEMMA EnrollingFits ==
    ASSUME NEW unit, Enrolling(unit)
    PROVE  Fit(unit)
<1>1. \A r \in DOMAIN unit.inserts :
         /\ unit.inserts[r] \in RowSet(r) /\ r[1] \notin Fixture
         /\ \A c \in DOMAIN unit.inserts[r] \cap DOMAIN Created : unit.inserts[r][c] = Created[c]
  BY NewFits DEF Enrolling
<1>2. Typed(unit)
  BY <1>1 DEF Typed, Enrolling
<1>3. Marked(unit)
  <2>1. "status" \in DOMAIN Created /\ Created["status"] = "ACTIVE"
    BY DEF Created
  <2> QED BY <1>1, <2>1 DEF Marked, Enrolling
<1>4. Original(unit)
  BY <1>1 DEF Original, Column
<1>5. Audited(unit)
  BY DEF Audited, Enrolling
<1>6. Truthful(unit)
  BY DEF Truthful, Enrolling, Column
<1>7. Remembers(unit)
  BY DEF Remembers, Enrolling
<1>8. Adding(unit)
  <2>1. \A table \in Fixture, o \in Org, i \in Copy : F(table, o, i) \notin DOMAIN unit.inserts
    BY <1>1, RowNames
  <2> QED BY <2>1 DEF Adding, Enrolling, Seeders
<1>9. Historical(unit)
  <2>1. \A o \in Org : O(o) \in DOMAIN unit.inserts => unit.inserts[O(o)] = NewOrg
    BY RowNames DEF New, Enrolling
  <2>2. OrgColumn \subseteq DOMAIN Created
    BY DEF OrgColumn, Created
  <2> QED BY <2>1, <2>2 DEF Historical, Enrolling
<1> QED BY <1>2, <1>3, <1>4, <1>5, <1>6, <1>7, <1>8, <1>9 DEF Fit, Enrolling

LEMMA RegisterOpens ==
    ASSUME NEW s \in Slot, NEW u \in User, NEW o \in Org, Register(s, u, o)
    PROVE  Opens(s)
<1> DEFINE inserts == O(o) :> NewOrg @@ U(u) :> NewUser @@ M(u, o) :> Member("ADMIN")
           new     == [admin |-> u]
           audit   == <<Entry("ORG_CREATED", O(o), Nothing, new)>>
           unit    == [Unit("register") EXCEPT !.inserts = inserts,
                                               !.audit = audit, !.tokens = {<<u, o>>}]
<1>1. Begin(s, unit)
  BY DEF Register
<1>2. /\ O(o)[1] = "organization" /\ U(u)[1] = "user" /\ M(u, o)[1] = "membership"
      /\ \A x : O(x) = O(o) => x = o
      /\ \A x, y : M(x, y) = M(u, o) => x = u /\ y = o
      /\ \A x, y : M(x, y) \notin {O(o), U(u)} /\ O(x) \notin {U(u), M(u, o)}
  BY RowNames
<1>3. /\ DOMAIN inserts = {O(o), U(u), M(u, o)}
      /\ inserts[O(o)] = NewOrg /\ inserts[U(u)] = NewUser /\ inserts[M(u, o)] = Member("ADMIN")
  BY <1>2 DEF :>, @@
<1>4. new.admin = u /\ DOMAIN new \cap DOMAIN Created = {}
  BY DEF Created
<1>5. /\ DOMAIN audit = {1} /\ Len(audit) = 1 /\ audit[1].action = "ORG_CREATED"
      /\ audit[1].row = O(o) /\ audit[1].before = Nothing /\ audit[1].after = new
      /\ Says(audit[1]) = new
  <2>1. audit = <<Entry("ORG_CREATED", O(o), Nothing, new)>>
    OBVIOUS
  <2> HIDE DEF audit, new
  <2> QED BY <2>1, Single
<1> HIDE DEF inserts, audit, new
<1>6. /\ unit.op \notin Seeders /\ unit.inserts = inserts /\ unit.audit = audit
      /\ unit.tokens = {<<u, o>>} /\ DOMAIN unit.updates = {} /\ unit.deletes = {}
  BY NoRowsAtAll DEF Unit, Seeders
<1> HIDE DEF unit
<1>7. \A r \in DOMAIN unit.inserts : New(r, unit.inserts[r])
  BY <1>2, <1>3, <1>6 DEF New, Role
<1>8. /\ unit.tokens \subseteq User \X Org
      /\ \A p \in unit.tokens : M(p[1], p[2]) \in DOMAIN unit.inserts
  BY <1>3, <1>6
<1>9. \A x \in User, y \in Org : M(x, y) \in DOMAIN unit.inserts => O(y) \in DOMAIN unit.inserts
  BY <1>2, <1>3, <1>6
<1>10. Founding(unit)
  <2>1. \A x \in Org \ {Seeded, Demo} : O(x) \in DOMAIN unit.inserts => x = o
    BY <1>2, <1>3, <1>6
  <2>2. \A i \in DOMAIN unit.audit : /\ unit.audit[i].row = O(o) /\ unit.audit[i].after.admin = u
                                     /\ {O(o), U(u), M(u, o)} \subseteq DOMAIN unit.inserts
    BY <1>3, <1>4, <1>5, <1>6
  <2> QED BY <1>5, <1>6, <2>1, <2>2 DEF Founding
<1>11. /\ Len(unit.audit) \in {0, 1}
       /\ \A i \in DOMAIN unit.audit : /\ DOMAIN Says(unit.audit[i]) \cap DOMAIN Created = {}
                                       /\ DOMAIN unit.audit[i].before = {}
  BY <1>4, <1>5, <1>6, NoRowsAtAll
<1>12. Enrolling(unit)
  BY <1>6, <1>7, <1>8, <1>9, <1>10, <1>11 DEF Enrolling
<1> QED BY <1>1, <1>12, EnrollingFits DEF Opens

LEMMA CreateOrganizationOpens ==
    ASSUME NEW s \in Slot, NEW o \in Org, NEW admins \in SUBSET User,
           CreateOrganization(s, o, admins)
    PROVE  Opens(s)
<1> DEFINE first   == {M(u, o) : u \in admins}
           inserts == O(o) :> NewOrg @@ [m \in first |-> Member("ADMIN")]
                      @@ Missing([r \in {U(u) : u \in admins} |-> NewUser])
           audit   == <<Entry("ORG_CREATED", O(o), Nothing, Nothing)>>
           unit    == [Unit("create_org") EXCEPT !.inserts = inserts, !.audit = audit]
<1>1. Begin(s, unit)
  BY DEF CreateOrganization
<1>2. /\ O(o)[1] = "organization"
      /\ \A u : U(u)[1] = "user" /\ M(u, o)[1] = "membership"
      /\ \A x : O(x) = O(o) => x = o
      /\ \A x, y, u : M(x, y) = M(u, o) => y = o
  BY RowNames
<1>3. /\ O(o) \in DOMAIN inserts
      /\ \A r \in DOMAIN inserts :
            \/ r = O(o) /\ inserts[r] = NewOrg
            \/ (\E u \in admins : r = M(u, o)) /\ inserts[r] = Member("ADMIN")
            \/ (\E u \in admins : r = U(u)) /\ inserts[r] = NewUser
  BY DEF :>, @@, Missing
<1>4. /\ DOMAIN audit = {1} /\ Len(audit) = 1 /\ audit[1].action = "ORG_CREATED"
      /\ audit[1].row = O(o) /\ audit[1].before = Nothing /\ audit[1].after = Nothing
      /\ Says(audit[1]) = Nothing
  <2>1. audit = <<Entry("ORG_CREATED", O(o), Nothing, Nothing)>>
    OBVIOUS
  <2> HIDE DEF audit
  <2> QED BY <2>1, Single
<1> HIDE DEF inserts, audit
<1>5. /\ unit.op \notin Seeders /\ unit.inserts = inserts /\ unit.audit = audit
      /\ unit.tokens = {} /\ DOMAIN unit.updates = {} /\ unit.deletes = {}
  BY NoRowsAtAll DEF Unit, Seeders
<1> HIDE DEF unit
<1>6. \A r \in DOMAIN unit.inserts : New(r, unit.inserts[r])
  BY <1>2, <1>3, <1>5 DEF New, Role
<1>7. \A x \in User, y \in Org : M(x, y) \in DOMAIN unit.inserts => O(y) \in DOMAIN unit.inserts
  <2> SUFFICES ASSUME NEW x \in User, NEW y \in Org, M(x, y) \in DOMAIN unit.inserts PROVE y = o
    BY <1>3, <1>5
  <2>1. M(x, y)[1] = "membership"
    BY RowNames
  <2> QED BY <1>2, <1>3, <1>5, <2>1
<1>8. Founding(unit)
  <2>1. ASSUME NEW x \in Org, O(x) \in DOMAIN unit.inserts PROVE x = o
    <3>1. O(x)[1] = "organization"
      BY RowNames
    <3> QED BY <1>2, <1>3, <1>5, <2>1, <3>1
  <2> QED BY <1>3, <1>4, <1>5, <2>1, NoRowsAtAll DEF Founding
<1>9. /\ Len(unit.audit) \in {0, 1}
       /\ \A i \in DOMAIN unit.audit : /\ DOMAIN Says(unit.audit[i]) \cap DOMAIN Created = {}
                                       /\ DOMAIN unit.audit[i].before = {}
  BY <1>4, <1>5, NoRowsAtAll
<1>10. Enrolling(unit)
  BY <1>5, <1>6, <1>7, <1>8, <1>9 DEF Enrolling
<1> QED BY <1>1, <1>10, EnrollingFits DEF Opens

LEMMA DemoLoginOpens ==
    ASSUME NEW s \in Slot, DemoLogin(s)
    PROVE  Opens(s)
<1> DEFINE standing == Exists(O(Demo)) /\ Demo \in ActiveOrgs(db, Owner)
           found   == Missing(O(Demo) :> NewOrg @@ U(Owner) :> NewUser)
           joined  == IF standing THEN Nothing ELSE M(Owner, Demo) :> Member("ADMIN")
           inserts == found @@ joined
           audit   == <<Entry("DEMO_SESSION", O(Demo), Nothing, Nothing)>>
           unit    == [Unit("demologin") EXCEPT !.inserts = inserts, !.audit = audit,
                                                !.tokens = {<<Owner, Demo>>}]
<1>1. Begin(s, unit)
  BY DEF DemoLogin
<1>2. /\ O(Demo)[1] = "organization" /\ U(Owner)[1] = "user" /\ M(Owner, Demo)[1] = "membership"
      /\ \A x, y : M(x, y) = M(Owner, Demo) => y = Demo
      /\ Owner \in User /\ Demo \in Org
  BY RowNames, AccountsAssumption
<1>3. /\ Exists(O(Demo)) \/ O(Demo) \in DOMAIN found
      /\ \A r \in DOMAIN found : \/ r = O(Demo) /\ found[r] = NewOrg
                                 \/ r = U(Owner) /\ found[r] = NewUser
  BY <1>2 DEF Missing, :>, @@, Exists
<1>4. /\ Exists(M(Owner, Demo)) \/ M(Owner, Demo) \in DOMAIN joined
      /\ \A r \in DOMAIN joined : r = M(Owner, Demo) /\ joined[r] = Member("ADMIN")
  BY NoRowsAtAll DEF ActiveOrgs, Exists, :>
<1> HIDE DEF found, joined
<1>5. /\ Exists(O(Demo)) \/ O(Demo) \in DOMAIN inserts
      /\ Exists(M(Owner, Demo)) \/ M(Owner, Demo) \in DOMAIN inserts
      /\ \A r \in DOMAIN inserts :
            \/ r = O(Demo) /\ inserts[r] = NewOrg
            \/ r = U(Owner) /\ inserts[r] = NewUser
            \/ r = M(Owner, Demo) /\ inserts[r] = Member("ADMIN")
  BY <1>3, <1>4 DEF @@
<1>6. /\ DOMAIN audit = {1} /\ Len(audit) = 1 /\ audit[1].action = "DEMO_SESSION"
      /\ audit[1].row = O(Demo) /\ audit[1].before = Nothing
      /\ Says(audit[1]) = Nothing
  <2>1. audit = <<Entry("DEMO_SESSION", O(Demo), Nothing, Nothing)>>
    OBVIOUS
  <2> HIDE DEF audit
  <2> QED BY <2>1, Single
<1> HIDE DEF inserts, audit
<1>7. /\ unit.op \notin Seeders /\ unit.inserts = inserts /\ unit.audit = audit
      /\ unit.tokens = {<<Owner, Demo>>} /\ DOMAIN unit.updates = {} /\ unit.deletes = {}
  BY NoRowsAtAll DEF Unit, Seeders
<1> HIDE DEF unit
<1>8. \A r \in DOMAIN unit.inserts : New(r, unit.inserts[r])
  BY <1>2, <1>5, <1>7 DEF New, Role
<1>9. /\ unit.tokens \subseteq User \X Org
      /\ \A p \in unit.tokens : M(p[1], p[2]) \in DOMAIN unit.inserts \/ Exists(M(p[1], p[2]))
  BY <1>2, <1>5, <1>7
<1>10. ASSUME NEW x \in User, NEW y \in Org, M(x, y) \in DOMAIN unit.inserts
       PROVE  O(y) \in DOMAIN unit.inserts \/ Exists(O(y))
  <2>1. M(x, y)[1] = "membership"
    BY RowNames
  <2>2. y = Demo
    BY <1>2, <1>5, <1>7, <1>10, <2>1
  <2> QED BY <1>5, <1>7, <2>2
<1>11. Founding(unit)
  <2>1. ASSUME NEW x \in Org, O(x) \in DOMAIN unit.inserts PROVE x = Demo
    <3>1. O(x)[1] = "organization" /\ O(x)[2] = x /\ O(Demo)[2] = Demo
      BY RowNames
    <3> QED BY <1>2, <1>5, <1>7, <2>1, <3>1
  <2> QED BY <1>6, <1>7, <2>1 DEF Founding
<1>12. /\ Len(unit.audit) \in {0, 1}
       /\ \A i \in DOMAIN unit.audit : /\ DOMAIN Says(unit.audit[i]) \cap DOMAIN Created = {}
                                       /\ DOMAIN unit.audit[i].before = {}
  BY <1>6, <1>7, NoRowsAtAll
<1>13. Enrolling(unit)
  BY <1>7, <1>8, <1>9, <1>10, <1>11, <1>12 DEF Enrolling
<1> QED BY <1>1, <1>13, EnrollingFits DEF Opens

\* Of the given rows, the columns that are written.
LEMMA Rewriting ==
    ASSUME NEW rows, NEW r
    PROVE  /\ r \in DOMAIN Changed(rows) =>
                /\ r \in DOMAIN rows /\ Exists(r)
                /\ Changed(rows)[r] = [c \in {x \in DOMAIN rows[r] : rows[r][x] # db[r][x]} |-> rows[r][c]]
           /\ r \in DOMAIN rows /\ Exists(r) /\ r \notin DOMAIN Changed(rows) =>
                \A c \in DOMAIN rows[r] : db[r][c] = rows[r][c]
  BY DEF Changed, Exists

LEMMA MemberRewritten ==
    ASSUME NEW role \in Role, NEW C \in SUBSET {"role", "status"}, NEW x \in MemberRow
    PROVE  [c \in C |-> Member(role)[c]] @@ x \in MemberRow
<1>1. DOMAIN x = {"role", "status"} /\ x["role"] \in Role /\ x["status"] \in Status
  BY DEF MemberRow
<1>2. Member(role)["role"] \in Role /\ Member(role)["status"] \in Status
  BY DEF Member, Status
<1> DEFINE y == [c \in {"role", "status"} |-> IF c \in C THEN Member(role)[c] ELSE x[c]]
<1>3. [c \in C |-> Member(role)[c]] @@ x = y
  BY <1>1 DEF @@
<1>4. y["role"] \in Role /\ y["status"] \in Status /\ y = [role |-> y["role"], status |-> y["status"]]
  BY <1>1, <1>2
<1> QED BY <1>3, <1>4 DEF MemberRow

LEMMA InviteOpens ==
    ASSUME StandingInv, NEW s \in Slot, NEW o \in Org, NEW u \in User, NEW role \in Role,
           Invite(s, o, u, role)
    PROVE  Opens(s)
<1> DEFINE m       == M(u, o)
           row     == Member(role)
           inserts == Missing(U(u) :> NewUser @@ m :> row)
           updates == Changed(m :> row)
           after   == [role |-> role]
           audit   == <<Entry("MEMBER_INVITED", m, Nothing, after)>>
           unit    == [Unit("invite") EXCEPT !.inserts = inserts, !.updates = updates,
                                             !.audit = audit]
<1>1. Begin(s, unit) /\ Exists(O(o))
  BY Administered DEF Invite
<1>2. /\ m[1] = "membership" /\ U(u)[1] = "user" /\ m \in Rows
      /\ \A x, y : M(x, y) = m => x = u /\ y = o
  BY RowNames, RowsNamed
<1>3. /\ DOMAIN row = {"role", "status"} /\ row["status"] = "ACTIVE" /\ row["status"] = Created["status"]
      /\ row["role"] = after.role /\ row \in MemberRow /\ NewUser \in UserRow
  BY NewRows DEF Member
<1>4. /\ \A r \in DOMAIN inserts : \/ r = U(u) /\ inserts[r] = NewUser
                                   \/ r = m /\ inserts[r] = row
      /\ m \in DOMAIN inserts \/ Exists(m)
  <2> HIDE DEF m, row
  <2> QED BY <1>2 DEF Missing, :>, @@, Exists
<1>5. /\ DOMAIN updates \subseteq {m}
      /\ m \in DOMAIN updates =>
           /\ Exists(m)
           /\ updates[m] = [c \in {x \in {"role", "status"} : row[x] # db[m][x]} |-> row[c]]
      /\ Exists(m) /\ m \notin DOMAIN updates => db[m]["status"] = row["status"]
  <2> DEFINE rows == m :> row
  <2>1. DOMAIN rows = {m} /\ rows[m] = row
    BY DEF :>
  <2> HIDE DEF rows, row, m
  <2>2. /\ DOMAIN Changed(rows) \subseteq {m}
        /\ m \in DOMAIN Changed(rows) =>
             /\ Exists(m)
             /\ Changed(rows)[m] = [c \in {x \in DOMAIN row : row[x] # db[m][x]} |-> row[c]]
        /\ Exists(m) /\ m \notin DOMAIN Changed(rows) => \A c \in DOMAIN row : db[m][c] = row[c]
    <3>1. DOMAIN Changed(rows) \subseteq {m}
      BY <2>1, ChangedRows
    <3>2. /\ m \in DOMAIN Changed(rows) =>
               /\ m \in DOMAIN rows /\ Exists(m)
               /\ Changed(rows)[m] = [c \in {x \in DOMAIN rows[m] : rows[m][x] # db[m][x]} |-> rows[m][c]]
          /\ m \in DOMAIN rows /\ Exists(m) /\ m \notin DOMAIN Changed(rows) =>
               \A c \in DOMAIN rows[m] : db[m][c] = rows[m][c]
      BY Rewriting
    <3> QED BY <2>1, <3>1, <3>2
  <2> QED BY <1>3, <2>2 DEF rows
<1>6. Exists(m) => db[m] \in MemberRow /\ "status" \in DOMAIN db[m]
  <2>1. Exists(m) => db[m] \in MemberRow
    BY <1>2, RowSets DEF StandingInv, RowsInv, Exists
  <2> QED BY <2>1 DEF MemberRow
<1>7. /\ DOMAIN audit = {1} /\ Len(audit) = 1 /\ audit[1].action = "MEMBER_INVITED"
      /\ audit[1].row = m /\ audit[1].before = Nothing /\ audit[1].after = after
  <2>1. audit = <<Entry("MEMBER_INVITED", m, Nothing, after)>>
    OBVIOUS
  <2> HIDE DEF audit
  <2> QED BY <2>1, Single
<1>8. Says(audit[1]) = [status |-> "ACTIVE"] @@ after
  BY <1>7 DEF Says
<1>9. /\ DOMAIN Says(audit[1]) = {"role", "status"} /\ Says(audit[1])["status"] = "ACTIVE"
      /\ \A r : \A c \in {"role", "status"} : Column(r, c) => c = "status"
  <2>1. DOMAIN after = {"role"} /\ DOMAIN [status |-> "ACTIVE"] = {"status"}
    OBVIOUS
  <2> HIDE DEF audit, after
  <2>2. DOMAIN Says(audit[1]) = {"role", "status"} /\ Says(audit[1])["status"] = "ACTIVE"
    BY <1>8, <2>1 DEF @@
  <2> QED BY <2>2, NewRows DEF Column
<1> HIDE DEF inserts, updates, audit, after
<1>10. /\ unit.op = "invite" /\ unit.inserts = inserts /\ unit.updates = updates
       /\ unit.audit = audit /\ unit.tokens = {} /\ unit.deletes = {}
  BY DEF Unit
<1> HIDE DEF unit, row, m
<1>11. Typed(unit)
  <2>1. \A r \in DOMAIN unit.inserts : unit.inserts[r] \in RowSet(r)
    BY <1>3, <1>4, <1>10, RowSets DEF m
  <2>2. ASSUME NEW x \in MemberRow, m \in DOMAIN updates PROVE updates[m] @@ x \in MemberRow
    <3> DEFINE C == {y \in {"role", "status"} : row[y] # db[m][y]}
    <3>1. updates[m] = [c \in C |-> Member(role)[c]] /\ C \in SUBSET {"role", "status"}
      BY <1>5, <2>2 DEF row
    <3> HIDE DEF C
    <3> QED BY <3>1, MemberRewritten
  <2>3. \A x \in User, y \in Org : M(x, y) \in DOMAIN unit.inserts => Exists(O(y))
    <3> SUFFICES ASSUME NEW x \in User, NEW y \in Org, M(x, y) \in DOMAIN unit.inserts PROVE y = o
      BY <1>1
    <3>1. M(x, y)[1] = "membership"
      BY RowNames
    <3> QED BY <1>2, <1>4, <1>10, <3>1
  <2>4. \A r \in DOMAIN unit.updates : \A x \in RowSet(r) : unit.updates[r] @@ x \in RowSet(r)
    BY <1>5, <1>10, <2>2, RowSets DEF m
  <2> QED BY <1>10, <2>1, <2>3, <2>4 DEF Typed
<1>12. Founding(unit)
  <2>1. \A x : O(x) \notin DOMAIN unit.inserts
    <3>1. \A x : O(x)[1] = "organization"
      BY RowNames
    <3> QED BY <1>2, <1>4, <1>10, <3>1
  <2> QED BY <1>7, <1>10, <2>1 DEF Founding
<1>13. Marked(unit)
  <2>1. \A x : U(x) \notin DOMAIN unit.updates
    <3>1. \A x : U(x)[1] = "user"
      BY RowNames
    <3> QED BY <1>2, <1>5, <1>10, <3>1
  <2>2. ASSUME m \in DOMAIN updates, "role" \in DOMAIN updates[m]
        PROVE  after.role = updates[m].role
    BY <1>3, <1>5, <2>2
  <2>3. m \in DOMAIN updates /\ "status" \in DOMAIN updates[m] => updates[m]["status"] = "ACTIVE"
    BY <1>3, <1>5
  <2>4. \A r \in DOMAIN unit.inserts : "status" \in DOMAIN unit.inserts[r] =>
           unit.inserts[r]["status"] = "ACTIVE"
    <3>1. NewUser["status"] = "ACTIVE"
      BY DEF NewUser
    <3> QED BY <1>3, <1>4, <1>10, <3>1
  <2> QED BY <1>5, <1>7, <1>10, <2>1, <2>2, <2>3, <2>4 DEF Marked
<1>14. Original(unit)
  <2>1. \A c \in DOMAIN NewUser : NewUser[c] = Created[c]
    BY NewRows
  <2> QED BY <1>3, <1>4, <1>9, <1>10, <2>1 DEF Original
<1>15. Audited(unit)
  BY <1>5, <1>7, <1>9, <1>10 DEF Audited, Administrative
<1>16. Truthful(unit)
  <2>1. /\ m \in Rows /\ m[1] # "api_key" /\ "invite" \in Administrative
        /\ \/ m \in DOMAIN inserts /\ "status" \in DOMAIN inserts[m] /\ inserts[m]["status"] = "ACTIVE"
           \/ /\ m \in DOMAIN updates /\ "status" \in DOMAIN updates[m]
              /\ updates[m]["status"] = "ACTIVE" /\ Exists(m)
           \/ /\ m \in DOMAIN updates => "status" \notin DOMAIN updates[m]
              /\ Exists(m) /\ "status" \in DOMAIN db[m] /\ db[m]["status"] = "ACTIVE"
    <3>1. m \in Rows /\ m[1] # "api_key" /\ "invite" \in Administrative
      BY <1>2 DEF Administrative
    <3>2. CASE ~Exists(m)
      <4>1. m \in DOMAIN inserts /\ inserts[m] = row
        BY <1>2, <1>4, <3>2
      <4> QED BY <1>3, <3>1, <4>1
    <3>3. CASE Exists(m) /\ m \in DOMAIN updates /\ "status" \in DOMAIN updates[m]
      <4>1. updates[m]["status"] = "ACTIVE"
        BY <1>3, <1>5, <3>3
      <4> QED BY <3>1, <3>3, <4>1
    <3>4. CASE Exists(m) /\ (m \in DOMAIN updates => "status" \notin DOMAIN updates[m])
      <4>1. db[m]["status"] = "ACTIVE"
        BY <1>3, <1>5, <3>4
      <4> QED BY <1>6, <3>1, <3>4, <4>1
    <3> QED BY <3>2, <3>3, <3>4
  <2>2. Len(unit.audit) \in {0, 1}
    BY <1>7, <1>10
  <2> QED BY <1>7, <1>9, <1>10, <2>1, <2>2 DEF Truthful
<1>17. Remembers(unit)
  BY <1>7, <1>10, NoRowsAtAll DEF Remembers
<1>18. Adding(unit)
  <2>1. \A table \in Fixture : \A x, i : F(table, x, i)[1] \notin {"user", "membership"}
    BY RowNames DEF Fixture
  <2> QED BY <1>2, <1>4, <1>5, <1>10, <2>1 DEF Adding
<1>19. Historical(unit)
  <2>1. \A o1 \in Org : /\ O(o1) \notin DOMAIN unit.inserts /\ O(o1) \notin DOMAIN unit.updates
                        /\ O(o1) # m
    <3>1. \A x : O(x)[1] = "organization"
      BY RowNames
    <3> QED BY <1>2, <1>4, <1>5, <1>10, <3>1
  <2> QED BY <1>7, <1>10, <2>1 DEF Historical
<1> QED BY <1>1, <1>11, <1>12, <1>13, <1>14, <1>15, <1>16, <1>17, <1>18, <1>19 DEF Opens, Fit

(* The seeders.                                                               *)

\* A row as a seeder inserts it: those of an account, an organization or a
\* membership, the owner's account with its flag, and the rows of other tables.
Furniture(r, row) ==
    \/ New(r, row)
    \/ r = U(Owner) /\ row = [NewUser EXCEPT !.superadmin = TRUE]
    \/ r[1] \in Fixture \cup {"document_type"} /\ row = Present
    \/ r[1] = "api_key" /\ row \in KeyRow
    \/ r = Site /\ row \in SiteRows

LEMMA FurnitureFits ==
    ASSUME NEW r, NEW row, Furniture(r, row)
    PROVE  /\ row \in RowSet(r)
           /\ \A c \in DOMAIN row : Column(r, c) => row[c] = Created[c]
           /\ "status" \in DOMAIN row => row["status"] = "ACTIVE"
           /\ r[1] = "organization" => row = NewOrg
<1>1. CASE New(r, row)
  <2>1. "status" \in DOMAIN Created /\ Created["status"] = "ACTIVE"
    BY DEF Created
  <2> QED BY <1>1, <2>1, NewFits DEF Column, New
<1>2. CASE r = U(Owner) /\ row = [NewUser EXCEPT !.superadmin = TRUE]
  <2>1. /\ row \in UserRow /\ DOMAIN row = DOMAIN NewUser
        /\ \A c \in DOMAIN NewUser : c # "superadmin" => row[c] = NewUser[c]
    BY <1>2, NewRows DEF UserRow
  <2>2. \A c \in DOMAIN NewUser : NewUser[c] = Created[c]
    BY NewRows
  <2>3. row["status"] = "ACTIVE"
    BY <1>2 DEF NewUser
  <2> QED BY <1>2, <2>1, <2>2, <2>3, RowSets, RowNames DEF Column
<1>3. CASE r[1] \in Fixture \cup {"document_type"} /\ row = Present
  BY <1>3, NewRows DEF RowSet, Fixture, Column
<1>4. CASE r[1] = "api_key" /\ row \in KeyRow
  <2>1. DOMAIN row = {"org", "expired", "used"}
    BY <1>4 DEF KeyRow
  <2> QED BY <1>4, <2>1, NewRows DEF RowSet, Column
<1>5. CASE r = Site /\ row \in SiteRows
  <2>1. DOMAIN row = {"value"}
    BY <1>5 DEF SiteRows
  <2> QED BY <1>5, <2>1, RowSets, RowNames, NewRows DEF Column
<1> QED BY <1>1, <1>2, <1>3, <1>4, <1>5 DEF Furniture

\* The two updates that a seeder makes.
Promotion(r, row) == r = U(Owner) /\ row = [c \in {"superadmin"} |-> TRUE]
RoleReset(r, row) ==
    \E u \in User : r = M(u, Demo) /\ row = [c \in {"role"} |-> Member(DemoRole(u))[c]]

Furnishing(unit) ==
    /\ unit.op \in Seeders
    /\ \A r \in DOMAIN unit.inserts : Furniture(r, unit.inserts[r])
    /\ \A table \in Fixture, o \in Org, i \in Copy : F(table, o, i) \in DOMAIN unit.inserts =>
          \A j \in Copy : ~Exists(F(table, o, j))
    /\ \A o \in Org : O(o) \in DOMAIN unit.inserts => o \in {Seeded, Demo}
    /\ \A u \in User, o \in Org : M(u, o) \in DOMAIN unit.inserts =>
          O(o) \in DOMAIN unit.inserts \/ Exists(O(o))
    /\ \A r \in DOMAIN unit.updates :
          \/ Promotion(r, unit.updates[r])
          \/ unit.op = "seed_demo" /\ RoleReset(r, unit.updates[r])
    /\ unit.deletes = {} /\ unit.tokens = {}
    /\ Len(unit.audit) \in {0, 1}
    /\ \A i \in DOMAIN unit.audit :
          /\ unit.audit[i].action = "DEMO_SEEDED" /\ DOMAIN unit.audit[i].before = {}
          /\ DOMAIN Says(unit.audit[i]) = {}
    /\ unit.op = "seed_demo" => 1 \in DOMAIN unit.audit

LEMMA FurnishingFits ==
    ASSUME NEW unit, Furnishing(unit)
    PROVE  Fit(unit)
<1>1. \A r \in DOMAIN unit.inserts :
         /\ unit.inserts[r] \in RowSet(r)
         /\ \A c \in DOMAIN unit.inserts[r] : Column(r, c) => unit.inserts[r][c] = Created[c]
  BY FurnitureFits DEF Furnishing
<1>2. ASSUME NEW r \in DOMAIN unit.updates
      PROVE  /\ \A x \in RowSet(r) : unit.updates[r] @@ x \in RowSet(r)
             /\ \A c \in DOMAIN unit.updates[r] : ~Column(r, c)
             /\ "status" \notin DOMAIN unit.updates[r]
             /\ r[1] \notin Fixture \cup {"organization"}
  <2>1. CASE Promotion(r, unit.updates[r])
    <3>1. ASSUME NEW x \in UserRow PROVE [c \in {"superadmin"} |-> TRUE] @@ x \in UserRow
      BY DEF UserRow, @@
    <3> QED BY <2>1, <3>1, RowSets, RowNames DEF Promotion, Column, Fixture
  <2>2. CASE RoleReset(r, unit.updates[r])
    <3>1. PICK u \in User :
             r = M(u, Demo) /\ unit.updates[r] = [c \in {"role"} |-> Member(DemoRole(u))[c]]
      BY <2>2 DEF RoleReset
    <3>0. DemoRole(u) \in Role /\ {"role"} \in SUBSET {"role", "status"}
      BY DEF DemoRole, Role
    <3>2. \A x \in MemberRow : [c \in {"role"} |-> Member(DemoRole(u))[c]] @@ x \in MemberRow
      BY <3>0, MemberRewritten
    <3> QED BY <3>1, <3>2, RowSets, RowNames, NewRows DEF Column, Fixture
  <2> QED BY <2>1, <2>2 DEF Furnishing
<1>3. Typed(unit)
  BY <1>1, <1>2 DEF Typed, Furnishing
<1>4. Founding(unit)
  BY DEF Founding, Furnishing
<1>5. Marked(unit)
  <2>1. ASSUME NEW u \in User, U(u) \in DOMAIN unit.updates, "superadmin" \in DOMAIN unit.updates[U(u)]
        PROVE  unit.updates[U(u)].superadmin = TRUE
    <3>1. \A x, o : U(u) # M(x, o)
      BY RowNames
    <3> QED BY <2>1, <3>1 DEF Furnishing, Promotion, RoleReset
  <2>2. ASSUME NEW u \in User, NEW o \in Org, M(u, o) \in DOMAIN unit.updates
        PROVE  /\ o = Demo /\ unit.updates[M(u, o)].role = DemoRole(u)
               /\ \E i \in DOMAIN unit.audit : unit.audit[i].action = "DEMO_SEEDED"
    <3>0. U(Owner) # M(u, o) /\ \A x : M(x, Demo) = M(u, o) => x = u /\ o = Demo
      BY RowNames
    <3>1. unit.op = "seed_demo" /\ RoleReset(M(u, o), unit.updates[M(u, o)])
      BY <2>2, <3>0 DEF Furnishing, Promotion
    <3>2. /\ unit.op = "seed_demo" /\ o = Demo
          /\ unit.updates[M(u, o)] = [c \in {"role"} |-> Member(DemoRole(u))[c]]
      <4>1. PICK x \in User :
               /\ M(u, o) = M(x, Demo)
               /\ unit.updates[M(u, o)] = [c \in {"role"} |-> Member(DemoRole(x))[c]]
        BY <3>1 DEF RoleReset
      <4>2. x = u /\ o = Demo
        BY <3>0, <4>1
      <4> QED BY <3>1, <4>1, <4>2
    <3>3. unit.updates[M(u, o)].role = DemoRole(u)
      BY <3>2 DEF Member
    <3> QED BY <3>2, <3>3 DEF Furnishing
  <2>3. \A r \in DOMAIN unit.inserts : "status" \in DOMAIN unit.inserts[r] =>
           unit.inserts[r]["status"] = "ACTIVE"
    BY FurnitureFits DEF Furnishing
  <2> QED BY <1>2, <2>1, <2>2, <2>3 DEF Marked
<1>6. Original(unit)
  BY <1>1 DEF Original
<1>7. Audited(unit)
  BY <1>2 DEF Audited
<1>8. Truthful(unit)
  BY DEF Truthful, Furnishing
<1>9. Remembers(unit)
  BY DEF Remembers, Furnishing
<1>10. Adding(unit)
  <2>1. \A table \in Fixture, o \in Org, i \in Copy : F(table, o, i)[1] \in Fixture
    BY RowNames
  <2>2. ASSUME unit.op = "run_seed", NEW r \in DOMAIN unit.updates
        PROVE  /\ r = U(Owner) /\ DOMAIN unit.updates[r] = {"superadmin"}
               /\ unit.updates[r].superadmin = TRUE
    BY <2>2 DEF Furnishing, Promotion
  <2> QED BY <1>2, <2>1, <2>2 DEF Adding, Furnishing
<1>11. Historical(unit)
  <2>1. \A o \in Org : /\ O(o)[1] = "organization"
                       /\ O(o) \notin DOMAIN unit.updates
                       /\ O(o) \in DOMAIN unit.inserts => unit.inserts[O(o)] = NewOrg
    BY <1>2, RowNames, FurnitureFits DEF Furnishing
  <2> QED BY <2>1 DEF Historical, Furnishing
<1> QED BY <1>3, <1>4, <1>5, <1>6, <1>7, <1>8, <1>9, <1>10, <1>11 DEF Fit

\* A fixture is new where its lookup found none.
LEMMA FixtureNew ==
    ASSUME NEW table \in Fixture, NEW o \in Org, NEW rows, rows = NewFixture(table, o)
    PROVE  \A r \in DOMAIN rows :
             /\ r[1] = table /\ rows[r] = Present
             /\ \A x, y, i : r = F(x, y, i) => /\ x = table /\ y = o
                                               /\ \A j \in Copy : ~Exists(F(table, o, j))
<1> DEFINE r == F(table, o, CHOOSE i \in Copy : ~Mentioned(F(table, o, i)))
<1>1. r[1] = table /\ \A x, y, i : r = F(x, y, i) => x = table /\ y = o
  BY DEF F
<1>2. CASE \E i \in Copy : Exists(F(table, o, i))
  BY <1>2, NoRowsAtAll DEF NewFixture
<1>3. CASE ~\E i \in Copy : Exists(F(table, o, i))
  <2>1. rows = r :> Present
    BY <1>3 DEF NewFixture
  <2> HIDE DEF r
  <2> QED BY <1>1, <1>3, <2>1 DEF :>
<1> QED BY <1>2, <1>3

LEMMA BootContents ==
    /\ O(Seeded) \in DOMAIN BootRows
    /\ \A r \in DOMAIN BootRows :
          \/ r = O(Seeded) /\ BootRows[r] = NewOrg
          \/ r = U(Owner) /\ BootRows[r] = [NewUser EXCEPT !.superadmin = TRUE]
          \/ r = U(Staff) /\ BootRows[r] = NewUser
          \/ r = M(Owner, Seeded) /\ BootRows[r] = Member("ADMIN")
          \/ r = M(Staff, Seeded) /\ BootRows[r] = Member("SUBMITTER")
          \/ r = Site /\ BootRows[r] = SiteRow(DefaultSettings)
  BY DEF BootRows, Accounts, :>, @@

LEMMA BootFurniture == \A r \in DOMAIN BootRows : Furniture(r, BootRows[r])
<1>1. /\ \A o : O(o)[1] = "organization"
      /\ \A u : U(u)[1] = "user"
      /\ \A u, o : M(u, o)[1] = "membership"
  BY RowNames
<1>2. SiteRow(DefaultSettings) \in SiteRows
  BY DEF SiteRow, SiteRows, DefaultSettings, Setting
<1> QED BY <1>1, <1>2, BootContents DEF Furniture, New, Role

LEMMA RunSeedOpens ==
    ASSUME NEW s \in Slot, NEW sample \in BOOLEAN, RunSeed(s, sample)
    PROVE  Opens(s)
<1> DEFINE fixture == NewFixture("reference", Seeded)
           types   == Missing(T(Seeded) :> Present)
           more    == IF sample THEN types @@ fixture ELSE Nothing
           boot    == Missing(BootRows)
           inserts == boot @@ more
           updates == Changed(U(Owner) :> [superadmin |-> TRUE])
           unit    == [Unit("run_seed") EXCEPT !.inserts = inserts, !.updates = updates]
<1>1. Begin(s, unit)
  BY DEF RunSeed
<1>2. /\ {Owner, Staff} \subseteq User /\ {Seeded, Demo} \subseteq Org /\ Owner # Staff
      /\ \A o : O(o)[1] = "organization" /\ T(o)[1] = "document_type"
      /\ \A u : U(u)[1] = "user" /\ \A x : U(u) = U(x) => u = x
      /\ \A u, o : M(u, o)[1] = "membership"
      /\ Site[1] = "platform_setting"
      /\ \A table \in Fixture : \A o, i : F(table, o, i)[1] = table
  BY RowNames, AccountsAssumption
<1>3. /\ O(Seeded) \in DOMAIN BootRows
      /\ \A r \in DOMAIN BootRows :
            \/ r = O(Seeded) /\ BootRows[r] = NewOrg
            \/ r = U(Owner) /\ BootRows[r] = [NewUser EXCEPT !.superadmin = TRUE]
            \/ r = U(Staff) /\ BootRows[r] = NewUser
            \/ r = M(Owner, Seeded) /\ BootRows[r] = Member("ADMIN")
            \/ r = M(Staff, Seeded) /\ BootRows[r] = Member("SUBMITTER")
            \/ r = Site /\ BootRows[r] = SiteRow(DefaultSettings)
  BY BootContents
<1>5. /\ Exists(O(Seeded)) \/ O(Seeded) \in DOMAIN boot
      /\ \A r \in DOMAIN boot : r \in DOMAIN BootRows /\ boot[r] = BootRows[r]
  BY <1>3 DEF Missing, Exists
<1>6. \A r \in DOMAIN more :
         \/ r = T(Seeded) /\ more[r] = Present
         \/ /\ r[1] = "reference" /\ more[r] = Present
            /\ \A x, y, i : r = F(x, y, i) => /\ x = "reference" /\ y = Seeded
                                              /\ \A j \in Copy : ~Exists(F("reference", Seeded, j))
  <2>1. \A r \in DOMAIN fixture :
           /\ r[1] = "reference" /\ fixture[r] = Present
           /\ \A x, y, i : r = F(x, y, i) => /\ x = "reference" /\ y = Seeded
                                             /\ \A j \in Copy : ~Exists(F("reference", Seeded, j))
    BY <1>2, FixtureNew DEF Fixture
  <2>2. \A r \in DOMAIN types : r = T(Seeded) /\ types[r] = Present
    BY DEF Missing, :>
  <2> HIDE DEF fixture, types
  <2> QED BY <2>1, <2>2, NoRowsAtAll DEF @@
<1>7. \A r \in DOMAIN updates : Promotion(r, updates[r])
  <2> DEFINE new == [superadmin |-> TRUE]
             r   == U(Owner)
  <2>1. CASE Exists(U(Owner))
    <3>1. DOMAIN new = {"superadmin"} /\ new["superadmin"] = TRUE
      OBVIOUS
    <3> HIDE DEF new
    <3>2. /\ DOMAIN Changed(r :> new) \subseteq {r}
          /\ r \in DOMAIN Changed(r :> new) =>
               Changed(r :> new)[r] = [c \in {"superadmin"} |-> new["superadmin"]]
      BY <2>1, <3>1, Alone
    <3> QED BY <3>1, <3>2 DEF Promotion, new
  <2>2. CASE ~Exists(U(Owner))
    BY <2>2 DEF Changed, :>, Exists
  <2> QED BY <2>1, <2>2
<1> HIDE DEF boot, more, updates
<1>8. /\ DOMAIN inserts = DOMAIN boot \cup DOMAIN more
      /\ \A r \in DOMAIN boot : inserts[r] = boot[r]
      /\ \A r \in DOMAIN more : r \notin DOMAIN boot => inserts[r] = more[r]
  BY DEF @@
<1> HIDE DEF inserts
<1>9. /\ unit.op = "run_seed" /\ unit.inserts = inserts /\ unit.updates = updates
      /\ unit.audit = <<>> /\ unit.tokens = {} /\ unit.deletes = {}
  BY DEF Unit
<1> HIDE DEF unit
<1>10. \A r \in DOMAIN inserts : Furniture(r, inserts[r])
  <2>1. ASSUME NEW r \in DOMAIN boot PROVE Furniture(r, inserts[r])
    BY <1>5, <1>8, BootFurniture
  <2>2. ASSUME NEW r \in DOMAIN more, r \notin DOMAIN boot PROVE Furniture(r, inserts[r])
    BY <1>2, <1>6, <1>8, <2>2 DEF Furniture, Fixture
  <2> QED BY <1>8, <2>1, <2>2
<1>11. ASSUME NEW table \in Fixture, NEW o \in Org, NEW i \in Copy, F(table, o, i) \in DOMAIN inserts
       PROVE  \A j \in Copy : ~Exists(F(table, o, j))
  <2>1. F(table, o, i)[1] = table /\ table \in {"reference", "verification"}
    BY <1>2 DEF Fixture
  <2>2. F(table, o, i) \notin DOMAIN boot
    BY <1>2, <1>3, <1>5, <2>1
  <2>3. F(table, o, i) \in DOMAIN more /\ F(table, o, i) # T(Seeded)
    BY <1>2, <1>8, <1>11, <2>1, <2>2
  <2> QED BY <1>6, <2>3
<1>12. ASSUME NEW o \in Org, O(o) \in DOMAIN inserts PROVE o = Seeded
  <2>1. O(o)[1] = "organization" /\ O(o)[2] = o /\ O(Seeded)[2] = Seeded
    BY RowNames
  <2>2. O(o) \in DOMAIN boot
    BY <1>2, <1>6, <1>8, <1>12, <2>1
  <2> QED BY <1>2, <1>3, <1>5, <2>1, <2>2
<1>13. ASSUME NEW u \in User, NEW o \in Org, M(u, o) \in DOMAIN inserts
       PROVE  O(o) \in DOMAIN inserts \/ Exists(O(o))
  <2>1. M(u, o)[1] = "membership" /\ M(u, o)[3] = o /\ \A x : M(x, Seeded)[3] = Seeded
    BY RowNames
  <2>2. M(u, o) \in DOMAIN boot
    BY <1>2, <1>6, <1>8, <1>13, <2>1
  <2>3. o = Seeded
    BY <1>2, <1>3, <1>5, <2>1, <2>2
  <2> QED BY <1>5, <1>8, <2>3
<1>14. Len(unit.audit) = 0 /\ DOMAIN unit.audit = {}
  BY <1>9
<1>15. Furnishing(unit)
  BY <1>7, <1>9, <1>10, <1>11, <1>12, <1>13, <1>14 DEF Furnishing, Seeders
<1> QED BY <1>1, <1>15, FurnishingFits DEF Opens

LEMMA SeedDemoOpens ==
    ASSUME StandingInv, NEW s \in Slot, NEW k \in Key, SeedDemo(s, k)
    PROVE  Opens(s)
<1> DEFINE standing == {u \in {Owner, Staff} : Demo \in ActiveOrgs(db, u)}
           keyless  == ~\E x \in Key : Exists(K(x)) /\ db[K(x)].org = Demo
           base     == O(Demo) :> NewOrg @@ U(Owner) :> NewUser @@ U(Staff) :> NewUser
                       @@ T(Demo) :> Present
           found    == Missing(base)
           joined   == [m \in {M(u, Demo) : u \in {Owner, Staff} \ standing} |-> Member(DemoRole(m[2]))]
           sources  == NewFixture("reference", Demo)
           cases    == NewFixture("verification", Demo)
           keys     == IF keyless THEN K(k) :> NewKey(Demo) ELSE Nothing
           inserts  == found @@ joined @@ sources @@ cases @@ keys
           roles    == [m \in {M(u, Demo) : u \in standing} |-> Member(DemoRole(m[2]))]
           updates  == Changed(roles)
           audit    == <<Entry("DEMO_SEEDED", O(Demo), Nothing, Nothing)>>
           unit     == [Unit("seed_demo") EXCEPT !.inserts = inserts, !.updates = updates,
                                                 !.audit = audit]
<1>1. Begin(s, unit)
  BY DEF SeedDemo
<1>2. /\ {Owner, Staff} \subseteq User /\ Demo \in Org
      /\ \A o : O(o)[1] = "organization" /\ T(o)[1] = "document_type"
      /\ \A u : U(u)[1] = "user"
      /\ \A u, o : M(u, o)[1] = "membership" /\ M(u, o)[2] = u /\ M(u, o)[3] = o
      /\ \A x : K(x)[1] = "api_key"
      /\ \A table \in Fixture : \A o, i : F(table, o, i)[1] = table
      /\ Fixture = {"reference", "verification"}
  BY RowNames, AccountsAssumption DEF Fixture
<1>3. \A u : DemoRole(u) \in Role
  BY DEF DemoRole, Role
<1>4. /\ Exists(O(Demo)) \/ O(Demo) \in DOMAIN found
      /\ \A r \in DOMAIN found : \/ r = O(Demo) /\ found[r] = NewOrg
                                 \/ r \in {U(Owner), U(Staff)} /\ found[r] = NewUser
                                 \/ r = T(Demo) /\ found[r] = Present
  <2>1. /\ O(Demo) \in DOMAIN base
        /\ \A r \in DOMAIN base : \/ r = O(Demo) /\ base[r] = NewOrg
                                  \/ r \in {U(Owner), U(Staff)} /\ base[r] = NewUser
                                  \/ r = T(Demo) /\ base[r] = Present
    BY DEF :>, @@
  <2> HIDE DEF base
  <2> QED BY <2>1 DEF Missing, Exists
<1>5. \A r \in DOMAIN joined : /\ \E u \in User : r = M(u, Demo)
                               /\ \E x \in Role : joined[r] = Member(x)
  BY <1>2, <1>3
<1>6. /\ \A r \in DOMAIN sources :
            /\ r[1] = "reference" /\ sources[r] = Present
            /\ \A x, y, i : r = F(x, y, i) => /\ x = "reference" /\ y = Demo
                                              /\ \A j \in Copy : ~Exists(F("reference", Demo, j))
      /\ \A r \in DOMAIN cases :
            /\ r[1] = "verification" /\ cases[r] = Present
            /\ \A x, y, i : r = F(x, y, i) => /\ x = "verification" /\ y = Demo
                                              /\ \A j \in Copy : ~Exists(F("verification", Demo, j))
  BY <1>2, FixtureNew
<1>7. \A r \in DOMAIN keys : r[1] = "api_key" /\ keys[r] \in KeyRow
  BY <1>2, NewRows, NoRowsAtAll DEF :>
<1>8. \A r \in DOMAIN updates : RoleReset(r, updates[r])
  <2> SUFFICES ASSUME NEW r \in DOMAIN updates PROVE RoleReset(r, updates[r])
    OBVIOUS
  <2>1. /\ r \in DOMAIN roles /\ Exists(r) /\ DOMAIN updates[r] # {}
        /\ updates[r] = [c \in {x \in DOMAIN roles[r] : roles[r][x] # db[r][x]} |-> roles[r][c]]
    <3> HIDE DEF roles
    <3>1. DOMAIN updates[r] # {}
      BY ChangedRows
    <3>2. /\ r \in DOMAIN roles /\ Exists(r)
          /\ updates[r] = [c \in {x \in DOMAIN roles[r] : roles[r][x] # db[r][x]} |-> roles[r][c]]
      BY DEF Changed, Exists
    <3> QED BY <3>1, <3>2
  <2>2. PICK u \in standing : r = M(u, Demo)
    BY <2>1
  <2>3. roles[r] = Member(DemoRole(u)) /\ DemoRole(u) \in Role
    <3>1. roles[r] = Member(DemoRole(r[2])) /\ r[2] = u
      BY <1>2, <2>1, <2>2
    <3> QED BY <1>3, <3>1
  <2>4. db[r].status = "ACTIVE" /\ u \in User
    BY <1>2, <2>2 DEF ActiveOrgs
  <2>5. /\ DOMAIN Member(DemoRole(u)) = {"role", "status"}
        /\ Member(DemoRole(u))["status"] = "ACTIVE"
    BY DEF Member
  <2> HIDE DEF updates, roles, standing
  <2>6. {x \in {"role", "status"} : Member(DemoRole(u))[x] # db[r][x]} \in {{}, {"role"}}
    BY <2>4, <2>5
  <2>7. updates[r] = [c \in {"role"} |-> Member(DemoRole(u))[c]]
    BY <2>1, <2>3, <2>5, <2>6
  <2> QED BY <2>2, <2>3, <2>4, <2>7 DEF RoleReset
<1>9. /\ DOMAIN audit = {1} /\ Len(audit) = 1 /\ audit[1].action = "DEMO_SEEDED"
      /\ audit[1].before = Nothing /\ Says(audit[1]) = Nothing
  <2>1. audit = <<Entry("DEMO_SEEDED", O(Demo), Nothing, Nothing)>>
    OBVIOUS
  <2> HIDE DEF audit
  <2> QED BY <2>1, Single
<1> HIDE DEF found, joined, sources, cases, keys, updates, audit
<1>10. /\ \A r \in DOMAIN inserts : \/ r \in DOMAIN found /\ inserts[r] = found[r]
                                    \/ r \in DOMAIN joined /\ inserts[r] = joined[r]
                                    \/ r \in DOMAIN sources /\ inserts[r] = sources[r]
                                    \/ r \in DOMAIN cases /\ inserts[r] = cases[r]
                                    \/ r \in DOMAIN keys /\ inserts[r] = keys[r]
       /\ DOMAIN found \subseteq DOMAIN inserts
  BY DEF @@
<1> HIDE DEF inserts
<1>11. /\ unit.op = "seed_demo" /\ unit.inserts = inserts /\ unit.updates = updates
       /\ unit.audit = audit /\ unit.tokens = {} /\ unit.deletes = {}
  BY DEF Unit
<1> HIDE DEF unit
<1>12. \A r \in DOMAIN inserts : Furniture(r, inserts[r])
  <2> SUFFICES ASSUME NEW r \in DOMAIN inserts PROVE Furniture(r, inserts[r])
    OBVIOUS
  <2>1. CASE r \in DOMAIN found /\ inserts[r] = found[r]
    BY <1>2, <1>4, <2>1 DEF Furniture, New
  <2>2. CASE r \in DOMAIN joined /\ inserts[r] = joined[r]
    BY <1>2, <1>5, <2>2 DEF Furniture, New
  <2>3. CASE r \in DOMAIN sources /\ inserts[r] = sources[r]
    BY <1>2, <1>6, <2>3 DEF Furniture
  <2>4. CASE r \in DOMAIN cases /\ inserts[r] = cases[r]
    BY <1>2, <1>6, <2>4 DEF Furniture
  <2>5. CASE r \in DOMAIN keys /\ inserts[r] = keys[r]
    BY <1>7, <2>5 DEF Furniture
  <2> QED BY <1>10, <2>1, <2>2, <2>3, <2>4, <2>5
<1>13. ASSUME NEW table \in Fixture, NEW o \in Org, NEW i \in Copy, F(table, o, i) \in DOMAIN inserts
       PROVE  \A j \in Copy : ~Exists(F(table, o, j))
  <2>1. F(table, o, i)[1] \in {"reference", "verification"}
    BY <1>2
  <2>2. F(table, o, i) \in DOMAIN sources \/ F(table, o, i) \in DOMAIN cases
    BY <1>2, <1>4, <1>5, <1>7, <1>10, <1>13, <2>1
  <2> QED BY <1>6, <2>2
<1>14. ASSUME NEW o \in Org, O(o) \in DOMAIN inserts PROVE o = Demo
  <2>1. O(o)[1] = "organization" /\ O(o)[2] = o /\ O(Demo)[2] = Demo
    BY RowNames
  <2>2. O(o) \in DOMAIN found
    BY <1>2, <1>5, <1>6, <1>7, <1>10, <1>14, <2>1
  <2> QED BY <1>2, <1>4, <2>1, <2>2
<1>15. ASSUME NEW u \in User, NEW o \in Org, M(u, o) \in DOMAIN inserts
       PROVE  O(o) \in DOMAIN inserts \/ Exists(O(o))
  <2>1. M(u, o) \in DOMAIN joined
    BY <1>2, <1>4, <1>6, <1>7, <1>10, <1>15
  <2>2. o = Demo
    BY <1>2, <1>5, <2>1
  <2> QED BY <1>4, <1>10, <2>2
<1>16. /\ \A i \in DOMAIN unit.audit :
             /\ unit.audit[i].action = "DEMO_SEEDED" /\ DOMAIN unit.audit[i].before = {}
             /\ DOMAIN Says(unit.audit[i]) = {}
       /\ 1 \in DOMAIN unit.audit /\ Len(unit.audit) = 1
  BY <1>9, <1>11, NoRowsAtAll
<1>17. Furnishing(unit)
  BY <1>8, <1>11, <1>12, <1>13, <1>14, <1>15, <1>16 DEF Furnishing, Seeders
<1> QED BY <1>1, <1>17, FurnishingFits DEF Opens

LEMMA RequestOpens ==
    ASSUME StandingInv, NEW s \in Slot, Requests(s)
    PROVE  Opens(s)
<1>1. \A admins \in {{}} \cup {{u} : u \in User} : admins \in SUBSET User
  OBVIOUS
<1> QED BY <1>1, RegisterOpens, DemoLoginOpens, InviteOpens, SetMemberStatusOpens,
     ConfigureOpens, CreateDocumentTypeOpens, CreateOrganizationOpens,
     SetOrgStatusOpens, SetUserStatusOpens, ToggleSuperadminOpens, UpdateSettingsOpens,
     CreateKeyOpens, RevokeKeyOpens, UseKeyOpens, RunSeedOpens, SeedDemoOpens DEF Requests

-----------------------------------------------------------------------------
(* The invariant, and what holds whatever requests overlap.                   *)

LEMMA StandRequest ==
    ASSUME StandingInv, NEW s \in Slot, Requests(s)
    PROVE  StandingInv'
<1>1. PICK unit : Begin(s, unit) /\ Fit(unit)
  BY RequestOpens DEF Opens
<1>2. AccountsInv'
  BY RequestHolds DEF StandingInv
<1> QED BY <1>1, <1>2, StandBegun DEF Fit

LEMMA StandingStep == StandingInv /\ [Next]_aVars => StandingInv'
<1> SUFFICES ASSUME StandingInv, [Next]_aVars PROVE StandingInv'
  OBVIOUS
<1>1. ASSUME NEW s \in Slot, Requests(s) PROVE StandingInv'
  BY <1>1, StandRequest
<1>2. ASSUME NEW s \in Slot, Commit(s) PROVE StandingInv'
  BY <1>2, StandCommit
<1>3. ASSUME NEW s \in Slot, Refuse(s) PROVE StandingInv'
  BY <1>3, StandRefuse
<1>4. ASSUME NEW k \in Key, KeyExpires(k) PROVE StandingInv'
  BY <1>4, StandExpiry
<1>5. CASE UNCHANGED aVars
  <2>1. AccountsInv'
    BY <1>5, AccountsStep DEF StandingInv
  <2>2. UNCHANGED <<db, trail, sessions, claims, served>> /\ RowsInv
    BY <1>5 DEF aVars, StandingInv
  <2>3. RowsInv' /\ \A r : Exists(r)' <=> Exists(r)
    BY <2>2 DEF RowsInv, Exists
  <2>4. \A x \in Slot : sessions'[x] # Idle =>
           Typed(sessions[x])' /\ Founding(sessions[x])' /\ Marked(sessions[x])'
    BY <2>2, <2>3, UnitsKept
  <2> QED BY <2>1, <2>2, <2>3, <2>4, QuietStep DEF StandingInv
<1> QED BY <1>1, <1>2, <1>3, <1>4, <1>5 DEF Next

\* Claims that rows grant at the start.
LEMMA FirstClaims ==
    ASSUME RowsInv, NEW c \in SignIns(db, {})
    PROVE  c \in [user : User, org : Org \cup {NoOrg}, role : Role] /\ ClaimKept(c)
<1>1. CASE \E u \in User, o \in Org : /\ o \in ActiveOrgs(db, u)
                                      /\ c = [user |-> u, org |-> o, role |-> db[M(u, o)].role]
  <2>1. PICK u \in User, o \in Org : /\ o \in ActiveOrgs(db, u)
                                     /\ c = [user |-> u, org |-> o, role |-> db[M(u, o)].role]
    BY <1>1
  <2>2. M(u, o) \in Rows /\ db[M(u, o)] # NoRow /\ o # NoOrg
    BY <2>1, RowsNamed, AccountsAssumption DEF ActiveOrgs
  <2>3. db[M(u, o)] \in MemberRow
    BY <2>2, RowSets DEF RowsInv
  <2>4. db[M(u, o)].role \in Role
    BY <2>3 DEF MemberRow
  <2> QED BY <2>1, <2>2, <2>4 DEF ClaimKept, Exists
<1>2. CASE \E u \in User : /\ db[U(u)] # NoRow /\ db[U(u)].superadmin
                           /\ c = [user |-> u, org |-> NoOrg, role |-> "SUPERADMIN"]
  BY <1>2 DEF ClaimKept, Exists, Role
<1> QED BY <1>1, <1>2 DEF SignIns

LEMMA StandingInit == Init => StandingInv
<1> SUFFICES ASSUME Init PROVE StandingInv
  OBVIOUS
<1>1. /\ \A r \in Rows : db[r] # NoRow => r \in DOMAIN BootRows /\ db[r] = BootRows[r]
      /\ DOMAIN db = Rows
      /\ \/ \A r \in Rows : db[r] = NoRow
         \/ db[O(Seeded)] = BootRows[O(Seeded)]
  BY RowsNamed, AccountsAssumption, BootContents DEF Init
<1>2. RowsInv
  <2>1. ASSUME NEW r \in Rows, db[r] # NoRow PROVE db[r] \in RowSet(r)
    <3>1. Furniture(r, db[r])
      BY <1>1, <2>1, BootFurniture
    <3> QED BY <3>1, FurnitureFits
  <2>2. ASSUME NEW u \in User, NEW o \in Org, Exists(M(u, o)) PROVE Exists(O(o))
    <3>1. M(u, o) \in Rows /\ O(Seeded) \in Rows
      BY RowsNamed, AccountsAssumption
    <3>2. M(u, o)[1] = "membership" /\ M(u, o)[3] = o /\ \A x : M(x, Seeded)[3] = Seeded
      BY RowNames
    <3>3. M(u, o) \in DOMAIN BootRows
      BY <1>1, <2>2, <3>1 DEF Exists
    <3>4. o = Seeded
      BY <3>2, <3>3, BootContents, RowNames
    <3>5. BootRows[O(Seeded)] = NewOrg
      BY BootContents, RowNames
    <3>6. db[O(o)] = NewOrg /\ NewOrg # NoRow
      BY <1>1, <2>2, <3>1, <3>4, <3>5, NewRows, RowsAssumption DEF Exists
    <3> QED BY <3>6 DEF Exists
  <2>3. served \in 0..MaxRequests
    BY AccountsAssumption DEF Init
  <2> QED BY <1>1, <2>1, <2>2, <2>3 DEF RowsInv
<1>3. ClaimsInv
  <2>1. \A c \in SignIns(db, {}) :
           c \in [user : User, org : Org \cup {NoOrg}, role : Role] /\ ClaimKept(c)
    BY <1>2, FirstClaims
  <2> QED BY <2>1 DEF Init, ClaimsInv
<1>6. SuspendedInv
  <2>1. ASSUME NEW r \in Rows, Exists(r), "status" \in DOMAIN db[r] PROVE db[r]["status"] = "ACTIVE"
    <3>1. Furniture(r, db[r])
      BY <1>1, <2>1, BootFurniture DEF Exists
    <3> QED BY <2>1, <3>1, FurnitureFits
  <2> QED BY <2>1 DEF SuspendedInv
<1>4. FoundedInv
  <2>1. DOMAIN trail = {}
    BY DEF Init
  <2>2. ASSUME NEW o \in Org \ {Seeded, Demo} PROVE ~Exists(O(o))
    <3>1. O(o)[1] = "organization" /\ O(o)[2] = o /\ O(Seeded)[2] = Seeded /\ O(o) \in Rows
      BY RowNames, RowsNamed
    <3>2. O(o) \notin DOMAIN BootRows
      BY <3>1, BootContents, RowNames
    <3> QED BY <1>1, <3>1, <3>2 DEF Exists
  <2> QED BY <2>1, <2>2 DEF FoundedInv
<1>5. \A s \in Slot : sessions[s] = Idle
  BY DEF Init
<1> QED BY <1>2, <1>3, <1>4, <1>5, <1>6, AccountsInit DEF StandingInv

LEMMA StandingInvariant == Spec => []StandingInv
  BY StandingInit, StandingStep, PTL DEF Spec

\* Every table holds rows with their columns and tokens name known accounts,
\* organizations and roles, whatever requests overlap.
THEOREM AccountTypes == Spec => []ATypeOK
<1>1. ASSUME StandingInv PROVE ATypeOK
  <2>1. RowsInv /\ \A c \in claims : c \in [user : User, org : Org \cup {NoOrg}, role : Role]
    BY <1>1 DEF StandingInv, ClaimsInv
  <2> QED BY <2>1, RowsNamed, RowSets DEF ATypeOK, RowsInv
<1> QED BY <1>1, StandingInvariant, PTL

\* No two requests for the same slug or address leave an organization without its
\* audit row, or a registration without its account and membership.
THEOREM OrganizationsFounded == Spec => []OrganizationsAreFounded
<1>1. ASSUME StandingInv PROVE OrganizationsAreFounded
  <2>1. FoundedInv
    BY <1>1 DEF StandingInv
  <2>2. ASSUME NEW i \in DOMAIN trail, trail[i].action = "ORG_CREATED"
        PROVE  /\ Exists(trail[i].row)
               /\ "admin" \in DOMAIN trail[i].after =>
                     /\ Exists(U(trail[i].after.admin))
                     /\ Exists(M(trail[i].after.admin, trail[i].row[2]))
    <3>1. PICK o \in Org :
             /\ trail[i].row = O(o) /\ Exists(O(o))
             /\ "admin" \in DOMAIN trail[i].after =>
                  \E u \in User : trail[i].after.admin = u /\ Exists(U(u)) /\ Exists(M(u, o))
      BY <2>1, <2>2 DEF FoundedInv
    <3>2. trail[i].row[2] = o
      BY <3>1, RowNames
    <3>3. ASSUME "admin" \in DOMAIN trail[i].after
          PROVE  Exists(U(trail[i].after.admin)) /\ Exists(M(trail[i].after.admin, trail[i].row[2]))
      BY <3>1, <3>2, <3>3
    <3> QED BY <3>1, <3>3
  <2> QED BY <2>1, <2>2 DEF OrganizationsAreFounded, FoundedInv
<1> QED BY <1>1, StandingInvariant, PTL

\* Whoever acts on a claim that its rows no longer grant, or that they would refuse
\* to one who is suspended, finds in the trail the row that changed them: for any
\* number of accounts and organizations, and requests in any order.
THEOREM StaleClaimsRecorded == Spec => []StaleClaimsAreOnRecord
<1>1. ASSUME StandingInv PROVE StaleClaimsAreOnRecord
  <2> SUFFICES ASSUME NEW c \in claims
               PROVE  /\ IF c.org = NoOrg
                         THEN \/ db[U(c.user)].superadmin
                              \/ \E i \in DOMAIN trail : /\ trail[i].action = "SUPERADMIN_CHANGED"
                                                         /\ trail[i].row = U(c.user)
                                                         /\ ~trail[i].after.superadmin
                         ELSE \/ db[M(c.user, c.org)].role = c.role
                              \/ \E i \in DOMAIN trail :
                                    /\ trail[i].action = "MEMBER_INVITED"
                                    /\ trail[i].row = M(c.user, c.org)
                                    /\ trail[i].after.role = db[M(c.user, c.org)].role
                              \/ /\ c.org = Demo /\ db[M(c.user, c.org)].role = DemoRole(c.user)
                                 /\ \E i \in DOMAIN trail : trail[i].action = "DEMO_SEEDED"
                      /\ \A r \in {U(c.user)} \cup (IF c.org = NoOrg THEN {}
                                                    ELSE {M(c.user, c.org), O(c.org)}) :
                            (Exists(r) /\ db[r].status = "SUSPENDED") =>
                               \E i \in DOMAIN trail : /\ trail[i].row = r
                                                       /\ "status" \in DOMAIN trail[i].after
                                                       /\ trail[i].after.status = "SUSPENDED"
    BY DEF StaleClaimsAreOnRecord
  <2>1. /\ c \in [user : User, org : Org \cup {NoOrg}, role : Role] /\ ClaimKept(c)
        /\ RowsInv /\ SuspendedInv
    BY <1>1 DEF StandingInv, ClaimsInv
  <2>2. ASSUME NEW r \in {U(c.user)} \cup (IF c.org = NoOrg THEN {} ELSE {M(c.user, c.org), O(c.org)}),
               Exists(r), db[r].status = "SUSPENDED"
        PROVE  \E i \in DOMAIN trail : Suspends(trail[i], r)
    <3>1. c.user \in User /\ (c.org # NoOrg => c.org \in Org)
      BY <2>1
    <3>2. r \in Rows /\ RowSet(r) \in {UserRow, MemberRow, OrgRow}
      BY <2>2, <3>1, RowsNamed, RowSets
    <3>3. "status" \in DOMAIN db[r]
      <4>1. db[r] \in RowSet(r)
        BY <2>1, <2>2, <3>2 DEF RowsInv, Exists
      <4>2. CASE RowSet(r) = UserRow
        BY <4>1, <4>2 DEF UserRow
      <4>3. CASE RowSet(r) = MemberRow
        BY <4>1, <4>3 DEF MemberRow
      <4>4. CASE RowSet(r) = OrgRow
        BY <4>1, <4>4 DEF OrgRow
      <4> QED BY <3>2, <4>2, <4>3, <4>4
    <3> QED BY <2>1, <2>2, <3>2, <3>3 DEF SuspendedInv
  <2> QED BY <2>1, <2>2 DEF ClaimKept, Suspends
<1> QED BY <1>1, StandingInvariant, PTL

-----------------------------------------------------------------------------
(* The audit trail of accounts and memberships, where the decisions about them *)
(* do not overlap.                                                             *)

LEMMA Largest ==
    ASSUME NEW n \in Nat, NEW S \in SUBSET (1..n), S # {}
    PROVE  Max(S) \in S /\ \A x \in S : Max(S) >= x
<1> DEFINE Less == {p \in Nat \X Nat : p[1] < p[2]}
           D    == {n - x : x \in S}
<1>1. IsWellFoundedOn(Less, Nat)
  BY NatLessThanWellFounded DEF OpToRel
<1>2. D \subseteq Nat /\ D # {}
  <2>1. \A x \in S : n - x \in Nat
    OBVIOUS
  <2>2. PICK x \in S : TRUE
    OBVIOUS
  <2>3. n - x \in D
    OBVIOUS
  <2> QED BY <2>1, <2>3
<1> HIDE DEF D
<1>3. PICK d \in D : \A y \in D : ~(<<y, d>> \in Less)
  <2> HIDE DEF Less
  <2> QED BY <1>1, <1>2, WFMin
<1>4. PICK m \in S : d = n - m
  BY <1>3 DEF D
<1>5. ASSUME NEW x \in S PROVE m >= x
  <2>1. n - x \in D
    BY DEF D
  <2>2. ~(n - x < n - m)
    BY <1>2, <1>3, <1>4, <2>1
  <2> QED BY <2>2
<1> QED BY <1>5 DEF Max

\* Told, of any trail.
ToldIn(t, r, c, n) ==
    LET about == {i \in 1..n : t[i].row = r /\ c \in DOMAIN Says(t[i])}
    IN  IF about = {} THEN Created[c] ELSE Says(t[Max(about)])[c]

LEMMA ToldOfTrail == \A r, c, n : Told(r, c, n) = ToldIn(trail, r, c, n)
  BY DEF Told, ToldIn

\* Later rows do not change what was told before.
LEMMA ToldBefore ==
    ASSUME NEW t, NEW q, NEW n \in Nat, \A i \in 1..n : q[i] = t[i], NEW r, NEW c
    PROVE  ToldIn(q, r, c, n) = ToldIn(t, r, c, n)
<1> DEFINE S == {i \in 1..n : t[i].row = r /\ c \in DOMAIN Says(t[i])}
<1>1. S = {i \in 1..n : q[i].row = r /\ c \in DOMAIN Says(q[i])}
  OBVIOUS
<1>2. S # {} => Max(S) \in 1..n
  BY Largest
<1>3. S # {} => q[Max(S)] = t[Max(S)]
  BY <1>2
<1> HIDE DEF S
<1>4. ToldIn(t, r, c, n) = IF S = {} THEN Created[c] ELSE Says(t[Max(S)])[c]
  BY DEF ToldIn, S
<1>5. ToldIn(q, r, c, n) = IF S = {} THEN Created[c] ELSE Says(q[Max(S)])[c]
  BY <1>1 DEF ToldIn
<1> QED BY <1>3, <1>4, <1>5

\* The last row tells, if it is about the column; otherwise the rows before it.
LEMMA ToldLast ==
    ASSUME NEW t, NEW n \in Nat, NEW r, NEW c
    PROVE  IF t[n + 1].row = r /\ c \in DOMAIN Says(t[n + 1])
           THEN ToldIn(t, r, c, n + 1) = Says(t[n + 1])[c]
           ELSE ToldIn(t, r, c, n + 1) = ToldIn(t, r, c, n)
<1> DEFINE S(k) == {i \in 1..k : t[i].row = r /\ c \in DOMAIN Says(t[i])}
<1>1. \A k : ToldIn(t, r, c, k) = IF S(k) = {} THEN Created[c] ELSE Says(t[Max(S(k))])[c]
  BY DEF ToldIn
<1>2. CASE t[n + 1].row = r /\ c \in DOMAIN Says(t[n + 1])
  <2>1. n + 1 \in S(n + 1) /\ S(n + 1) \in SUBSET (1..(n + 1))
    BY <1>2
  <2>2. Max(S(n + 1)) = n + 1
    <3> DEFINE R == S(n + 1)
    <3>1. R \in SUBSET (1..(n + 1)) /\ n + 1 \in R
      BY <2>1
    <3> HIDE DEF R
    <3>2. n + 1 \in Nat /\ R # {}
      BY <3>1
    <3>3. Max(R) \in R /\ \A x \in R : Max(R) >= x
      BY <3>1, <3>2, Largest
    <3>4. Max(R) \in 1..(n + 1) /\ Max(R) >= n + 1
      BY <3>1, <3>3
    <3>5. Max(R) = n + 1
      BY <3>4
    <3> QED BY <3>5 DEF R
  <2> QED BY <1>1, <1>2, <2>1, <2>2
<1>3. CASE ~(t[n + 1].row = r /\ c \in DOMAIN Says(t[n + 1]))
  <2>1. S(n + 1) = S(n)
    BY <1>3
  <2> QED BY <1>1, <1>3, <2>1
<1> QED BY <1>2, <1>3

\* What else holds of a unit while the trail can be replayed.
Trailing(unit) == Original(unit) /\ Audited(unit) /\ Truthful(unit)

LEMMA TrailParts ==
    ASSUME TrailInv
    PROVE  /\ StandingInv /\ RowsInv /\ Mentions /\ TrailTellsRows
           /\ \A x \in Slot : sessions[x] # Idle => Typed(sessions[x]) /\ Trailing(sessions[x])
  BY DEF TrailInv, StandingInv, Trailing

\* A column that the unit does not write keeps its value.
LEMMA ColumnKept ==
    ASSUME RowsInv, NEW s \in Slot, Commit(s), Typed(sessions[s]),
           NEW r \in Rows, r[1] # "api_key", Exists(r), NEW c, c \in DOMAIN db[r],
           r \in DOMAIN sessions[s].updates => c \notin DOMAIN sessions[s].updates[r]
    PROVE  Exists(r)' /\ c \in DOMAIN db'[r] /\ db'[r][c] = db[r][c]
<1> DEFINE unit == sessions[s]
<1>1. Exists(r)'
  BY Permanent
<1>2. \/ db'[r] = db[r]
      \/ r \in DOMAIN unit.updates /\ db'[r] = unit.updates[r] @@ db[r]
  BY RowAfter DEF Exists, Typed
<1>3. CASE db'[r] = db[r]
  BY <1>1, <1>3
<1>4. CASE r \in DOMAIN unit.updates /\ db'[r] = unit.updates[r] @@ db[r]
  BY <1>1, <1>4 DEF @@
<1> QED BY <1>2, <1>3, <1>4

\* Units that stay open while columns of the trail stay, or that say nothing of them.
LEMMA TrailingKept ==
    ASSUME TrailInv, NEW x \in Slot, sessions[x] # Idle, sessions'[x] = sessions[x],
           \A r \in Rows : r[1] # "api_key" /\ Exists(r) => Exists(r)',
           \/ sessions[x].op \notin Administrative
           \/ \A r \in Rows, c \in DOMAIN Created :
                 r[1] # "api_key" /\ Exists(r) /\ Column(r, c) /\ c \in DOMAIN db[r] =>
                   Exists(r)' /\ c \in DOMAIN db'[r] /\ db'[r][c] = db[r][c]
    PROVE  Trailing(sessions[x])'
<1> DEFINE unit == sessions[x]
<1>1. Original(unit) /\ Audited(unit) /\ Truthful(unit)
  BY TrailParts DEF Trailing
<1>2. Original(sessions[x])' /\ Audited(sessions[x])'
  BY <1>1 DEF Original, Audited, Column
<1>3. Truthful(sessions[x])'
  <2> DEFINE Backed(r, c, v) ==
               /\ unit.op \in Administrative
               /\ r \in Rows /\ r[1] # "api_key"
               /\ \/ /\ r \in DOMAIN unit.inserts /\ c \in DOMAIN unit.inserts[r]
                     /\ unit.inserts[r][c] = v
                  \/ /\ r \in DOMAIN unit.updates /\ c \in DOMAIN unit.updates[r]
                     /\ unit.updates[r][c] = v /\ Exists(r)
                  \/ /\ r \in DOMAIN unit.updates => c \notin DOMAIN unit.updates[r]
                     /\ Exists(r) /\ c \in DOMAIN db[r] /\ db[r][c] = v
  <2>0. \A i \in DOMAIN unit.audit : \A c \in DOMAIN Says(unit.audit[i]) :
           Column(unit.audit[i].row, c) => Backed(unit.audit[i].row, c, Says(unit.audit[i])[c])
    <3> HIDE DEF unit
    <3> QED BY <1>1 DEF Truthful
  <2>1. ASSUME NEW i \in DOMAIN unit.audit, NEW c \in DOMAIN Says(unit.audit[i]),
               NEW r, r = unit.audit[i].row, NEW v, v = Says(unit.audit[i])[c], Column(r, c)
        PROVE  /\ unit.op \in Administrative
               /\ r \in Rows /\ r[1] # "api_key"
               /\ \/ /\ r \in DOMAIN unit.inserts /\ c \in DOMAIN unit.inserts[r]
                     /\ unit.inserts[r][c] = v
                  \/ /\ r \in DOMAIN unit.updates /\ c \in DOMAIN unit.updates[r]
                     /\ unit.updates[r][c] = v /\ Exists(r)'
                  \/ /\ r \in DOMAIN unit.updates => c \notin DOMAIN unit.updates[r]
                     /\ Exists(r)' /\ c \in DOMAIN db'[r] /\ db'[r][c] = v
    <3>1. Backed(r, c, v)
      <4> HIDE DEF Backed
      <4> QED BY <2>0, <2>1
    <3>2. c \in DOMAIN Created
      BY <2>1 DEF Column
    <3>3. Exists(r) /\ c \in DOMAIN db[r] =>
             Exists(r)' /\ c \in DOMAIN db'[r] /\ db'[r][c] = db[r][c]
      BY <2>1, <3>1, <3>2
    <3> QED BY <3>1, <3>3
  <2>2. Len(unit.audit) \in {0, 1}
    BY <1>1 DEF Truthful
  <2>3. sessions'[x] = unit
    OBVIOUS
  <2> HIDE DEF unit
  <2> QED BY <2>1, <2>2, <2>3 DEF Truthful, Exists
<1> QED BY <1>2, <1>3 DEF Trailing

LEMMA TrailUnits ==
    ASSUME TrailInv, NEW s \in Slot, Commit(s), NEW x \in Slot, sessions'[x] # Idle
    PROVE  Trailing(sessions[x])'
<1> DEFINE unit == sessions[s]
<1>1. /\ sessions[x] # Idle /\ sessions'[x] = sessions[x] /\ x # s /\ unit # Idle
      /\ RowsInv /\ Typed(unit) /\ Audited(unit)
  BY TrailParts, Committed DEF Trailing
<1>2. \A r \in Rows : r[1] # "api_key" /\ Exists(r) => Exists(r)'
  BY <1>1, Permanent
<1>3. CASE unit.op \in Administrative
  <2>1. sessions[x].op \notin Administrative
    BY <1>1, <1>3 DEF TrailInv
  <2> QED BY <1>1, <1>2, <2>1, TrailingKept
<1>4. CASE unit.op \notin Administrative
  <2>1. ASSUME NEW r \in Rows, NEW c \in DOMAIN Created,
               r[1] # "api_key", Exists(r), Column(r, c), c \in DOMAIN db[r]
        PROVE  Exists(r)' /\ c \in DOMAIN db'[r] /\ db'[r][c] = db[r][c]
    <3>1. r \in DOMAIN unit.updates => c \notin DOMAIN unit.updates[r]
      BY <1>1, <1>4, <2>1 DEF Audited
    <3> QED BY <1>1, <2>1, <3>1, ColumnKept
  <2> QED BY <1>1, <1>2, <2>1, TrailingKept
<1> QED BY <1>3, <1>4

\* The trail after a commit, as it is told of.
LEMMA TrailGrows ==
    ASSUME StandingInv, NEW s \in Slot, Commit(s), Len(sessions[s].audit) \in {0, 1}
    PROVE  /\ Len(trail) \in Nat /\ DOMAIN trail = 1..Len(trail)
           /\ \A i \in 1..Len(trail) : trail'[i] = trail[i]
           /\ DOMAIN trail' = 1..Len(trail')
           /\ \/ Len(trail') = Len(trail) /\ DOMAIN sessions[s].audit = {}
              \/ /\ Len(trail') = Len(trail) + 1 /\ DOMAIN sessions[s].audit = {1}
                 /\ trail'[Len(trail) + 1] = sessions[s].audit[1]
<1> DEFINE new == sessions[s].audit
<1>1. trail' = trail \o new /\ IsSeq(trail) /\ IsSeq(new) /\ Len(new) \in {0, 1}
  BY Committed
<1> HIDE DEF new
<1>2. /\ Len(trail) \in Nat /\ DOMAIN trail = 1..Len(trail) /\ Len(new) \in Nat /\ DOMAIN new = 1..Len(new)
      /\ Len(trail') = Len(trail) + Len(new) /\ DOMAIN trail' = 1..(Len(trail) + Len(new))
      /\ \A i \in DOMAIN trail : i \in DOMAIN trail' /\ trail'[i] = trail[i]
      /\ \A i \in DOMAIN new : Len(trail) + i \in DOMAIN trail' /\ trail'[Len(trail) + i] = new[i]
  BY <1>1, Appended
<1>3. CASE Len(new) = 0
  BY <1>2, <1>3 DEF new
<1>4. CASE Len(new) = 1
  <2>1. Len(trail') = Len(trail) + 1 /\ DOMAIN new = {1} /\ trail'[Len(trail) + 1] = new[1]
    BY <1>2, <1>4
  <2> QED BY <1>2, <2>1 DEF new
<1> QED BY <1>1, <1>3, <1>4

\* A row of the trail was there, or is the one the unit brings.
LEMMA RowOfTrail ==
    ASSUME StandingInv, NEW s \in Slot, Commit(s), Len(sessions[s].audit) \in {0, 1},
           NEW i \in DOMAIN trail'
    PROVE  \/ i \in DOMAIN trail /\ trail'[i] = trail[i]
           \/ 1 \in DOMAIN sessions[s].audit /\ trail'[i] = sessions[s].audit[1]
<1> DEFINE new == sessions[s].audit
<1>1. i \in DOMAIN trail => trail'[i] = trail[i]
  BY TrailAfter
<1>2. \A j \in DOMAIN new : trail'[Len(trail) + j] = new[j]
  BY TrailAfter
<1>3. i \in DOMAIN trail \/ \E j \in DOMAIN new : i = Len(trail) + j
  BY TrailAfter
<1>4. DOMAIN new = {} \/ DOMAIN new = {1}
  BY TrailGrows
<1> HIDE DEF new
<1>5. ASSUME NEW j \in DOMAIN new, i = Len(trail) + j PROVE 1 \in DOMAIN new /\ trail'[i] = new[1]
  <2>1. j = 1
    BY <1>4
  <2> QED BY <1>2, <1>5, <2>1
<1> QED BY <1>1, <1>3, <1>5 DEF new

\* A column after a commit is what is told then.
LEMMA ColumnTold ==
    ASSUME TrailInv, NEW s \in Slot, Commit(s), NEW r \in Rows, NEW c, Column(r, c),
           db'[r] # NoRow, c \in DOMAIN db'[r]
    PROVE  db'[r][c] = ToldIn(trail', r, c, Len(trail'))
<1> DEFINE unit == sessions[s]
           new  == unit.audit
           n    == Len(trail)
<1>1. /\ RowsInv /\ Typed(unit) /\ Original(unit) /\ Audited(unit) /\ Truthful(unit)
      /\ Mentions /\ TrailTellsRows /\ c \in DOMAIN Created
  BY TrailParts, Committed DEF Trailing, Column
<1>2. /\ n \in Nat /\ DOMAIN trail = 1..n
      /\ \A i \in 1..n : trail'[i] = trail[i]
      /\ \/ Len(trail') = n /\ DOMAIN new = {}
         \/ Len(trail') = n + 1 /\ DOMAIN new = {1} /\ trail'[n + 1] = new[1]
  BY TrailParts, <1>1, TrailGrows DEF Trailing, Truthful
<1>3. ToldIn(trail', r, c, n) = ToldIn(trail, r, c, n)
  <2>1. \A t, q, k : k \in Nat /\ (\A i \in 1..k : q[i] = t[i]) => ToldIn(q, r, c, k) = ToldIn(t, r, c, k)
    BY ToldBefore
  <2>2. n \in Nat /\ \A i \in 1..n : trail'[i] = trail[i]
    BY <1>2
  <2> HIDE DEF n
  <2> QED BY <2>1, <2>2
<1>4. IF trail'[n + 1].row = r /\ c \in DOMAIN Says(trail'[n + 1])
      THEN ToldIn(trail', r, c, n + 1) = Says(trail'[n + 1])[c]
      ELSE ToldIn(trail', r, c, n + 1) = ToldIn(trail', r, c, n)
  BY <1>2, ToldLast
<1>5. CASE 1 \in DOMAIN new /\ new[1].row = r /\ c \in DOMAIN Says(new[1])
  <2>1. ToldIn(trail', r, c, Len(trail')) = Says(new[1])[c]
    BY <1>2, <1>4, <1>5
  <2>2. /\ r[1] # "api_key"
        /\ \/ /\ r \in DOMAIN unit.inserts /\ c \in DOMAIN unit.inserts[r]
              /\ unit.inserts[r][c] = Says(new[1])[c]
           \/ /\ r \in DOMAIN unit.updates /\ c \in DOMAIN unit.updates[r]
              /\ unit.updates[r][c] = Says(new[1])[c] /\ Exists(r)
           \/ /\ r \in DOMAIN unit.updates => c \notin DOMAIN unit.updates[r]
              /\ Exists(r) /\ c \in DOMAIN db[r] /\ db[r][c] = Says(new[1])[c]
    BY <1>1, <1>5 DEF Truthful
  <2>3. CASE r \in DOMAIN unit.inserts
    <3>1. db'[r] = unit.inserts[r] /\ ~Exists(r)
      BY <1>1, <2>3, RowAfter DEF Exists
    <3> QED BY <2>1, <2>2, <3>1
  <2>4. CASE /\ r \in DOMAIN unit.updates /\ c \in DOMAIN unit.updates[r]
             /\ unit.updates[r][c] = Says(new[1])[c] /\ Exists(r)
    <3>1. db'[r] = unit.updates[r] @@ db[r]
      BY <1>1, <2>2, <2>4, RowAfter DEF Exists, Typed
    <3> QED BY <2>1, <2>4, <3>1 DEF @@
  <2>5. CASE /\ r \in DOMAIN unit.updates => c \notin DOMAIN unit.updates[r]
             /\ Exists(r) /\ c \in DOMAIN db[r] /\ db[r][c] = Says(new[1])[c]
    BY <1>1, <2>1, <2>2, <2>5, ColumnKept
  <2> QED BY <2>2, <2>3, <2>4, <2>5
<1>6. CASE ~(1 \in DOMAIN new /\ new[1].row = r /\ c \in DOMAIN Says(new[1]))
  <2>1. ToldIn(trail', r, c, Len(trail')) = ToldIn(trail, r, c, n)
    BY <1>2, <1>3, <1>4, <1>6
  <2>2. r \in DOMAIN unit.updates => c \notin DOMAIN unit.updates[r]
    BY <1>1, <1>2, <1>6 DEF Audited
  <2>3. CASE r \in DOMAIN unit.inserts
    <3>1. db'[r] = unit.inserts[r] /\ ~Exists(r)
      BY <1>1, <2>3, RowAfter DEF Exists
    <3>2. db'[r][c] = Created[c]
      BY <1>1, <2>3, <3>1 DEF Original
    <3>3. \A i \in 1..n : ~(trail[i].row = r /\ c \in DOMAIN Says(trail[i]))
      BY <1>1, <1>2, <3>1 DEF Mentions
    <3>4. ToldIn(trail, r, c, n) = Created[c]
      BY <3>3 DEF ToldIn
    <3> QED BY <2>1, <3>2, <3>4
  <2>4. CASE r \notin DOMAIN unit.inserts
    <3>1. Exists(r) /\ db[r] # NoRow /\ r \notin unit.deletes
      BY <1>1, <2>4, RowAfter DEF Exists
    <3>2. c \in DOMAIN db[r] /\ db'[r][c] = db[r][c]
      <4>1. CASE r \in DOMAIN unit.updates
        <5>1. db'[r] = unit.updates[r] @@ db[r]
          BY <1>1, <2>4, <3>1, <4>1, RowAfter
        <5> QED BY <2>2, <4>1, <5>1 DEF @@
      <4>2. CASE r \notin DOMAIN unit.updates
        BY <1>1, <2>4, <3>1, <4>2, RowAfter
      <4> QED BY <4>1, <4>2
    <3>3. db[r][c] = Told(r, c, n)
      <4>1. r \in Rows \ {O(o) : o \in Org}
        BY Organizations DEF Column
      <4> QED BY <1>1, <3>1, <3>2, <4>1 DEF TrailTellsRows, Column
    <3> QED BY <2>1, <3>2, <3>3, ToldOfTrail
  <2> QED BY <2>3, <2>4
<1> QED BY <1>5, <1>6

LEMMA TrailCommit ==
    ASSUME TrailInv, NEW s \in Slot, Commit(s)
    PROVE  TrailInv'
<1> DEFINE unit == sessions[s]
           new  == unit.audit
           n    == Len(trail)
<1>1. /\ StandingInv /\ RowsInv /\ Typed(unit) /\ Trailing(unit)
      /\ Mentions /\ TrailTellsRows
      /\ \A x \in Slot : sessions'[x] # Idle => sessions'[x] = sessions[x] /\ x # s /\ sessions[x] # Idle
  BY TrailParts, Committed
<1>2. /\ n \in Nat /\ DOMAIN trail = 1..n /\ DOMAIN trail' = 1..Len(trail')
      /\ \A i \in 1..n : trail'[i] = trail[i]
      /\ \/ Len(trail') = n /\ DOMAIN new = {}
         \/ Len(trail') = n + 1 /\ DOMAIN new = {1} /\ trail'[n + 1] = new[1]
  BY TrailParts, <1>1, TrailGrows DEF Trailing, Truthful
<1>3. \A i \in DOMAIN trail' :
         \/ i \in DOMAIN trail /\ trail'[i] = trail[i]
         \/ 1 \in DOMAIN new /\ trail'[i] = new[1]
  BY <1>1, RowOfTrail DEF Trailing, Truthful
<1>4. StandingInv'
  BY <1>1, StandCommit
<1>5. Mentions'
  <2>1. ASSUME NEW i \in DOMAIN trail', NEW r, r = trail'[i].row,
               NEW c \in DOMAIN Says(trail'[i]), Column(r, c)
        PROVE  r \in Rows /\ r[1] # "api_key" /\ Exists(r)'
    <3>1. CASE i \in DOMAIN trail /\ trail'[i] = trail[i]
      <4>1. r \in Rows /\ r[1] # "api_key" /\ Exists(r)
        BY <1>1, <2>1, <3>1 DEF Mentions
      <4> QED BY <1>1, <4>1, Permanent
    <3>2. CASE 1 \in DOMAIN new /\ trail'[i] = new[1]
      <4>1. /\ r \in Rows /\ r[1] # "api_key"
            /\ r \in DOMAIN unit.inserts \/ Exists(r)
        BY <1>1, <2>1, <3>2 DEF Trailing, Truthful
      <4>2. CASE r \in DOMAIN unit.inserts
        BY <1>1, <4>1, <4>2, RowAfter, NoRowApart DEF Exists, Typed
      <4>3. CASE Exists(r)
        BY <1>1, <4>1, <4>3, Permanent
      <4> QED BY <4>1, <4>2, <4>3
    <3> QED BY <1>3, <3>1, <3>2
  <2> QED BY <2>1 DEF Mentions, Exists
<1>6. TrailTellsRows'
  <2>1. ASSUME NEW r \in Rows \ {O(o) : o \in Org}, NEW c \in DOMAIN Created, db'[r] # NoRow,
               <<r, c>> # <<U(Owner), "superadmin">>, c \in DOMAIN db'[r]
        PROVE  db'[r][c] = Told(r, c, Len(trail))'
    <3>1. Column(r, c)
      BY <2>1, Organizations DEF Column
    <3>2. db'[r][c] = ToldIn(trail', r, c, Len(trail'))
      BY <2>1, <3>1, ColumnTold
    <3> QED BY <3>2 DEF Told, ToldIn
  <2> QED BY <2>1 DEF TrailTellsRows
<1>7. \A x \in Slot : sessions'[x] # Idle => Trailing(sessions[x])'
  BY TrailUnits
<1>8. \A x, t \in Slot :
         /\ sessions'[x] # Idle /\ sessions'[t] # Idle
         /\ sessions'[x].op \in Administrative /\ sessions'[t].op \in Administrative
         => x = t
  BY <1>1 DEF TrailInv
<1> QED BY <1>4, <1>5, <1>6, <1>7, <1>8 DEF TrailInv, Trailing

\* A key has no column that the trail tells of.
LEMMA KeysApart ==
    ASSUME NEW r, r[1] = "api_key", NEW row \in RowSet(r), NEW c, c \in DOMAIN row
    PROVE  c \notin DOMAIN Created
<1>1. row \in KeyRow
  BY DEF RowSet
<1> QED BY <1>1 DEF KeyRow, Created

\* A step that writes no audit row and no row but keys.
LEMMA TrailQuiet ==
    ASSUME TrailInv, StandingInv', trail' = trail,
           \A r \in Rows : (Exists(r) <=> Exists(r)') /\ (r[1] # "api_key" => db'[r] = db[r]),
           \A x \in Slot : sessions'[x] # Idle => Trailing(sessions[x])',
           \A x, t \in Slot :
              /\ sessions'[x] # Idle /\ sessions'[t] # Idle
              /\ sessions'[x].op \in Administrative /\ sessions'[t].op \in Administrative
              => x = t
    PROVE  TrailInv'
<1>1. Mentions /\ TrailTellsRows /\ RowsInv'
  BY TrailParts DEF StandingInv
<1>2. Mentions'
  <2>1. ASSUME NEW i \in DOMAIN trail, NEW c \in DOMAIN Says(trail[i]), Column(trail[i].row, c)
        PROVE  trail[i].row \in Rows /\ trail[i].row[1] # "api_key" /\ Exists(trail[i].row)'
    BY <1>1, <2>1 DEF Mentions
  <2> QED BY <2>1 DEF Mentions
<1>3. TrailTellsRows'
  <2>1. ASSUME NEW r \in Rows \ {O(o) : o \in Org}, NEW c \in DOMAIN Created, db'[r] # NoRow,
               <<r, c>> # <<U(Owner), "superadmin">>, c \in DOMAIN db'[r]
        PROVE  db'[r][c] = Told(r, c, Len(trail))'
    <3>1. db'[r] \in RowSet(r)
      BY <1>1, <2>1 DEF RowsInv
    <3>2. r[1] # "api_key"
      BY <2>1, <3>1, KeysApart
    <3>3. db'[r] = db[r]
      BY <3>2
    <3>4. db[r][c] = Told(r, c, Len(trail))
      BY <1>1, <2>1, <3>3 DEF TrailTellsRows
    <3> QED BY <3>3, <3>4 DEF Told
  <2> QED BY <2>1 DEF TrailTellsRows
<1> QED BY <1>2, <1>3 DEF TrailInv, Trailing

LEMMA TrailBegun ==
    ASSUME TrailInv, StandingInv', Administrative \subseteq Serial,
           NEW s \in Slot, NEW unit, Begin(s, unit), Fit(unit)
    PROVE  TrailInv'
<1>1. /\ sessions' = [sessions EXCEPT ![s] = unit] /\ UNCHANGED <<db, trail>>
      /\ unit.op \in Serial => \A x \in Slot : sessions[x] # Idle => sessions[x].op \notin Serial
      /\ AccountsInv
  BY DEF Begin, Open, TrailInv, StandingInv
<1>2. \A x \in Slot : sessions'[x] = IF x = s THEN unit ELSE sessions[x]
  BY <1>1 DEF AccountsInv
<1>3. \A r : (Exists(r) <=> Exists(r)') /\ db'[r] = db[r]
  BY <1>1 DEF Exists
<1>4. ASSUME NEW x \in Slot, sessions'[x] # Idle PROVE Trailing(sessions[x])'
  <2>1. CASE x # s
    BY <1>2, <1>3, <1>4, <2>1, TrailingKept
  <2>2. CASE x = s
    <3>1. Original(unit) /\ Audited(unit) /\ Truthful(unit) /\ sessions'[x] = unit
      BY <1>2, <2>2 DEF Fit
    <3>2. Original(sessions[x])' /\ Audited(sessions[x])'
      BY <3>1 DEF Original, Audited, Column
    <3>3. Truthful(sessions[x])'
      <4>1. \A r, c : Exists(r)' = Exists(r) /\ db'[r] = db[r] /\ Column(r, c)' = Column(r, c)
        BY <1>1 DEF Exists, Column
      <4>2. \A e : Says(e)' = Says(e)
        BY DEF Says
      <4> QED BY <3>1, <4>1, <4>2, SMTT(30) DEF Truthful
    <3> QED BY <3>2, <3>3 DEF Trailing
  <2> QED BY <2>1, <2>2
<1>5. ASSUME NEW x \in Slot, NEW t \in Slot, sessions'[x] # Idle, sessions'[t] # Idle,
             sessions'[x].op \in Administrative, sessions'[t].op \in Administrative
      PROVE  x = t
  <2>1. CASE x # s /\ t # s
    BY <1>2, <1>5, <2>1 DEF TrailInv
  <2>2. CASE x = s \/ t = s
    BY <1>1, <1>2, <1>5, <2>2
  <2> QED BY <2>1, <2>2
<1> QED BY <1>1, <1>3, <1>4, <1>5, TrailQuiet

LEMMA TrailRefuse ==
    ASSUME TrailInv, StandingInv', NEW s \in Slot, Refuse(s)
    PROVE  TrailInv'
<1>1. sessions' = [sessions EXCEPT ![s] = Idle] /\ UNCHANGED <<db, trail>> /\ AccountsInv
  BY DEF Refuse, Rollback, TrailInv, StandingInv
<1>2. \A x \in Slot : sessions'[x] # Idle => sessions'[x] = sessions[x]
  BY <1>1 DEF AccountsInv
<1>3. \A r : (Exists(r) <=> Exists(r)') /\ db'[r] = db[r]
  BY <1>1 DEF Exists
<1>4. \A x \in Slot : sessions'[x] # Idle => Trailing(sessions[x])'
  BY <1>2, <1>3, TrailingKept
<1>5. \A x, t \in Slot :
         /\ sessions'[x] # Idle /\ sessions'[t] # Idle
         /\ sessions'[x].op \in Administrative /\ sessions'[t].op \in Administrative
         => x = t
  BY <1>2 DEF TrailInv
<1> QED BY <1>1, <1>3, <1>4, <1>5, TrailQuiet

LEMMA TrailExpiry ==
    ASSUME TrailInv, StandingInv', NEW k \in Key, KeyExpires(k)
    PROVE  TrailInv'
<1>1. /\ UNCHANGED <<trail, sessions>>
      /\ \A r \in Rows : (Exists(r) <=> Exists(r)') /\ (r[1] # "api_key" => db'[r] = db[r])
  BY TrailParts, AfterExpiry
<1>2. \A x \in Slot : sessions'[x] # Idle => Trailing(sessions[x])'
  BY <1>1, TrailingKept
<1>3. \A x, t \in Slot :
         /\ sessions'[x] # Idle /\ sessions'[t] # Idle
         /\ sessions'[x].op \in Administrative /\ sessions'[t].op \in Administrative
         => x = t
  BY <1>1 DEF TrailInv
<1> QED BY <1>1, <1>2, <1>3, TrailQuiet

LEMMA TrailInit == Init => TrailInv
<1> SUFFICES ASSUME Init PROVE TrailInv
  OBVIOUS
<1>1. StandingInv /\ trail = <<>> /\ \A s \in Slot : sessions[s] = Idle
  BY StandingInit DEF Init
<1>2. DOMAIN trail = {} /\ Len(trail) = 0
  BY <1>1
<1>3. TrailTellsRows
  <2>1. ASSUME NEW r \in Rows \ {O(o) : o \in Org}, NEW c \in DOMAIN Created, db[r] # NoRow,
               <<r, c>> # <<U(Owner), "superadmin">>, c \in DOMAIN db[r]
        PROVE  db[r][c] = Told(r, c, Len(trail))
    <3>1. r \in DOMAIN BootRows /\ db[r] = BootRows[r]
      BY <2>1, RowsNamed, BootContents DEF Init
    <3>2. db[r][c] = Created[c]
      BY <2>1, <3>1, Organizations, BootFurniture, FurnitureFits DEF Column
    <3>3. {i \in 1..Len(trail) : trail[i].row = r /\ c \in DOMAIN Says(trail[i])} = {}
      BY <1>2
    <3> QED BY <3>2, <3>3 DEF Told
  <2> QED BY <2>1 DEF TrailTellsRows
<1> QED BY <1>1, <1>2, <1>3 DEF TrailInv, Mentions

LEMMA TrailStep ==
    ASSUME Administrative \subseteq Serial, TrailInv, [Next]_aVars
    PROVE  TrailInv'
<1>0. StandingInv /\ StandingInv'
  BY StandingStep DEF TrailInv
<1>1. ASSUME NEW s \in Slot, Requests(s) PROVE TrailInv'
  BY <1>0, <1>1, RequestOpens, TrailBegun DEF Opens
<1>2. ASSUME NEW s \in Slot, Commit(s) PROVE TrailInv'
  BY <1>2, TrailCommit
<1>3. ASSUME NEW s \in Slot, Refuse(s) PROVE TrailInv'
  BY <1>0, <1>3, TrailRefuse
<1>4. ASSUME NEW k \in Key, KeyExpires(k) PROVE TrailInv'
  BY <1>0, <1>4, TrailExpiry
<1>5. CASE UNCHANGED aVars
  <2>1. UNCHANGED <<db, trail, sessions>>
    BY <1>5 DEF aVars
  <2>2. \A r : (Exists(r) <=> Exists(r)') /\ db'[r] = db[r]
    BY <2>1 DEF Exists
  <2>3. \A x \in Slot : sessions'[x] # Idle => Trailing(sessions[x])'
    BY <2>1, <2>2, TrailingKept
  <2>4. \A x, t \in Slot :
           /\ sessions'[x] # Idle /\ sessions'[t] # Idle
           /\ sessions'[x].op \in Administrative /\ sessions'[t].op \in Administrative
           => x = t
    BY <2>1 DEF TrailInv
  <2> QED BY <1>0, <2>1, <2>2, <2>3, <2>4, TrailQuiet
<1> QED BY <1>1, <1>2, <1>3, <1>4, <1>5 DEF Next

\* The audit trail can be replayed: where decisions about members and accounts do
\* not overlap each other, the status and the flag of every account and the status
\* of every membership are what the last audit row about them says.  Requests of any
\* other kind may overlap them.
THEOREM TrailReplays ==
    ASSUME Administrative \subseteq Serial
    PROVE  Spec => []TrailTellsRows
<1>1. TrailInv /\ [Next]_aVars => TrailInv'
  BY TrailStep
<1>2. TrailInv => TrailTellsRows
  BY DEF TrailInv
<1> QED BY <1>1, <1>2, TrailInit, PTL DEF Spec

-----------------------------------------------------------------------------
(* The history of organizations, for requests that overlap in any way.        *)

\* Known and Unbroken, of any trail.
KnownIn(t, r, c, v, n) ==
    \/ v = Created[c]
    \/ \E i \in 1..n : t[i].row = r /\ c \in DOMAIN Says(t[i]) /\ Says(t[i])[c] = v

UnbrokenIn(t, r, c) ==
    \A i \in DOMAIN t : (t[i].row = r /\ c \in DOMAIN Says(t[i])) =>
        c \in DOMAIN t[i].before /\ t[i].before[c] = ToldIn(t, r, c, i - 1)

\* What a trail has to do with the value of a column.
HistoryOf(t, r, c, v) ==
    /\ UnbrokenIn(t, r, c) => v = ToldIn(t, r, c, Len(t))
    /\ KnownIn(t, r, c, v, Len(t))
    /\ \A i \in DOMAIN t : (t[i].row = r /\ c \in DOMAIN t[i].before) =>
          KnownIn(t, r, c, t[i].before[c], i - 1)

\* What an audit row that is to be written remembers was known when it was read.
Recalls(unit) ==
    \A i \in DOMAIN unit.audit, o \in Org, c \in OrgColumn :
        (unit.audit[i].row = O(o) /\ c \in DOMAIN unit.audit[i].before) =>
            KnownIn(trail, O(o), c, unit.audit[i].before[c], Len(trail))

\* The trail says of organizations only what concerns those that are there.
OrgMentions ==
    \A i \in DOMAIN trail, o \in Org, c \in OrgColumn :
        (trail[i].row = O(o) /\ (c \in DOMAIN Says(trail[i]) \/ c \in DOMAIN trail[i].before)) =>
            Exists(O(o))

HistoryInv ==
    /\ StandingInv /\ OrgMentions
    /\ \A o \in Org, c \in OrgColumn : Exists(O(o)) => HistoryOf(trail, O(o), c, db[O(o)][c])
    /\ \A s \in Slot : sessions[s] # Idle => Historical(sessions[s]) /\ Recalls(sessions[s])

LEMMA KnownLater ==
    ASSUME NEW n \in Nat, NEW m \in Nat, n <= m, NEW t, NEW q, \A i \in 1..n : q[i] = t[i],
           NEW r, NEW c, NEW v, KnownIn(t, r, c, v, n)
    PROVE  KnownIn(q, r, c, v, m)
<1>1. CASE v = Created[c]
  BY <1>1 DEF KnownIn
<1>2. CASE \E i \in 1..n : t[i].row = r /\ c \in DOMAIN Says(t[i]) /\ Says(t[i])[c] = v
  <2>1. PICK i \in 1..n : t[i].row = r /\ c \in DOMAIN Says(t[i]) /\ Says(t[i])[c] = v
    BY <1>2
  <2>2. i \in 1..m /\ q[i] = t[i]
    OBVIOUS
  <2> QED BY <2>1, <2>2 DEF KnownIn
<1> QED BY <1>1, <1>2 DEF KnownIn

\* A column of which the trail does not speak is as it was created.
LEMMA HistoryFresh ==
    ASSUME NEW t, Len(t) \in Nat, DOMAIN t = 1..Len(t), NEW r, NEW c,
           \A i \in DOMAIN t : t[i].row = r => c \notin DOMAIN Says(t[i]) /\ c \notin DOMAIN t[i].before
    PROVE  HistoryOf(t, r, c, Created[c])
<1>1. {i \in 1..Len(t) : t[i].row = r /\ c \in DOMAIN Says(t[i])} = {}
  OBVIOUS
<1>2. ToldIn(t, r, c, Len(t)) = Created[c]
  BY <1>1 DEF ToldIn
<1> QED BY <1>2 DEF HistoryOf, KnownIn

\* The same rows have the same history.
LEMMA HistoryAgain ==
    ASSUME NEW t, NEW q, Len(t) \in Nat, DOMAIN t = 1..Len(t), DOMAIN q = DOMAIN t, Len(q) = Len(t),
           \A i \in DOMAIN t : q[i] = t[i], NEW r, NEW c, NEW v, HistoryOf(t, r, c, v)
    PROVE  HistoryOf(q, r, c, v)
<1> DEFINE n == Len(t)
<1>0. n \in Nat /\ \A i \in 1..n : q[i] = t[i]
  OBVIOUS
<1>1. \A k \in 0..n : ToldIn(q, r, c, k) = ToldIn(t, r, c, k)
  <2> SUFFICES ASSUME NEW k \in 0..n PROVE ToldIn(q, r, c, k) = ToldIn(t, r, c, k)
    OBVIOUS
  <2>1. k \in Nat /\ \A i \in 1..k : q[i] = t[i]
    BY <1>0
  <2> HIDE DEF n
  <2> QED BY <2>1, ToldBefore
<1>2. \A k \in 0..n : \A x : KnownIn(t, r, c, x, k) => KnownIn(q, r, c, x, k)
  <2> SUFFICES ASSUME NEW k \in 0..n, NEW w, KnownIn(t, r, c, w, k) PROVE KnownIn(q, r, c, w, k)
    OBVIOUS
  <2>1. k \in Nat /\ k <= k /\ \A i \in 1..k : q[i] = t[i]
    BY <1>0
  <2> HIDE DEF n
  <2> QED BY <2>1, KnownLater
<1>3. \A i \in 1..n : i - 1 \in 0..n
  BY <1>0
<1>4. n \in 0..n
  BY <1>0
<1>5. UnbrokenIn(q, r, c) => UnbrokenIn(t, r, c)
  BY <1>0, <1>1, <1>3 DEF UnbrokenIn
<1> QED BY <1>0, <1>1, <1>2, <1>3, <1>4, <1>5 DEF HistoryOf

\* One row more: it says what the column is now, or it found it as it is now.
LEMMA HistoryGrows ==
    ASSUME NEW n \in Nat, NEW t, Len(t) = n, DOMAIN t = 1..n,
           NEW q, Len(q) = n + 1, DOMAIN q = 1..(n + 1), \A i \in 1..n : q[i] = t[i],
           NEW r, NEW c, NEW v, NEW w, HistoryOf(t, r, c, v),
           q[n + 1].row = r /\ c \in DOMAIN q[n + 1].before => KnownIn(t, r, c, q[n + 1].before[c], n),
           IF q[n + 1].row = r /\ c \in DOMAIN Says(q[n + 1])
           THEN /\ c \in DOMAIN q[n + 1].before
                /\ \/ w = Says(q[n + 1])[c]
                   \/ w = v /\ q[n + 1].before[c] = Says(q[n + 1])[c]
           ELSE w = v
    PROVE  HistoryOf(q, r, c, w)
<1>1. \A k \in 0..n : ToldIn(q, r, c, k) = ToldIn(t, r, c, k)
  <2> SUFFICES ASSUME NEW k \in 0..n PROVE ToldIn(q, r, c, k) = ToldIn(t, r, c, k)
    OBVIOUS
  <2>1. k \in Nat /\ \A i \in 1..k : q[i] = t[i]
    OBVIOUS
  <2> QED BY <2>1, ToldBefore
<1>2. \A k \in 0..n, m \in 0..(n + 1) : \A x : k <= m /\ KnownIn(t, r, c, x, k) => KnownIn(q, r, c, x, m)
  <2> SUFFICES ASSUME NEW k \in 0..n, NEW m \in 0..(n + 1), NEW x, k <= m, KnownIn(t, r, c, x, k)
               PROVE  KnownIn(q, r, c, x, m)
    OBVIOUS
  <2>1. k \in Nat /\ m \in Nat /\ \A i \in 1..k : q[i] = t[i]
    OBVIOUS
  <2> QED BY <2>1, KnownLater
<1>3. /\ n \in 0..n /\ n + 1 \in 0..(n + 1) /\ n \in 0..(n + 1) /\ n <= n + 1 /\ (n + 1) - 1 = n
      /\ \A i \in 1..n : i - 1 \in 0..n /\ i - 1 \in 0..(n + 1) /\ i - 1 <= i - 1
      /\ \A i \in 1..(n + 1) : i \in 1..n \/ i = n + 1
      /\ n + 1 \in 1..(n + 1) /\ \A i \in 1..n : i \in 1..(n + 1)
  OBVIOUS
<1>4. UnbrokenIn(q, r, c) => UnbrokenIn(t, r, c)
  BY <1>1, <1>3 DEF UnbrokenIn
<1>5. ASSUME NEW i \in DOMAIN q, q[i].row = r, c \in DOMAIN q[i].before
      PROVE  KnownIn(q, r, c, q[i].before[c], i - 1)
  <2>1. CASE i \in 1..n
    <3>1. KnownIn(t, r, c, t[i].before[c], i - 1) /\ q[i] = t[i]
      BY <1>5, <2>1 DEF HistoryOf
    <3>2. i - 1 \in 0..n /\ i - 1 \in 0..(n + 1) /\ i - 1 <= i - 1
      BY <1>3, <2>1
    <3> QED BY <1>2, <3>1, <3>2
  <2>2. CASE i = n + 1
    <3>1. KnownIn(t, r, c, q[i].before[c], n)
      BY <1>5, <2>2
    <3>2. KnownIn(q, r, c, q[i].before[c], n)
      <4>1. n <= n
        OBVIOUS
      <4> QED BY <1>2, <1>3, <3>1, <4>1
    <3> QED BY <1>3, <2>2, <3>2
  <2> QED BY <1>3, <1>5, <2>1, <2>2
<1>6. IF q[n + 1].row = r /\ c \in DOMAIN Says(q[n + 1])
      THEN ToldIn(q, r, c, n + 1) = Says(q[n + 1])[c]
      ELSE ToldIn(q, r, c, n + 1) = ToldIn(q, r, c, n)
  BY ToldLast
<1>7. ASSUME UnbrokenIn(q, r, c) PROVE w = ToldIn(q, r, c, n + 1)
  <2>1. v = ToldIn(t, r, c, n) /\ ToldIn(q, r, c, n) = ToldIn(t, r, c, n)
    BY <1>1, <1>3, <1>4, <1>7 DEF HistoryOf
  <2>2. CASE ~(q[n + 1].row = r /\ c \in DOMAIN Says(q[n + 1]))
    BY <1>6, <2>1, <2>2
  <2>3. CASE q[n + 1].row = r /\ c \in DOMAIN Says(q[n + 1])
    <3>1. q[n + 1].before[c] = ToldIn(q, r, c, n)
      BY <1>3, <1>7, <2>3 DEF UnbrokenIn
    <3> QED BY <1>6, <2>1, <2>3, <3>1
  <2> QED BY <2>2, <2>3
<1>8. KnownIn(q, r, c, w, n + 1)
  <2>1. KnownIn(q, r, c, v, n + 1)
    BY <1>2, <1>3 DEF HistoryOf
  <2>2. CASE w = v
    BY <2>1, <2>2
  <2>3. CASE w # v
    <3>1. q[n + 1].row = r /\ c \in DOMAIN Says(q[n + 1]) /\ Says(q[n + 1])[c] = w
      BY <2>3
    <3> QED BY <1>3, <3>1 DEF KnownIn
  <2> QED BY <2>2, <2>3
<1> QED BY <1>5, <1>7, <1>8 DEF HistoryOf

\* Units that stay open while the trail grows and no organization goes.
LEMMA HistoricalKept ==
    ASSUME HistoryInv, NEW x \in Slot, sessions[x] # Idle, sessions'[x] = sessions[x],
           \A o \in Org : Exists(O(o)) => Exists(O(o))',
           Len(trail) \in Nat, Len(trail') \in Nat, Len(trail) <= Len(trail'),
           \A i \in 1..Len(trail) : trail'[i] = trail[i]
    PROVE  Historical(sessions[x])' /\ Recalls(sessions[x])'
<1> DEFINE unit == sessions[x]
<1>1. Historical(unit) /\ Recalls(unit)
  BY DEF HistoryInv
<1>2. Historical(sessions[x])'
  BY <1>1, SMTT(30) DEF Historical
<1>3. ASSUME NEW i \in DOMAIN unit.audit, NEW o \in Org, NEW c \in OrgColumn,
             unit.audit[i].row = O(o), c \in DOMAIN unit.audit[i].before
      PROVE  KnownIn(trail', O(o), c, unit.audit[i].before[c], Len(trail'))
  <2> DEFINE v == unit.audit[i].before[c]
  <2>1. KnownIn(trail, O(o), c, v, Len(trail))
    BY <1>1, <1>3 DEF Recalls
  <2>2. \A n, m \in Nat : \A t, q, r, w :
           (n <= m /\ (\A j \in 1..n : q[j] = t[j]) /\ KnownIn(t, r, c, w, n)) => KnownIn(q, r, c, w, m)
    BY KnownLater
  <2> HIDE DEF v
  <2>3. KnownIn(trail', O(o), c, v, Len(trail'))
    BY <2>1, <2>2
  <2> QED BY <2>3 DEF v
<1> QED BY <1>2, <1>3 DEF Recalls

LEMMA HistoryCommit ==
    ASSUME HistoryInv, NEW s \in Slot, Commit(s)
    PROVE  HistoryInv'
<1> DEFINE unit == sessions[s]
           new  == unit.audit
           n    == Len(trail)
<1>1. /\ StandingInv /\ RowsInv /\ Typed(unit) /\ Historical(unit) /\ Recalls(unit) /\ OrgMentions
      /\ \A x \in Slot : sessions'[x] # Idle => sessions'[x] = sessions[x] /\ x # s /\ sessions[x] # Idle
  BY Committed DEF HistoryInv, StandingInv
<1>2. /\ n \in Nat /\ DOMAIN trail = 1..n /\ DOMAIN trail' = 1..Len(trail')
      /\ \A i \in 1..n : trail'[i] = trail[i]
      /\ \/ Len(trail') = n /\ DOMAIN new = {}
         \/ Len(trail') = n + 1 /\ DOMAIN new = {1} /\ trail'[n + 1] = new[1]
  BY <1>1, TrailGrows DEF Historical
<1>3. \A i \in DOMAIN trail' :
         \/ i \in DOMAIN trail /\ trail'[i] = trail[i]
         \/ 1 \in DOMAIN new /\ trail'[i] = new[1]
  BY <1>1, RowOfTrail DEF Historical
<1>4. Len(trail) \in Nat /\ Len(trail') \in Nat /\ Len(trail) <= Len(trail')
  <2>1. \A a \in Nat : \A b : (b = a \/ b = a + 1) => b \in Nat /\ a <= b
    OBVIOUS
  <2>2. n \in Nat /\ (Len(trail') = n \/ Len(trail') = n + 1)
    BY <1>2
  <2> QED BY <2>1, <2>2
<1>5. StandingInv' /\ RowsInv'
  BY <1>1, StandCommit, CommitRows
<1>6. \A o \in Org : /\ O(o) \in Rows /\ O(o)[1] # "api_key" /\ RowSet(O(o)) = OrgRow
                     /\ O(o) \notin unit.deletes /\ (Exists(O(o)) => Exists(O(o))')
  BY <1>1, RowNames, RowsNamed, RowSets, Permanent DEF Typed
<1>7. OrgMentions'
  <2>1. ASSUME NEW i \in DOMAIN trail', NEW o \in Org, NEW c \in OrgColumn, trail'[i].row = O(o),
               c \in DOMAIN Says(trail'[i]) \/ c \in DOMAIN trail'[i].before
        PROVE  Exists(O(o))
    <3>1. CASE i \in DOMAIN trail /\ trail'[i] = trail[i]
      BY <1>1, <2>1, <3>1 DEF OrgMentions
    <3>2. CASE 1 \in DOMAIN new /\ trail'[i] = new[1]
      BY <1>1, <2>1, <3>2 DEF Historical
    <3> QED BY <1>3, <3>1, <3>2
  <2> QED BY <1>6, <2>1 DEF OrgMentions
<1>8. ASSUME NEW o \in Org, NEW c \in OrgColumn, Exists(O(o))'
      PROVE  HistoryOf(trail', O(o), c, db'[O(o)][c])
  <2> DEFINE r == O(o)
             v == db[r][c]
             w == db'[r][c]
  <2>0. r \in Rows /\ db'[r] # NoRow
    BY <1>6, <1>8 DEF Exists
  <2>1. CASE r \in DOMAIN unit.inserts
    <3>1. ~Exists(r) /\ db'[r] = NewOrg
      BY <1>1, <2>0, <2>1, RowAfter DEF Exists, Historical
    <3>2. w = Created[c]
      BY <3>1 DEF NewOrg, Created, OrgColumn
    <3>3. \A i \in DOMAIN trail' : trail'[i].row = r =>
             c \notin DOMAIN Says(trail'[i]) /\ c \notin DOMAIN trail'[i].before
      <4> SUFFICES ASSUME NEW i \in DOMAIN trail', trail'[i].row = r,
                          c \in DOMAIN Says(trail'[i]) \/ c \in DOMAIN trail'[i].before
                   PROVE  FALSE
        OBVIOUS
      <4>1. CASE i \in DOMAIN trail /\ trail'[i] = trail[i]
        BY <1>1, <3>1, <4>1 DEF OrgMentions
      <4>2. CASE 1 \in DOMAIN new /\ trail'[i] = new[1]
        BY <1>1, <3>1, <4>2 DEF Historical
      <4> QED BY <1>3, <4>1, <4>2
    <3>4. Len(trail') \in Nat
      BY <1>4
    <3>5. \A q : Len(q) \in Nat /\ DOMAIN q = 1..Len(q)
                 /\ (\A i \in DOMAIN q : q[i].row = r =>
                        c \notin DOMAIN Says(q[i]) /\ c \notin DOMAIN q[i].before)
                 => HistoryOf(q, r, c, Created[c])
      BY HistoryFresh
    <3>6. HistoryOf(trail', r, c, Created[c])
      BY <1>2, <3>3, <3>4, <3>5
    <3> QED BY <3>2, <3>6
  <2>2. CASE r \notin DOMAIN unit.inserts
    <3>1. Exists(r) /\ db[r] \in OrgRow
      BY <1>1, <1>6, <2>0, <2>2, RowAfter DEF Exists, RowsInv
    <3>2. c \in DOMAIN db[r] /\ HistoryOf(trail, r, c, v)
      BY <3>1 DEF HistoryInv, OrgRow, OrgColumn
    <3>3. IF r \in DOMAIN unit.updates /\ c \in DOMAIN unit.updates[r]
          THEN w = unit.updates[r][c] ELSE w = v
      <4>1. CASE r \in DOMAIN unit.updates /\ c \in DOMAIN unit.updates[r]
        <5>1. db'[r] = unit.updates[r] @@ db[r]
          BY <1>1, <1>6, <2>0, <2>2, <4>1, RowAfter
        <5> QED BY <4>1, <5>1 DEF @@
      <4>2. CASE ~(r \in DOMAIN unit.updates /\ c \in DOMAIN unit.updates[r])
        BY <1>1, <1>6, <2>0, <3>1, <3>2, <4>2, ColumnKept
      <4> QED BY <4>1, <4>2
    <3>4. CASE DOMAIN new = {}
      <4>1. w = v
        BY <1>1, <3>3, <3>4 DEF Historical
      <4>2. Len(trail') = n /\ DOMAIN trail' = DOMAIN trail
        BY <1>2, <3>4
      <4>3. \A t, q : /\ Len(t) \in Nat /\ DOMAIN t = 1..Len(t) /\ DOMAIN q = DOMAIN t /\ Len(q) = Len(t)
                      /\ \A i \in DOMAIN t : q[i] = t[i]
                      /\ HistoryOf(t, r, c, v)
                      => HistoryOf(q, r, c, v)
        BY HistoryAgain
      <4> HIDE DEF v, w, r
      <4>4. HistoryOf(trail', r, c, v)
        BY <1>2, <3>2, <4>2, <4>3
      <4> QED BY <4>1, <4>4 DEF w, r
    <3>5. CASE DOMAIN new # {}
      <4>1. Len(trail') = n + 1 /\ DOMAIN new = {1} /\ trail'[n + 1] = new[1]
        BY <1>2, <3>5
      <4>2. new[1].row = r /\ c \in DOMAIN new[1].before => KnownIn(trail, r, c, new[1].before[c], n)
        BY <1>1, <4>1 DEF Recalls
      <4>3. IF new[1].row = r /\ c \in DOMAIN Says(new[1])
            THEN /\ c \in DOMAIN new[1].before
                 /\ \/ w = Says(new[1])[c]
                    \/ w = v /\ new[1].before[c] = Says(new[1])[c]
            ELSE w = v
        <5>1. r \in DOMAIN unit.updates /\ c \in DOMAIN unit.updates[r] =>
                 /\ new[1].row = r /\ c \in DOMAIN Says(new[1])
                 /\ Says(new[1])[c] = unit.updates[r][c]
          BY <1>1, <4>1 DEF Historical
        <5>2. new[1].row = r /\ c \in DOMAIN Says(new[1]) =>
                 /\ c \in DOMAIN new[1].before
                 /\ \/ new[1].before[c] = Says(new[1])[c]
                    \/ r \in DOMAIN unit.updates /\ c \in DOMAIN unit.updates[r]
          BY <1>1, <4>1 DEF Historical
        <5> HIDE DEF w, v, r, new, unit
        <5> QED BY <3>3, <5>1, <5>2
      <4>4. \A m \in Nat : \A t, q, x, y :
               /\ Len(t) = m /\ DOMAIN t = 1..m /\ Len(q) = m + 1 /\ DOMAIN q = 1..(m + 1)
               /\ \A i \in 1..m : q[i] = t[i]
               /\ HistoryOf(t, r, c, x)
               /\ q[m + 1].row = r /\ c \in DOMAIN q[m + 1].before =>
                     KnownIn(t, r, c, q[m + 1].before[c], m)
               /\ IF q[m + 1].row = r /\ c \in DOMAIN Says(q[m + 1])
                  THEN /\ c \in DOMAIN q[m + 1].before
                       /\ \/ y = Says(q[m + 1])[c]
                          \/ y = x /\ q[m + 1].before[c] = Says(q[m + 1])[c]
                  ELSE y = x
               => HistoryOf(q, r, c, y)
        BY HistoryGrows
      <4> DEFINE q == trail'
      <4>5. /\ n \in Nat /\ DOMAIN trail = 1..n /\ Len(q) = n + 1 /\ DOMAIN q = 1..(n + 1)
            /\ \A i \in 1..n : q[i] = trail[i]
            /\ q[n + 1] = new[1]
        BY <1>2, <4>1
      <4>6. n = Len(trail)
        OBVIOUS
      <4> HIDE DEF q, w, v, r, new, n
      <4>7. HistoryOf(q, r, c, w)
        BY <3>2, <4>2, <4>3, <4>4, <4>5, <4>6
      <4> QED BY <4>7 DEF q, w, r
    <3> QED BY <3>4, <3>5
  <2> QED BY <2>1, <2>2
<1>9. ASSUME NEW x \in Slot, sessions'[x] # Idle
      PROVE  Historical(sessions[x])' /\ Recalls(sessions[x])'
  BY <1>1, <1>2, <1>6, <1>9, <1>4, HistoricalKept
<1> QED BY <1>5, <1>7, <1>8, <1>9 DEF HistoryInv

\* Every other step leaves the trail and the organizations alone.
LEMMA HistoryQuiet ==
    ASSUME HistoryInv, StandingInv', trail' = trail,
           \A r \in Rows : (Exists(r) <=> Exists(r)') /\ (r[1] # "api_key" => db'[r] = db[r]),
           \A x \in Slot : sessions'[x] # Idle => Historical(sessions[x])' /\ Recalls(sessions[x])'
    PROVE  HistoryInv'
<1>1. \A o \in Org : (Exists(O(o)) <=> Exists(O(o))') /\ db'[O(o)] = db[O(o)]
  BY RowNames, RowsNamed
<1>2. OrgMentions'
  BY <1>1 DEF HistoryInv, OrgMentions
<1>3. \A o \in Org, c \in OrgColumn : Exists(O(o))' => HistoryOf(trail', O(o), c, db'[O(o)][c])
  BY <1>1 DEF HistoryInv
<1> QED BY <1>2, <1>3 DEF HistoryInv

\* A unit that stays open while the trail and the rows but keys do.
LEMMA HistoricalStays ==
    ASSUME HistoryInv, trail' = trail, \A r \in Rows : Exists(r) <=> Exists(r)',
           NEW x \in Slot, sessions[x] # Idle, sessions'[x] = sessions[x]
    PROVE  Historical(sessions[x])' /\ Recalls(sessions[x])'
<1>1. IsSeq(trail)
  BY DEF HistoryInv, StandingInv, AccountsInv
<1>2. Len(trail) \in Nat
  BY <1>1, Appended
<1>3. \A o \in Org : Exists(O(o)) => Exists(O(o))'
  BY RowsNamed
<1> QED BY <1>2, <1>3, HistoricalKept

LEMMA HistoryBegun ==
    ASSUME HistoryInv, StandingInv', NEW s \in Slot, NEW unit, Begin(s, unit), Fit(unit)
    PROVE  HistoryInv'
<1>1. /\ sessions' = [sessions EXCEPT ![s] = unit] /\ UNCHANGED <<db, trail>> /\ AccountsInv
      /\ Historical(unit) /\ Remembers(unit)
  BY DEF Begin, Open, HistoryInv, StandingInv, Fit
<1>2. \A x \in Slot : sessions'[x] = IF x = s THEN unit ELSE sessions[x]
  BY <1>1 DEF AccountsInv
<1>3. \A r : (Exists(r) <=> Exists(r)') /\ db'[r] = db[r]
  BY <1>1 DEF Exists
<1>4. Recalls(unit)
  <2>1. ASSUME NEW i \in DOMAIN unit.audit, NEW o \in Org, NEW c \in OrgColumn,
               unit.audit[i].row = O(o), c \in DOMAIN unit.audit[i].before
        PROVE  KnownIn(trail, O(o), c, unit.audit[i].before[c], Len(trail))
    <3>1. Exists(O(o)) /\ unit.audit[i].before[c] = db[O(o)][c]
      BY <1>1, <2>1 DEF Remembers
    <3>2. HistoryOf(trail, O(o), c, db[O(o)][c])
      BY <3>1 DEF HistoryInv
    <3> QED BY <3>1, <3>2 DEF HistoryOf
  <2> QED BY <2>1 DEF Recalls
<1>5. ASSUME NEW x \in Slot, sessions'[x] # Idle
      PROVE  Historical(sessions[x])' /\ Recalls(sessions[x])'
  <2>1. CASE x # s
    BY <1>1, <1>2, <1>3, <1>5, <2>1, HistoricalStays
  <2>2. CASE x = s
    <3>1. sessions'[x] = unit
      BY <1>2, <2>2
    <3>2. \A o : Exists(O(o))' = Exists(O(o))
      BY <1>1 DEF Exists
    <3> QED BY <1>1, <1>4, <3>1, <3>2, SMTT(30) DEF Historical, Recalls
  <2> QED BY <2>1, <2>2
<1> QED BY <1>1, <1>3, <1>5, HistoryQuiet

LEMMA HistoryInit == Init => HistoryInv
<1> SUFFICES ASSUME Init PROVE HistoryInv
  OBVIOUS
<1>1. StandingInv /\ trail = <<>> /\ \A s \in Slot : sessions[s] = Idle
  BY StandingInit DEF Init
<1>2. DOMAIN trail = {} /\ Len(trail) = 0 /\ DOMAIN trail = 1..Len(trail) /\ Len(trail) \in Nat
  BY <1>1
<1>3. ASSUME NEW o \in Org, NEW c \in OrgColumn, Exists(O(o)) PROVE HistoryOf(trail, O(o), c, db[O(o)][c])
  <2>1. O(o) \in DOMAIN BootRows /\ db[O(o)] = BootRows[O(o)]
    BY <1>3, RowsNamed, BootContents DEF Init, Exists
  <2>2. db[O(o)] = NewOrg
    BY <2>1, RowNames, BootFurniture, FurnitureFits
  <2>3. db[O(o)][c] = Created[c]
    BY <2>2 DEF NewOrg, Created, OrgColumn
  <2>4. HistoryOf(trail, O(o), c, Created[c])
    BY <1>2, HistoryFresh
  <2> QED BY <2>3, <2>4
<1> QED BY <1>1, <1>2, <1>3 DEF HistoryInv, OrgMentions

LEMMA HistoryStep == HistoryInv /\ [Next]_aVars => HistoryInv'
<1> SUFFICES ASSUME HistoryInv, [Next]_aVars PROVE HistoryInv'
  OBVIOUS
<1>0. StandingInv /\ StandingInv' /\ RowsInv /\ AccountsInv
  BY StandingStep DEF HistoryInv, StandingInv
<1>1. ASSUME NEW s \in Slot, Requests(s) PROVE HistoryInv'
  BY <1>0, <1>1, RequestOpens, HistoryBegun DEF Opens
<1>2. ASSUME NEW s \in Slot, Commit(s) PROVE HistoryInv'
  BY <1>2, HistoryCommit
<1>3. ASSUME NEW s \in Slot, Refuse(s) PROVE HistoryInv'
  <2>1. sessions' = [sessions EXCEPT ![s] = Idle] /\ UNCHANGED <<db, trail>>
    BY <1>3 DEF Refuse, Rollback
  <2>2. \A x \in Slot : sessions'[x] # Idle => sessions'[x] = sessions[x]
    BY <1>0, <2>1 DEF AccountsInv
  <2>3. \A r : (Exists(r) <=> Exists(r)') /\ db'[r] = db[r]
    BY <2>1 DEF Exists
  <2>4. \A x \in Slot : sessions'[x] # Idle => Historical(sessions[x])' /\ Recalls(sessions[x])'
    BY <2>1, <2>2, <2>3, HistoricalStays
  <2> QED BY <1>0, <2>1, <2>3, <2>4, HistoryQuiet
<1>4. ASSUME NEW k \in Key, KeyExpires(k) PROVE HistoryInv'
  <2>1. /\ UNCHANGED <<trail, sessions>>
        /\ \A r \in Rows : (Exists(r) <=> Exists(r)') /\ (r[1] # "api_key" => db'[r] = db[r])
    BY <1>0, <1>4, AfterExpiry
  <2>2. \A x \in Slot : sessions'[x] # Idle => Historical(sessions[x])' /\ Recalls(sessions[x])'
    BY <2>1, HistoricalStays
  <2> QED BY <1>0, <2>1, <2>2, HistoryQuiet
<1>5. CASE UNCHANGED aVars
  <2>1. UNCHANGED <<db, trail, sessions>>
    BY <1>5 DEF aVars
  <2>2. \A r : (Exists(r) <=> Exists(r)') /\ db'[r] = db[r]
    BY <2>1 DEF Exists
  <2>3. \A x \in Slot : sessions'[x] # Idle => Historical(sessions[x])' /\ Recalls(sessions[x])'
    BY <2>1, <2>2, HistoricalStays
  <2> QED BY <1>0, <2>1, <2>2, <2>3, HistoryQuiet
<1> QED BY <1>1, <1>2, <1>3, <1>4, <1>5 DEF Next

\* Decisions about an organization may undo each other, but never in silence: as long
\* as every audit row found what the one before it had left, the organization is as
\* the last one says, and nothing is stored or remembered that no row put there.  For
\* requests of any kind, overlapping in any way.
THEOREM HistoryIsHonest == Spec => []OrganizationHistory
<1>1. HistoryInv => OrganizationHistory
  BY DEF HistoryInv, OrganizationHistory, HistoryOf, OrgColumn, Unbroken, Known, Told,
         UnbrokenIn, KnownIn, ToldIn
<1> QED BY <1>1, HistoryInit, HistoryStep, PTL DEF Spec

-----------------------------------------------------------------------------
(* The seeders, where they do not overlap each other.                         *)

\* The rows that stay absent are the fixtures that nobody adds.
LEMMA AddingKept ==
    ASSUME NEW unit, Adding(unit),
           \/ unit.op \notin Seeders
           \/ \A table \in Fixture, o \in Org, i \in Copy :
                 Exists(F(table, o, i))' => Exists(F(table, o, i))
    PROVE  /\ unit.op = "run_seed" =>
                /\ \A r \in DOMAIN unit.updates :
                      /\ r = U(Owner) /\ DOMAIN unit.updates[r] = {"superadmin"}
                      /\ unit.updates[r].superadmin = TRUE
                /\ unit.deletes = {}
           /\ \A table \in Fixture, o \in Org, i \in Copy :
                /\ F(table, o, i) \notin DOMAIN unit.updates
                /\ F(table, o, i) \in DOMAIN unit.inserts =>
                      unit.op \in Seeders /\ \A j \in Copy : ~Exists(F(table, o, j))'
  BY DEF Adding

\* Every step but a commit keeps the fixtures, and opens at most one unit.
LEMMA SeedingQuiet ==
    ASSUME SeedingInv, StandingInv', \A r \in Rows : Exists(r) <=> Exists(r)',
           \A x \in Slot : sessions'[x] # Idle => Adding(sessions'[x]),
           \A x, t \in Slot :
              /\ sessions'[x] # Idle /\ sessions'[t] # Idle
              /\ sessions'[x].op \in Seeders /\ sessions'[t].op \in Seeders
              => x = t
    PROVE  SeedingInv'
<1>1. \A table \in Fixture, o \in Org, i \in Copy : Exists(F(table, o, i))' => Exists(F(table, o, i))
  BY RowsNamed
<1>2. ASSUME NEW x \in Slot, sessions'[x] # Idle PROVE Adding(sessions[x])'
  BY <1>1, <1>2, AddingKept DEF Adding
<1> QED BY <1>2 DEF SeedingInv

LEMMA SeedingCommit ==
    ASSUME SeedingInv, NEW s \in Slot, Commit(s)
    PROVE  SeedingInv'
<1> DEFINE unit == sessions[s]
<1>1. /\ RowsInv /\ StandingInv' /\ Typed(unit) /\ Adding(unit) /\ unit # Idle
      /\ \A x \in Slot : sessions'[x] # Idle => sessions'[x] = sessions[x] /\ x # s
  BY StandCommit, Committed DEF SeedingInv, StandingInv
<1>2. ASSUME NEW x \in Slot, sessions'[x] # Idle PROVE Adding(sessions[x])'
  <2>1. Adding(sessions[x]) /\ sessions'[x] = sessions[x] /\ x # s /\ sessions[x] # Idle
    BY <1>1, <1>2 DEF SeedingInv
  <2>2. CASE sessions[x].op \notin Seeders
    BY <2>1, <2>2, AddingKept DEF Adding
  <2>3. CASE sessions[x].op \in Seeders
    <3>1. unit.op \notin Seeders
      BY <1>1, <2>1, <2>3 DEF SeedingInv
    <3>2. ASSUME NEW table \in Fixture, NEW o \in Org, NEW i \in Copy, Exists(F(table, o, i))'
          PROVE  Exists(F(table, o, i))
      <4>1. F(table, o, i) \in Rows /\ F(table, o, i) \notin DOMAIN unit.inserts
        BY <1>1, <3>1, RowsNamed DEF Adding
      <4> QED BY <1>1, <3>2, <4>1, RowAfter DEF Exists
    <3> QED BY <2>1, <3>2, AddingKept DEF Adding
  <2> QED BY <2>2, <2>3
<1>3. \A x, t \in Slot :
         /\ sessions'[x] # Idle /\ sessions'[t] # Idle
         /\ sessions'[x].op \in Seeders /\ sessions'[t].op \in Seeders
         => x = t
  BY <1>1 DEF SeedingInv
<1> QED BY <1>1, <1>2, <1>3 DEF SeedingInv

LEMMA SeedingInit == Init => SeedingInv
<1> SUFFICES ASSUME Init PROVE SeedingInv
  OBVIOUS
<1>1. StandingInv /\ \A s \in Slot : sessions[s] = Idle
  BY StandingInit DEF Init
<1> QED BY <1>1 DEF SeedingInv

LEMMA SeedingStep ==
    ASSUME Seeders \subseteq Serial, SeedingInv, [Next]_aVars
    PROVE  SeedingInv'
<1>0. StandingInv /\ StandingInv' /\ AccountsInv /\ RowsInv
  BY StandingStep DEF SeedingInv, StandingInv
<1>1. ASSUME NEW s \in Slot, Requests(s) PROVE SeedingInv'
  <2>1. PICK unit : Begin(s, unit) /\ Fit(unit)
    BY <1>0, <1>1, RequestOpens DEF Opens
  <2>2. /\ sessions' = [sessions EXCEPT ![s] = unit] /\ UNCHANGED db /\ Adding(unit)
        /\ unit.op \in Serial => \A x \in Slot : sessions[x] # Idle => sessions[x].op \notin Serial
    BY <2>1 DEF Begin, Open, Fit
  <2>3. \A x \in Slot : sessions'[x] = IF x = s THEN unit ELSE sessions[x]
    BY <1>0, <2>2 DEF AccountsInv
  <2>4. \A r : Exists(r) <=> Exists(r)'
    BY <2>2 DEF Exists
  <2>5. \A x \in Slot : sessions'[x] # Idle => Adding(sessions'[x])
    BY <2>2, <2>3 DEF SeedingInv
  <2>6. ASSUME NEW x \in Slot, NEW t \in Slot, sessions'[x] # Idle, sessions'[t] # Idle,
               sessions'[x].op \in Seeders, sessions'[t].op \in Seeders
        PROVE  x = t
    <3>1. CASE x # s /\ t # s
      BY <2>3, <2>6, <3>1 DEF SeedingInv
    <3>2. CASE x = s \/ t = s
      BY <2>2, <2>3, <2>6, <3>2
    <3> QED BY <3>1, <3>2
  <2> QED BY <1>0, <2>4, <2>5, <2>6, SeedingQuiet
<1>2. ASSUME NEW s \in Slot, Commit(s) PROVE SeedingInv'
  BY <1>2, SeedingCommit
<1>3. ASSUME NEW s \in Slot, Refuse(s) PROVE SeedingInv'
  <2>1. sessions' = [sessions EXCEPT ![s] = Idle] /\ UNCHANGED db
    BY <1>3 DEF Refuse, Rollback
  <2>2. \A x \in Slot : sessions'[x] = IF x = s THEN Idle ELSE sessions[x]
    BY <1>0, <2>1 DEF AccountsInv
  <2>3. \A r : Exists(r) <=> Exists(r)'
    BY <2>1 DEF Exists
  <2> QED BY <1>0, <2>2, <2>3, SeedingQuiet DEF SeedingInv
<1>4. ASSUME NEW k \in Key, KeyExpires(k) PROVE SeedingInv'
  <2>1. UNCHANGED sessions /\ \A r \in Rows : Exists(r)' <=> Exists(r)
    BY <1>0, <1>4, AfterExpiry
  <2> QED BY <1>0, <2>1, SeedingQuiet DEF SeedingInv
<1>5. CASE UNCHANGED aVars
  <2>1. UNCHANGED sessions /\ \A r : Exists(r)' <=> Exists(r)
    BY <1>5 DEF aVars, Exists
  <2> QED BY <1>0, <2>1, SeedingQuiet DEF SeedingInv
<1> QED BY <1>1, <1>2, <1>3, <1>4, <1>5 DEF Next

\* What a commit may do to rows that are there.
LEMMA CommitAdds ==
    ASSUME SeedingInv, NEW s \in Slot, Commit(s)
    PROVE  /\ sessions[s].op = "run_seed" =>
                \A r \in Rows : Exists(r) =>
                    \/ db'[r] = db[r]
                    \/ r = U(Owner) /\ db'[r] = [db[r] EXCEPT !.superadmin = TRUE]
           /\ \A table \in Fixture, o \in Org :
                (\E i \in Copy : Exists(F(table, o, i))) =>
                    \A i \in Copy : db'[F(table, o, i)] = db[F(table, o, i)]
<1> DEFINE unit == sessions[s]
<1>1. RowsInv /\ Typed(unit) /\ Adding(unit)
  BY Committed DEF SeedingInv, StandingInv
<1>2. ASSUME unit.op = "run_seed", NEW r \in Rows, Exists(r)
      PROVE  \/ db'[r] = db[r]
             \/ r = U(Owner) /\ db'[r] = [db[r] EXCEPT !.superadmin = TRUE]
  <2>1. r \notin DOMAIN unit.inserts /\ r \notin unit.deletes
    BY <1>1, <1>2, RowAfter DEF Exists, Adding
  <2>2. CASE r \notin DOMAIN unit.updates
    BY <1>1, <2>1, <2>2, RowAfter
  <2>3. CASE r \in DOMAIN unit.updates
    <3>1. /\ r = U(Owner) /\ DOMAIN unit.updates[r] = {"superadmin"}
          /\ unit.updates[r]["superadmin"] = TRUE
      BY <1>1, <1>2, <2>3 DEF Adding
    <3>2. db'[r] = unit.updates[r] @@ db[r]
      BY <1>1, <2>1, <2>3, RowAfter
    <3>3. db[r] \in UserRow
      BY <1>1, <1>2, <3>1, RowSets DEF RowsInv, Exists
    <3>4. "superadmin" \in DOMAIN db[r] /\ db[r] = [c \in DOMAIN db[r] |-> db[r][c]]
      BY <3>3 DEF UserRow
    <3>5. unit.updates[r] @@ db[r] = [db[r] EXCEPT !["superadmin"] = TRUE]
      BY <3>1, <3>4 DEF @@
    <3> QED BY <3>1, <3>2, <3>5
  <2> QED BY <2>2, <2>3
<1>3. ASSUME NEW table \in Fixture, NEW o \in Org, NEW j \in Copy, Exists(F(table, o, j)),
             NEW i \in Copy
      PROVE  db'[F(table, o, i)] = db[F(table, o, i)]
  <2>1. F(table, o, i) \notin DOMAIN unit.updates /\ F(table, o, i) \notin DOMAIN unit.inserts
    BY <1>1, <1>3 DEF Adding
  <2>2. F(table, o, i) \notin unit.deletes
    BY <1>1, RowNames DEF Typed, Fixture
  <2> QED BY <1>1, <2>1, <2>2, RowAfter, RowsNamed
<1> QED BY <1>2, <1>3

\* However often the seeders run, and whatever requests overlap them, they change
\* no row that is there but the owner's flag, and never add a fixture twice.
THEOREM SeedersOnlyAdd ==
    ASSUME Seeders \subseteq Serial
    PROVE  Spec => SeedAddsOnly
<1>1. SeedingInv /\ [Next]_aVars => SeedingInv'
  BY SeedingStep
<1>2. SeedingInv =>
        (\A s \in Slot : Commit(s) =>
          /\ sessions[s].op = "run_seed" =>
                \A r \in Rows : Exists(r) =>
                    \/ db'[r] = db[r]
                    \/ r = U(Owner) /\ db'[r] = [db[r] EXCEPT !.superadmin = TRUE]
          /\ \A table \in Fixture, o \in Org :
                (\E i \in Copy : Exists(F(table, o, i))) =>
                    \A i \in Copy : db'[F(table, o, i)] = db[F(table, o, i)])
  BY CommitAdds
<1>3. SeedingInv /\ [Next]_aVars =>
        [\A s \in Slot : Commit(s) =>
          /\ sessions[s].op = "run_seed" =>
                \A r \in Rows : Exists(r) =>
                    \/ db'[r] = db[r]
                    \/ r = U(Owner) /\ db'[r] = [db[r] EXCEPT !.superadmin = TRUE]
          /\ \A table \in Fixture, o \in Org :
                (\E i \in Copy : Exists(F(table, o, i))) =>
                    \A i \in Copy : db'[F(table, o, i)] = db[F(table, o, i)]]_aVars
  BY <1>2
<1> QED BY <1>1, <1>3, SeedingInit, PTL DEF Spec, SeedAddsOnly
=============================================================================
