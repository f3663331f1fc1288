------------------------------ MODULE Accounts ------------------------------
(***************************************************************************)
(* Accounts, organizations, memberships, platform settings and API keys,   *)
(* and the seeders that create the demo ones: app/api/v1/auth.py,          *)
(* superadmin.py, admin.py, users.py, apikeys.py, documenttypes.py,        *)
(* external.py, app/models/platform.py, seed_demo.py, app/seed_demo.py.    *)
(*                                                                         *)
(* A handler is two steps: it reads and refuses or opens a unit of work,   *)
(* and the unit commits or is rolled back (module Database).  Passwords,   *)
(* names and login times are left out; the role OPERATOR behaves like      *)
(* SUBMITTER here.  `claims' holds what unexpired tokens may carry: every  *)
(* claim a sign-in could have obtained so far, since a token outlives the  *)
(* rows it was issued from by up to twelve hours.                          *)
(***************************************************************************)
EXTENDS Database, FiniteSetsExt

CONSTANTS
    User, Org, Key,  \* e-mail addresses, slugs, API keys
    Copy,            \* identities for fixtures, which no unique key guards
    Owner,           \* the demo administrator, also the platform owner
    Staff,           \* the other account the seeders create
    Seeded,          \* slug of the organization of seed_demo.py
    Demo,            \* slug of the organization of app/seed_demo.py and demologin
    NoOrg,           \* the organization of a platform token
    Serial,          \* operations that never overlap each other in this instance
    MaxRequests      \* bound on the requests of a behaviour

VARIABLES
    claims,          \* [user, org, role] of the tokens that may be in use
    served           \* requests opened so far

aVars == <<db, trail, sessions, claims, served>>

ASSUME AccountsAssumption ==
    /\ {Owner, Staff} \subseteq User /\ Owner # Staff
    /\ {Seeded, Demo} \subseteq Org /\ Seeded # Demo /\ NoOrg \notin Org
    /\ MaxRequests \in Nat

-----------------------------------------------------------------------------
\* Rows and their columns.

U(u)    == <<"user", u>>
O(o)    == <<"organization", o>>
M(u, o) == <<"membership", u, o>>
K(k)    == <<"api_key", k>>
T(o)    == <<"document_type", o>>
F(table, o, i) == <<table, o, i>>
Site    == <<"platform_setting">>

\* Tables of the fixtures that are looked up by a code, a title or a file name.
Fixture == {"reference", "verification"}

Rows ==
    {U(u) : u \in User} \cup {O(o) : o \in Org} \cup {K(k) : k \in Key}
    \cup {M(p[1], p[2]) : p \in User \X Org} \cup {T(o) : o \in Org}
    \cup {F(p[1], p[2], p[3]) : p \in Fixture \X Org \X Copy} \cup {Site}

Status == {"ACTIVE", "SUSPENDED"}
Role   == {"ADMIN", "SUBMITTER", "SUPERADMIN"}   \* a membership takes any role code
Part   == {"weights", "thresholds"}
Setting == [registration_open : BOOLEAN, site_name : {"Verifo", "Renamed"}]

\* A settings request; several keys at once show nothing that one key does not.
Values == [registration_open : BOOLEAN] \cup [site_name : {"Verifo", "Renamed"}]

DefaultSettings == [registration_open |-> TRUE, site_name |-> "Verifo"]

\* The columns of a row.
UserRow   == [status : Status, superadmin : BOOLEAN]
OrgRow    == [status : Status, config : SUBSET Part]
MemberRow == [role : Role, status : Status]
KeyRow    == [org : Org, expired : BOOLEAN, used : BOOLEAN]
SiteRows  == [value : Setting]

NewUser == [status |-> "ACTIVE", superadmin |-> FALSE]
NewOrg  == [status |-> "ACTIVE", config |-> {}]
Member(role) == [role |-> role, status |-> "ACTIVE"]
SiteRow(settings) == [value |-> settings]
NewKey(o) == [org |-> o, expired |-> FALSE, used |-> FALSE]
Present == [present |-> TRUE]

ASSUME RowsAssumption ==
    NoRow \notin UserRow \cup OrgRow \cup MemberRow \cup KeyRow \cup SiteRows \cup {Present}

Exists(r) == db[r] # NoRow
-----------------------------------------------------------------------------
\* Tokens.

\* User.active_memberships, as organizations.
ActiveOrgs(d, u) ==
    {o \in Org : /\ d[M(u, o)] # NoRow /\ d[M(u, o)].status = "ACTIVE"
                 /\ d[O(o)].status = "ACTIVE"}

\* login refuses a suspended account; switch-org and bootstrap only ask for a
\* token, and neither login nor switch-org looks past the memberships.
SignIns(d, held) ==
    LET MayLogin(u) == /\ d[U(u)] # NoRow
                       /\ d[U(u)].status = "ACTIVE"
                       /\ \/ ActiveOrgs(d, u) # {}
                          \/ d[U(u)].superadmin
        inside == {u \in User : MayLogin(u) \/ \E c \in held : c.user = u}
    IN  held
        \cup {[user |-> p[1], org |-> p[2], role |-> d[M(p[1], p[2])].role] :
                 p \in {q \in inside \X Org : q[2] \in ActiveOrgs(d, q[1])}}
        \cup {[user |-> u, org |-> NoOrg, role |-> "SUPERADMIN"] :
                 u \in {x \in inside : d[U(x)] # NoRow /\ d[U(x)].superadmin}}

\* roles_required(ADMIN) with require_org, and roles_required(SUPERADMIN).
MayAdminister(o) == \E c \in claims : c.org = o /\ c.role = "ADMIN"
Superadmins == {c.user : c \in {x \in claims : x.role = "SUPERADMIN"}}
-----------------------------------------------------------------------------
\* Serving a request.

Begin(s, unit) ==
    /\ served < MaxRequests
    /\ unit.op \in Serial =>
         \A x \in Slot : sessions[x] # Idle => sessions[x].op \notin Serial
    /\ Open(s, unit)
    /\ served' = served + 1
    /\ UNCHANGED claims

Commit(s) ==
    /\ CommitUnit(s)
    /\ claims' = SignIns(db', claims \cup
           {[user |-> p[1], org |-> p[2], role |-> db'[M(p[1], p[2])].role] :
                p \in sessions[s].tokens})
    /\ UNCHANGED served

Refuse(s) == Rollback(s) /\ UNCHANGED <<claims, served>>
-----------------------------------------------------------------------------
\* Registration and membership.

Settings == IF Exists(Site) THEN db[Site].value ELSE DefaultSettings

\* seeded fault: the founder's membership is left to a later request.
RegisterBare(s, u, o) ==
    /\ Settings.registration_open
    /\ ~Exists(O(o)) /\ ~Exists(U(u))
    /\ Begin(s, [Unit("register") EXCEPT
          !.inserts = O(o) :> NewOrg @@ U(u) :> NewUser,
          !.audit   = <<Entry("ORG_CREATED", O(o), Nothing, [admin |-> u])>>])

Register(s, u, o) ==
    /\ Settings.registration_open
    /\ ~Exists(O(o)) /\ ~Exists(U(u))
    /\ Begin(s, [Unit("register") EXCEPT
          !.inserts = O(o) :> NewOrg @@ U(u) :> NewUser @@ M(u, o) :> Member("ADMIN"),
          !.audit   = <<Entry("ORG_CREATED", O(o), Nothing, [admin |-> u])>>,
          !.tokens  = {<<u, o>>}])

DemoLogin(s) ==
    LET standing == Exists(O(Demo)) /\ Demo \in ActiveOrgs(db, Owner)
    IN  Begin(s, [Unit("demologin") EXCEPT
          !.inserts = Missing(O(Demo) :> NewOrg @@ U(Owner) :> NewUser)
                      @@ (IF standing THEN Nothing ELSE M(Owner, Demo) :> Member("ADMIN")),
          !.audit   = <<Entry("DEMO_SESSION", O(Demo), Nothing, Nothing)>>,
          !.tokens  = {<<Owner, Demo>>}])

\* seeded fault: inviting a suspended member again does not reactivate him.
InviteKeepsStatus(s, o, u, role) ==
    /\ MayAdminister(o)
    /\ Begin(s, [Unit("invite") EXCEPT
          !.inserts = Missing(U(u) :> NewUser @@ M(u, o) :> Member(role)),
          !.updates = Changed(M(u, o) :> [role |-> role]),
          !.audit   = <<Entry("MEMBER_INVITED", M(u, o), Nothing, [role |-> role])>>])

\* seeded fault: only the invitation of a new member is audited.
InviteAuditsNew(s, o, u, role) ==
    /\ MayAdminister(o)
    /\ Begin(s, [Unit("invite") EXCEPT
          !.inserts = Missing(U(u) :> NewUser @@ M(u, o) :> Member(role)),
          !.updates = Changed(M(u, o) :> Member(role)),
          !.audit   = IF Exists(M(u, o)) THEN <<>>
                      ELSE <<Entry("MEMBER_INVITED", M(u, o), Nothing, [role |-> role])>>])

Invite(s, o, u, role) ==
    /\ MayAdminister(o)
    /\ Begin(s, [Unit("invite") EXCEPT
          !.inserts = Missing(U(u) :> NewUser @@ M(u, o) :> Member(role)),
          !.updates = Changed(M(u, o) :> Member(role)),
          !.audit   = <<Entry("MEMBER_INVITED", M(u, o), Nothing, [role |-> role])>>])

SetMemberStatus(s, o, u, status) ==
    /\ MayAdminister(o)
    /\ Exists(M(u, o))
    /\ Begin(s, [Unit("member_status") EXCEPT
          !.updates = Changed(M(u, o) :> [status |-> status]),
          !.audit   = <<Entry("MEMBER_STATUS_CHANGED", M(u, o), Nothing, [status |-> status])>>])

\* Each part of the configuration a request names becomes the organization's own.
Configure(s, o, parts) ==
    LET merged == [config |-> db[O(o)].config \cup parts]
    IN  /\ MayAdminister(o)
        /\ Begin(s, [Unit("org_config") EXCEPT
              !.updates = Changed(O(o) :> merged),
              !.audit   = <<Entry("ORG_CONFIG_UPDATED", O(o),
                                  [config |-> db[O(o)].config], merged)>>])

CreateDocumentType(s, o) ==
    /\ MayAdminister(o)
    /\ ~Exists(T(o))
    /\ Begin(s, [Unit("document_type") EXCEPT
          !.inserts = T(o) :> Present,
          !.audit   = <<Entry("DOCUMENT_TYPE_CREATED", T(o), Nothing, Nothing)>>])
-----------------------------------------------------------------------------
\* The platform console.

CreateOrganization(s, o, admins) ==
    LET first == {M(u, o) : u \in admins}
    IN  /\ Superadmins # {}
        /\ ~Exists(O(o))
        /\ Begin(s, [Unit("create_org") EXCEPT
              !.inserts = O(o) :> NewOrg @@ [m \in first |-> Member("ADMIN")]
                          @@ Missing([r \in {U(u) : u \in admins} |-> NewUser]),
              !.audit   = <<Entry("ORG_CREATED", O(o), Nothing, Nothing)>>])

\* seeded fault: `before' is read after the assignment.
SetOrgStatusLate(s, o, status) ==
    /\ Superadmins # {}
    /\ Exists(O(o))
    /\ Begin(s, [Unit("org_status") EXCEPT
          !.updates = Changed(O(o) :> [status |-> status]),
          !.audit   = <<Entry("ORG_STATUS_CHANGED", O(o),
                              [status |-> status], [status |-> status])>>])

SetOrgStatus(s, o, status) ==
    /\ Superadmins # {}
    /\ Exists(O(o))
    /\ Begin(s, [Unit("org_status") EXCEPT
          !.updates = Changed(O(o) :> [status |-> status]),
          !.audit   = <<Entry("ORG_STATUS_CHANGED", O(o),
                              [status |-> db[O(o)].status], [status |-> status])>>])

\* `before' is read from the row after the new status was assigned to it.
SetUserStatus(s, u, status) ==
    /\ Superadmins # {}
    /\ Exists(U(u))
    /\ ~(status = "SUSPENDED" /\ db[U(u)].superadmin)
    /\ Begin(s, [Unit("user_status") EXCEPT
          !.updates = Changed(U(u) :> [status |-> status]),
          !.audit   = <<Entry("USER_STATUS_CHANGED", U(u),
                              [status |-> status], [status |-> status])>>])

ToggleSuperadmin(s, u, flag) ==
    /\ Exists(U(u))
    /\ \E by \in Superadmins : ~(u = by /\ ~flag)
    /\ flag => db[U(u)].status = "ACTIVE"
    /\ Begin(s, [Unit("superadmin") EXCEPT
          !.updates = Changed(U(u) :> [superadmin |-> flag]),
          !.audit   = <<Entry("SUPERADMIN_CHANGED", U(u), Nothing, [superadmin |-> flag])>>])

\* seeded fault: the request alone is stored.
MergedNot(values) == values

\* seeded fault: the request is laid over the stored settings.
MergedOverRow(values) == values @@ Settings

\* save_platform_settings lays the request over the defaults, not over the row.
Merged(values) == values @@ DefaultSettings

UpdateSettings(s, values) ==
    /\ Superadmins # {}
    /\ Begin(s, [Unit("settings") EXCEPT
          !.inserts = Missing(Site :> SiteRow(Merged(values))),
          !.updates = Changed(Site :> SiteRow(Merged(values))),
          !.audit   = <<Entry("PLATFORM_SETTINGS_UPDATED", Site, Nothing, values)>>])
-----------------------------------------------------------------------------
\* API keys.

Mentioned(r) ==
    \/ Exists(r)
    \/ \E i \in DOMAIN trail : trail[i].row = r
    \/ \E x \in Slot : sessions[x] # Idle /\ r \in DOMAIN sessions[x].inserts

CreateKey(s, o, k) ==
    /\ MayAdminister(o)
    /\ ~Mentioned(K(k))
    /\ Begin(s, [Unit("create_key") EXCEPT
          !.inserts = K(k) :> NewKey(o),
          !.audit   = <<Entry("API_KEY_CREATED", K(k), Nothing, Nothing)>>])

RevokeKey(s, k) ==
    /\ Exists(K(k))
    /\ MayAdminister(db[K(k)].org)
    /\ Begin(s, [Unit("revoke_key") EXCEPT
          !.deletes = {K(k)},
          !.audit   = <<Entry("API_KEY_REVOKED", K(k), Nothing, Nothing)>>])

\* seeded fault: the time of last use is not written.
UseKeyUntouched(s, k) ==
    /\ Exists(K(k))
    /\ ~db[K(k)].expired
    /\ Begin(s, [Unit("external") EXCEPT !.reads = {K(k)}])

\* The time of last use is written, and the key reloaded, before anything is done.
UseKey(s, k) ==
    /\ Exists(K(k))
    /\ ~db[K(k)].expired
    /\ Begin(s, [Unit("external") EXCEPT !.updates = K(k) :> [used |-> TRUE],
                                         !.reads   = {K(k)}])

KeyExpires(k) ==
    /\ Exists(K(k))
    /\ ~db[K(k)].expired
    /\ db' = [db EXCEPT ![K(k)].expired = TRUE]
    /\ UNCHANGED <<trail, sessions, claims, served>>
-----------------------------------------------------------------------------
\* The seeders.

\* A demo reference, or the submission of a counterfeit with its queue task.
NewFixture(table, o) ==
    IF \E i \in Copy : Exists(F(table, o, i)) THEN Nothing
    ELSE F(table, o, CHOOSE i \in Copy : ~Mentioned(F(table, o, i))) :> Present

Accounts ==
    U(Owner) :> [NewUser EXCEPT !.superadmin = TRUE] @@ U(Staff) :> NewUser

BootRows ==
    O(Seeded) :> NewOrg @@ Accounts
    @@ M(Owner, Seeded) :> Member("ADMIN") @@ M(Staff, Seeded) :> Member("SUBMITTER")
    @@ Site :> SiteRow(DefaultSettings)

\* seeded fault: accounts and roles are put back to what the fixtures say.
RunSeedResets(s, sample) ==
    Begin(s, [Unit("run_seed") EXCEPT
        !.inserts = Missing(BootRows)
                    @@ (IF sample THEN Missing(T(Seeded) :> Present) @@ NewFixture("reference", Seeded)
                        ELSE Nothing),
        !.updates = Changed(BootRows)])

\* seed_demo.py, at every start of the server when VERIFO_SEED is set.
RunSeed(s, sample) ==
    Begin(s, [Unit("run_seed") EXCEPT
        !.inserts = Missing(BootRows)
                    @@ (IF sample THEN Missing(T(Seeded) :> Present) @@ NewFixture("reference", Seeded)
                        ELSE Nothing),
        !.updates = Changed(U(Owner) :> [superadmin |-> TRUE])])

\* The role that app/seed_demo.py gives to its two accounts.
DemoRole(u) == IF u = Owner THEN "ADMIN" ELSE "SUBMITTER"

\* app/seed_demo.py, by hand.  Memberships are looked up among the active ones.
SeedDemo(s, k) ==
    LET standing == {u \in {Owner, Staff} : Demo \in ActiveOrgs(db, u)}
        keyless  == ~\E x \in Key : Exists(K(x)) /\ db[K(x)].org = Demo
    IN  /\ ~Mentioned(K(k)) \/ ~keyless
        /\ Begin(s, [Unit("seed_demo") EXCEPT
              !.inserts = Missing(O(Demo) :> NewOrg @@ U(Owner) :> NewUser
                                  @@ U(Staff) :> NewUser @@ T(Demo) :> Present)
                          @@ [m \in {M(u, Demo) : u \in {Owner, Staff} \ standing} |->
                                 Member(DemoRole(m[2]))]
                          @@ NewFixture("reference", Demo) @@ NewFixture("verification", Demo)
                          @@ (IF keyless THEN K(k) :> NewKey(Demo) ELSE Nothing),
              !.updates = Changed([m \in {M(u, Demo) : u \in standing} |-> Member(DemoRole(m[2]))]),
              !.audit   = <<Entry("DEMO_SEEDED", O(Demo), Nothing, Nothing)>>])
-----------------------------------------------------------------------------
\* The first start finds empty tables, or the server has been seeded before.
Init ==
    /\ db \in {[r \in Rows |-> NoRow],
               [r \in Rows |-> IF r \in DOMAIN BootRows THEN BootRows[r] ELSE NoRow]}
    /\ trail = <<>>
    /\ sessions = [s \in Slot |-> Idle]
    /\ claims = SignIns(db, {})
    /\ served = 0

Requests(s) ==
    \/ \E u \in User, o \in Org : Register(s, u, o)
    \/ DemoLogin(s)
    \/ \E u \in User, o \in Org, role \in Role : Invite(s, o, u, role)
    \/ \E u \in User, o \in Org, status \in Status : SetMemberStatus(s, o, u, status)
    \/ \E o \in Org, parts \in SUBSET Part \ {{}} : Configure(s, o, parts)
    \/ \E o \in Org : CreateDocumentType(s, o)
    \/ \E o \in Org, admins \in {{}} \cup {{u} : u \in User} : CreateOrganization(s, o, admins)
    \/ \E o \in Org, status \in Status : SetOrgStatus(s, o, status)
    \/ \E u \in User, status \in Status : SetUserStatus(s, u, status)
    \/ \E u \in User, flag \in BOOLEAN : ToggleSuperadmin(s, u, flag)
    \/ \E values \in Values : UpdateSettings(s, values)
    \/ \E o \in Org, k \in Key : CreateKey(s, o, k)
    \/ \E k \in Key : RevokeKey(s, k)
    \/ \E k \in Key : UseKey(s, k)
    \/ \E sample \in BOOLEAN : RunSeed(s, sample)
    \/ \E k \in Key : SeedDemo(s, k)

Next ==
    \/ \E s \in Slot : \/ Requests(s)
                       \/ Commit(s)
                       \/ Refuse(s)
    \/ \E k \in Key : KeyExpires(k)

Spec == Init /\ [][Next]_aVars
-----------------------------------------------------------------------------
\* Properties.

\* Every table holds rows with their columns, and tokens name known things.
ATypeOK ==
    /\ DOMAIN db = Rows
    /\ \A u \in User : db[U(u)] \in {NoRow} \cup UserRow
    /\ \A o \in Org : db[O(o)] \in {NoRow} \cup OrgRow
    /\ \A u \in User, o \in Org : db[M(u, o)] \in {NoRow} \cup MemberRow
    /\ \A k \in Key : db[K(k)] \in {NoRow} \cup KeyRow
    /\ db[Site] \in {NoRow} \cup SiteRows
    /\ claims \subseteq [user : User, org : Org \cup {NoOrg}, role : Role]
    /\ served \in 0..MaxRequests

\* What an audit row tells of the columns of the row it is about.
Says(e) == IF e.action = "MEMBER_INVITED" THEN [status |-> "ACTIVE"] @@ e.after ELSE e.after

Created == [status |-> "ACTIVE", config |-> {}, superadmin |-> FALSE]

\* The value of a column after the first n audit rows.
Told(r, c, n) ==
    LET about == {i \in 1..n : trail[i].row = r /\ c \in DOMAIN Says(trail[i])}
    IN  IF about = {} THEN Created[c] ELSE Says(trail[Max(about)])[c]

\* The audit trail can be replayed: the status and the superadmin flag of an
\* account and the status of a membership are what the last audit row about them
\* says, although only organizations are audited with what was there before.  Only
\* the seeder promotes the owner without a row.  (The writes and audit rows of the
\* administrative endpoints, and the ORM, which does not write a value equal to
\* the loaded one.)
TrailTellsRows ==
    \A r \in Rows \ {O(o) : o \in Org}, c \in DOMAIN Created :
        (db[r] # NoRow /\ <<r, c>> # <<U(Owner), "superadmin">>) =>
            (c \in DOMAIN db[r] => db[r][c] = Told(r, c, Len(trail)))

\* A value that the row was created with, or that one of n audit rows put there.
Known(r, c, v, n) ==
    \/ v = Created[c]
    \/ \E i \in 1..n : /\ trail[i].row = r /\ c \in DOMAIN Says(trail[i])
                       /\ Says(trail[i])[c] = v

\* Every audit row about the column found what the one before it had left.
Unbroken(r, c) ==
    \A i \in DOMAIN trail : (trail[i].row = r /\ c \in DOMAIN Says(trail[i])) =>
        c \in DOMAIN trail[i].before /\ trail[i].before[c] = Told(r, c, i - 1)

\* Two decisions about an organization may overlap and undo each other, but never
\* in silence: as long as every audit row found what the one before it had left,
\* the organization is as the last one says, so that a lost change shows as a gap.
\* And nothing is stored, or recorded as what was there before, that no earlier row
\* put there (set_org_status and update_settings, which record what they loaded).
OrganizationHistory ==
    \A o \in Org, c \in {"status", "config"} : Exists(O(o)) =>
        /\ Unbroken(O(o), c) => db[O(o)][c] = Told(O(o), c, Len(trail))
        /\ Known(O(o), c, db[O(o)][c], Len(trail))
        /\ \A i \in DOMAIN trail : (trail[i].row = O(o) /\ c \in DOMAIN trail[i].before) =>
              Known(O(o), c, trail[i].before[c], i - 1)

\* An organization is created with everything that belongs to it: its audit row,
\* and, when somebody registered it, that account and its membership, although
\* two requests may claim the same slug or address at once.
OrganizationsAreFounded ==
    /\ \A o \in Org \ {Seeded, Demo} : Exists(O(o)) =>
          \E i \in DOMAIN trail : trail[i].action = "ORG_CREATED" /\ trail[i].row = O(o)
    /\ \A i \in DOMAIN trail : trail[i].action = "ORG_CREATED" =>
          /\ Exists(trail[i].row)
          /\ "admin" \in DOMAIN trail[i].after =>
                /\ Exists(U(trail[i].after.admin))
                /\ Exists(M(trail[i].after.admin, trail[i].row[2]))

\* The stored settings are the defaults overlaid with one audited request, even
\* when requests overlap: never a mixture of two of them.
SettingsAreAudited ==
    Exists(Site) =>
        \/ db[Site].value = DefaultSettings
        \/ \E i \in DOMAIN trail : /\ trail[i].action = "PLATFORM_SETTINGS_UPDATED"
                                   /\ db[Site].value = trail[i].after @@ DefaultSettings

\* Tokens outlive the rows they were issued from (roles_required looks at claims
\* only), but whoever acts on an outdated one can be found: where the account has
\* another role by now, an audit row gave it that role, or the demo was seeded with
\* it; where it is no superadmin any more, a row took the flag; and a row suspended
\* whatever is suspended of account, membership and organization.
StaleClaimsAreOnRecord ==
    \A c \in claims :
        LET account == U(c.user)
            member  == M(c.user, c.org)
            backing == {account} \cup (IF c.org = NoOrg THEN {} ELSE {member, O(c.org)})
        IN  /\ IF c.org = NoOrg
               THEN \/ db[account].superadmin
                    \/ \E i \in DOMAIN trail : /\ trail[i].action = "SUPERADMIN_CHANGED"
                                               /\ trail[i].row = account
                                               /\ ~trail[i].after.superadmin
               ELSE \/ db[member].role = c.role
                    \/ \E i \in DOMAIN trail : /\ trail[i].action = "MEMBER_INVITED"
                                               /\ trail[i].row = member
                                               /\ trail[i].after.role = db[member].role
                    \/ /\ c.org = Demo /\ db[member].role = DemoRole(c.user)
                       /\ \E i \in DOMAIN trail : trail[i].action = "DEMO_SEEDED"
            /\ \A r \in backing : (Exists(r) /\ db[r].status = "SUSPENDED") =>
                  \E i \in DOMAIN trail : /\ trail[i].row = r
                                          /\ "status" \in DOMAIN trail[i].after
                                          /\ trail[i].after.status = "SUSPENDED"

\* However often the seeders run, they only add what is missing.  seed_demo.py
\* changes no row that it finds, but for the owner's flag; and neither of them adds
\* a fixture there is already, which nothing but their own lookup prevents.
SeedAddsOnly ==
    [][\A s \in Slot : Commit(s) =>
          /\ sessions[s].op = "run_seed" =>
                \A r \in Rows : Exists(r) =>
                    \/ db'[r] = db[r]
                    \/ r = U(Owner) /\ db'[r] = [db[r] EXCEPT !.superadmin = TRUE]
          /\ \A table \in Fixture, o \in Org :
                (\E i \in Copy : Exists(F(table, o, i))) =>
                    \A i \in Copy : db'[F(table, o, i)] = db[F(table, o, i)]]_aVars

\* No request is let in with a key whose revocation was committed before: the
\* time of last use cannot be written to a row that is gone.
RevokedKeysAreDead ==
    [][\A s \in Slot : (CommitUnit(s) /\ sessions[s].op = "external") =>
          \A r \in sessions[s].reads : Exists(r)]_aVars
=============================================================================
