--------------------------- MODULE AccountsProofs ---------------------------
(* Machine-checked facts about Accounts, for any accounts, organizations, keys *)
(* and slots, any bound on requests, and any set of operations that never      *)
(* overlap: the empty one included, so every request may meet every other.     *)
EXTENDS Accounts, TLAPS

(* Maps from rows to columns. *)

LEMMA MissingRows ==
    ASSUME NEW rows
    PROVE  /\ DOMAIN Missing(rows) \subseteq DOMAIN rows
           /\ \A r \in DOMAIN Missing(rows) : Missing(rows)[r] = rows[r]
  BY DEF Missing

\* Of a row, the columns of other values than those that were loaded.
LEMMA ChangedRows ==
    ASSUME NEW rows
    PROVE  /\ DOMAIN Changed(rows) \subseteq DOMAIN rows
           /\ \A r \in DOMAIN Changed(rows) :
                 /\ DOMAIN Changed(rows)[r] # {}
                 /\ DOMAIN Changed(rows)[r] \subseteq DOMAIN rows[r]
                 /\ \A c \in DOMAIN Changed(rows)[r] : Changed(rows)[r][c] = rows[r][c]
  BY DEF Changed

LEMMA NoRowsAtAll == DOMAIN Nothing = {}
  BY DEF Nothing

\* The settings row is not a row of another table.
LEMMA SiteApart ==
    /\ \A u : Site # U(u)
    /\ \A o : Site # O(o)
    /\ \A k : Site # K(k)
    /\ \A o : Site # T(o)
    /\ \A u, o : Site # M(u, o)
    /\ \A table, o, i : Site # F(table, o, i)
<1>1. Site[1] = "platform_setting"
  BY DEF Site
<1>2. /\ \A u : U(u)[1] = "user"
      /\ \A o : O(o)[1] = "organization" /\ T(o)[1] = "document_type"
      /\ \A k : K(k)[1] = "api_key"
  BY DEF U, O, K, T
<1>3. \A u, o : M(u, o)[1] = "membership"
  BY DEF M
<1>4. \A table, o, i : Len(F(table, o, i)) = 3 /\ Len(Site) = 1
  BY DEF F, Site
<1> QED BY <1>1, <1>2, <1>3, <1>4

-----------------------------------------------------------------------------
(* What holds of every unit of work. *)

\* Settings that are the defaults, or those overlaid with a request that is on
\* the given piece of the trail.
Recorded(value, rows) ==
    \/ value = DefaultSettings
    \/ \E i \in DOMAIN rows : /\ rows[i].action = "PLATFORM_SETTINGS_UPDATED"
                              /\ value = rows[i].after @@ DefaultSettings

\* A key's request uses only rows that it writes; whoever writes the settings
\* row records it.
IsSeq(t) == \E S : t \in Seq(S)

Sound(unit) ==
    /\ unit.op = "external" => unit.reads \subseteq DOMAIN unit.updates
    /\ IsSeq(unit.audit)
    /\ Site \in DOMAIN unit.inserts => Recorded(unit.inserts[Site].value, unit.audit)
    /\ Site \in DOMAIN unit.updates => /\ "value" \in DOMAIN unit.updates[Site]
                                       /\ Recorded(unit.updates[Site].value, unit.audit)
    /\ Site \notin unit.deletes

AccountsInv ==
    /\ sessions = [s \in Slot |-> sessions[s]]
    /\ \A s \in Slot : sessions[s] # Idle => Sound(sessions[s])
    /\ IsSeq(trail)
    /\ DOMAIN db = Rows
    /\ SettingsAreAudited

LEMMA NoEntries == IsSeq(<<>>)
<1>1. <<>> \in Seq({})
  OBVIOUS
<1> QED BY <1>1 DEF IsSeq

LEMMA OneEntry ==
    ASSUME NEW a, NEW r, NEW b, NEW x, NEW t, t = <<Entry(a, r, b, x)>>
    PROVE  IsSeq(t) /\ 1 \in DOMAIN t /\ t[1].action = a /\ t[1].after = x
<1>1. t \in Seq({Entry(a, r, b, x)}) /\ 1 \in DOMAIN t /\ t[1] = Entry(a, r, b, x)
  OBVIOUS
<1> QED BY <1>1 DEF IsSeq, Entry

\* What is on either of two pieces of the trail is on the whole.
LEMMA Joined ==
    ASSUME NEW p, NEW q, IsSeq(p), IsSeq(q)
    PROVE  /\ IsSeq(p \o q)
           /\ \A v : Recorded(v, p) \/ Recorded(v, q) => Recorded(v, p \o q)
<1>1. PICK A : p \in Seq(A)
  BY DEF IsSeq
<1>2. PICK B : q \in Seq(B)
  BY DEF IsSeq
<1>3. p \in Seq(A \cup B) /\ q \in Seq(A \cup B) /\ p \o q \in Seq(A \cup B)
  BY <1>1, <1>2
<1>4. \A i \in DOMAIN p : i \in DOMAIN (p \o q) /\ (p \o q)[i] = p[i]
  BY <1>3
<1>5. \A i \in DOMAIN q : Len(p) + i \in DOMAIN (p \o q) /\ (p \o q)[Len(p) + i] = q[i]
  BY <1>3
<1>6. \A v : Recorded(v, p) \/ Recorded(v, q) => Recorded(v, p \o q)
  BY <1>4, <1>5 DEF Recorded
<1> QED BY <1>3, <1>6 DEF IsSeq

-----------------------------------------------------------------------------
(* Steps. *)

\* A unit that is opened.
LEMMA Begun ==
    ASSUME AccountsInv, NEW s \in Slot, NEW unit, Begin(s, unit), Sound(unit)
    PROVE  AccountsInv'
<1>1. sessions' = [sessions EXCEPT ![s] = unit] /\ UNCHANGED <<db, trail>>
  BY DEF Begin, Open
<1>2. \A x \in Slot : sessions'[x] = IF x = s THEN unit ELSE sessions[x]
  BY <1>1 DEF AccountsInv
<1>3. sessions' = [x \in Slot |-> sessions'[x]]
  BY <1>1 DEF AccountsInv
<1>4. SettingsAreAudited'
  BY <1>1 DEF AccountsInv, SettingsAreAudited, Exists
<1> QED BY <1>1, <1>2, <1>3, <1>4 DEF AccountsInv, Sound

\* A slot that is cleared, with nothing written.
LEMMA RefuseHolds ==
    ASSUME AccountsInv, NEW s \in Slot, Refuse(s)
    PROVE  AccountsInv'
<1>1. sessions' = [sessions EXCEPT ![s] = Idle] /\ UNCHANGED <<db, trail>>
  BY DEF Refuse, Rollback
<1>2. \A x \in Slot : sessions'[x] = IF x = s THEN Idle ELSE sessions[x]
  BY <1>1 DEF AccountsInv
<1>3. sessions' = [x \in Slot |-> sessions'[x]]
  BY <1>1 DEF AccountsInv
<1>4. SettingsAreAudited'
  BY <1>1 DEF AccountsInv, SettingsAreAudited, Exists
<1> QED BY <1>1, <1>2, <1>3, <1>4 DEF AccountsInv, Sound

LEMMA CommitHolds ==
    ASSUME AccountsInv, NEW s \in Slot, Commit(s)
    PROVE  AccountsInv'
<1> DEFINE unit == sessions[s]
<1>1. /\ unit # Idle /\ Sound(unit)
      /\ sessions' = [sessions EXCEPT ![s] = Idle]
      /\ db' = Applied(unit) /\ trail' = trail \o unit.audit
  BY DEF Commit, CommitUnit, AccountsInv
<1>2. \A x \in Slot : sessions'[x] = IF x = s THEN Idle ELSE sessions[x]
  BY <1>1 DEF AccountsInv
<1>3. sessions' = [x \in Slot |-> sessions'[x]]
  BY <1>1 DEF AccountsInv
<1>4. /\ IsSeq(trail')
      /\ \A v : Recorded(v, trail) \/ Recorded(v, unit.audit) => Recorded(v, trail')
  BY <1>1, Joined DEF AccountsInv, Sound
<1>5. DOMAIN db' = Rows /\ Site \in Rows
  BY <1>1 DEF AccountsInv, Applied, Rows
<1>6. SettingsAreAudited'
  <2> SUFFICES ASSUME db'[Site] # NoRow PROVE Recorded(db'[Site].value, trail')
    BY DEF SettingsAreAudited, Exists, Recorded
  <2>1. CASE Site \in DOMAIN unit.inserts
    BY <1>1, <1>4, <1>5, <2>1 DEF Applied, Sound, AccountsInv
  <2>2. CASE Site \notin DOMAIN unit.inserts /\ Site \in DOMAIN unit.updates
    <3>1. db'[Site] = unit.updates[Site] @@ db[Site]
      BY <1>1, <1>5, <2>2 DEF Applied, Sound, AccountsInv
    <3>2. db'[Site]["value"] = unit.updates[Site]["value"]
      BY <1>1, <2>2, <3>1 DEF Sound, @@
    <3> QED BY <1>1, <1>4, <2>2, <3>2 DEF Sound
  <2>3. CASE Site \notin DOMAIN unit.inserts /\ Site \notin DOMAIN unit.updates
    <3>1. db'[Site] = db[Site]
      BY <1>1, <1>5, <2>3 DEF Applied, Sound, AccountsInv
    <3>2. Recorded(db[Site].value, trail)
      BY <3>1 DEF AccountsInv, SettingsAreAudited, Exists, Recorded
    <3> QED BY <1>4, <3>1, <3>2
  <2> QED BY <2>1, <2>2, <2>3
<1> QED BY <1>1, <1>2, <1>3, <1>4, <1>5, <1>6 DEF AccountsInv, Sound

\* A key that expires is not a settings row.
LEMMA ExpiryHolds ==
    ASSUME AccountsInv, NEW k \in Key, KeyExpires(k)
    PROVE  AccountsInv'
<1>1. db' = [db EXCEPT ![K(k)].expired = TRUE] /\ UNCHANGED <<trail, sessions>>
  BY DEF KeyExpires
<1>2. DOMAIN db' = Rows /\ db'[Site] = db[Site]
  BY <1>1, SiteApart DEF AccountsInv, Rows
<1>3. SettingsAreAudited'
  BY <1>1, <1>2 DEF AccountsInv, SettingsAreAudited, Exists
<1> QED BY <1>1, <1>2, <1>3 DEF AccountsInv, Sound

\* The units of the handlers that are about neither the settings nor a key's use.
Elsewhere(unit) ==
    /\ unit.op # "external" /\ IsSeq(unit.audit)
    /\ Site \notin DOMAIN unit.inserts
    /\ Site \notin DOMAIN unit.updates
    /\ Site \notin unit.deletes

LEMMA BegunElsewhere ==
    ASSUME AccountsInv, NEW s \in Slot, NEW unit, Begin(s, unit), Elsewhere(unit)
    PROVE  AccountsInv'
<1>1. Sound(unit)
  BY DEF Sound, Elsewhere
<1> QED BY <1>1, Begun

\* The rows of these handlers are found or not: either way, not the settings row.
LEMMA Apart ==
    ASSUME NEW rows, Site \notin DOMAIN rows
    PROVE  Site \notin DOMAIN Missing(rows) /\ Site \notin DOMAIN Changed(rows)
  BY MissingRows, ChangedRows

LEMMA RegisterHolds ==
    ASSUME AccountsInv, NEW s \in Slot, NEW u, NEW o, Register(s, u, o)
    PROVE  AccountsInv'
<1> DEFINE inserts == O(o) :> NewOrg @@ U(u) :> NewUser @@ M(u, o) :> Member("ADMIN")
           audit   == <<Entry("ORG_CREATED", O(o), Nothing, [admin |-> u])>>
           unit    == [Unit("register") EXCEPT !.inserts = inserts,
                                               !.audit = audit, !.tokens = {<<u, o>>}]
<1>1. Begin(s, unit)
  BY DEF Register
<1>2. Site \notin DOMAIN inserts
  BY SiteApart DEF :>, @@
<1>3. IsSeq(audit)
  BY OneEntry
<1> HIDE DEF audit, inserts
<1>4. Elsewhere(unit)
  BY <1>2, <1>3, NoRowsAtAll DEF Elsewhere, Unit
<1> HIDE DEF unit
<1> QED BY <1>1, <1>4, BegunElsewhere

LEMMA DemoLoginHolds ==
    ASSUME AccountsInv, NEW s \in Slot, DemoLogin(s)
    PROVE  AccountsInv'
<1> DEFINE standing == Exists(O(Demo)) /\ Demo \in ActiveOrgs(db, Owner)
           inserts == Missing(O(Demo) :> NewOrg @@ U(Owner) :> NewUser)
                      @@ (IF standing THEN Nothing ELSE M(Owner, Demo) :> Member("ADMIN"))
           audit   == <<Entry("DEMO_SESSION", O(Demo), Nothing, Nothing)>>
           unit    == [Unit("demologin") EXCEPT !.inserts = inserts,
                                               !.audit = audit, !.tokens = {<<Owner, Demo>>}]
<1>1. Begin(s, unit)
  BY DEF DemoLogin
<1>2. Site \notin DOMAIN inserts
  BY SiteApart DEF :>, @@, Missing, Nothing
<1>3. IsSeq(audit)
  BY OneEntry
<1> HIDE DEF audit, inserts
<1>4. Elsewhere(unit)
  BY <1>2, <1>3, NoRowsAtAll DEF Elsewhere, Unit
<1> HIDE DEF unit
<1> QED BY <1>1, <1>4, BegunElsewhere

LEMMA InviteHolds ==
    ASSUME AccountsInv, NEW s \in Slot, NEW o, NEW u, NEW role, Invite(s, o, u, role)
    PROVE  AccountsInv'
<1> DEFINE inserts == Missing(U(u) :> NewUser @@ M(u, o) :> Member(role))
           updates == Changed(M(u, o) :> Member(role))
           audit   == <<Entry("MEMBER_INVITED", M(u, o), Nothing, [role |-> role])>>
           unit    == [Unit("invite") EXCEPT !.inserts = inserts, !.updates = updates,
                                               !.audit = audit]
<1>1. Begin(s, unit)
  BY DEF Invite
<1>2. Site \notin DOMAIN inserts /\ Site \notin DOMAIN updates
  BY SiteApart DEF :>, @@, Missing, Changed
<1>3. IsSeq(audit)
  BY OneEntry
<1> HIDE DEF audit, inserts, updates
<1>4. Elsewhere(unit)
  BY <1>2, <1>3, NoRowsAtAll DEF Elsewhere, Unit
<1> HIDE DEF unit
<1> QED BY <1>1, <1>4, BegunElsewhere

LEMMA SetMemberStatusHolds ==
    ASSUME AccountsInv, NEW s \in Slot, NEW o, NEW u, NEW status, SetMemberStatus(s, o, u, status)
    PROVE  AccountsInv'
<1> DEFINE updates == Changed(M(u, o) :> [status |-> status])
           audit   == <<Entry("MEMBER_STATUS_CHANGED", M(u, o), Nothing, [status |-> status])>>
           unit    == [Unit("member_status") EXCEPT !.updates = updates,
                                               !.audit = audit]
<1>1. Begin(s, unit)
  BY DEF SetMemberStatus
<1>2. Site \notin DOMAIN updates
  BY SiteApart DEF :>, Changed
<1>3. IsSeq(audit)
  BY OneEntry
<1> HIDE DEF audit, updates
<1>4. Elsewhere(unit)
  BY <1>2, <1>3, NoRowsAtAll DEF Elsewhere, Unit
<1> HIDE DEF unit
<1> QED BY <1>1, <1>4, BegunElsewhere

LEMMA ConfigureHolds ==
    ASSUME AccountsInv, NEW s \in Slot, NEW o, NEW parts, Configure(s, o, parts)
    PROVE  AccountsInv'
<1> DEFINE merged  == [config |-> db[O(o)].config \cup parts]
           updates == Changed(O(o) :> merged)
           audit   == <<Entry("ORG_CONFIG_UPDATED", O(o), [config |-> db[O(o)].config], merged)>>
           unit    == [Unit("org_config") EXCEPT !.updates = updates, !.audit = audit]
<1>1. Begin(s, unit)
  BY DEF Configure
<1>2. Site \notin DOMAIN updates
  BY SiteApart DEF :>, Changed
<1>3. IsSeq(audit)
  BY OneEntry
<1> HIDE DEF audit, updates
<1>4. Elsewhere(unit)
  BY <1>2, <1>3, NoRowsAtAll DEF Elsewhere, Unit
<1> HIDE DEF unit
<1> QED BY <1>1, <1>4, BegunElsewhere

LEMMA CreateDocumentTypeHolds ==
    ASSUME AccountsInv, NEW s \in Slot, NEW o, CreateDocumentType(s, o)
    PROVE  AccountsInv'
<1> DEFINE inserts == T(o) :> Present
           audit   == <<Entry("DOCUMENT_TYPE_CREATED", T(o), Nothing, Nothing)>>
           unit    == [Unit("document_type") EXCEPT !.inserts = inserts,
                                               !.audit = audit]
<1>1. Begin(s, unit)
  BY DEF CreateDocumentType
<1>2. Site \notin DOMAIN inserts
  BY SiteApart DEF :>
<1>3. IsSeq(audit)
  BY OneEntry
<1> HIDE DEF audit, inserts
<1>4. Elsewhere(unit)
  BY <1>2, <1>3, NoRowsAtAll DEF Elsewhere, Unit
<1> HIDE DEF unit
<1> QED BY <1>1, <1>4, BegunElsewhere

LEMMA CreateOrganizationHolds ==
    ASSUME AccountsInv, NEW s \in Slot, NEW o, NEW admins, CreateOrganization(s, o, admins)
    PROVE  AccountsInv'
<1> DEFINE first   == {M(u, o) : u \in admins}
           inserts == O(o) :> NewOrg @@ [m \in first |-> Member("ADMIN")]
                      @@ Missing([r \in {U(u) : u \in admins} |-> NewUser])
           audit   == <<Entry("ORG_CREATED", O(o), Nothing, Nothing)>>
           unit    == [Unit("create_org") EXCEPT !.inserts = inserts, !.audit = audit]
<1>1. Begin(s, unit)
  BY DEF CreateOrganization
<1>2. Site \notin DOMAIN inserts
  BY SiteApart DEF :>, @@, Missing
<1>3. IsSeq(audit)
  BY OneEntry
<1> HIDE DEF audit, inserts
<1>4. Elsewhere(unit)
  BY <1>2, <1>3, NoRowsAtAll DEF Elsewhere, Unit
<1> HIDE DEF unit
<1> QED BY <1>1, <1>4, BegunElsewhere

LEMMA SetOrgStatusHolds ==
    ASSUME AccountsInv, NEW s \in Slot, NEW o, NEW status, SetOrgStatus(s, o, status)
    PROVE  AccountsInv'
<1> DEFINE updates == Changed(O(o) :> [status |-> status])
           audit   == <<Entry("ORG_STATUS_CHANGED", O(o), [status |-> db[O(o)].status],
                              [status |-> status])>>
           unit    == [Unit("org_status") EXCEPT !.updates = updates, !.audit = audit]
<1>1. Begin(s, unit)
  BY DEF SetOrgStatus
<1>2. Site \notin DOMAIN updates
  BY SiteApart DEF :>, Changed
<1>3. IsSeq(audit)
  BY OneEntry
<1> HIDE DEF audit, updates
<1>4. Elsewhere(unit)
  BY <1>2, <1>3, NoRowsAtAll DEF Elsewhere, Unit
<1> HIDE DEF unit
<1> QED BY <1>1, <1>4, BegunElsewhere

LEMMA SetUserStatusHolds ==
    ASSUME AccountsInv, NEW s \in Slot, NEW u, NEW status, SetUserStatus(s, u, status)
    PROVE  AccountsInv'
<1> DEFINE updates == Changed(U(u) :> [status |-> status])
           audit   == <<Entry("USER_STATUS_CHANGED", U(u), [status |-> status],
                              [status |-> status])>>
           unit    == [Unit("user_status") EXCEPT !.updates = updates, !.audit = audit]
<1>1. Begin(s, unit)
  BY DEF SetUserStatus
<1>2. Site \notin DOMAIN updates
  BY SiteApart DEF :>, Changed
<1>3. IsSeq(audit)
  BY OneEntry
<1> HIDE DEF audit, updates
<1>4. Elsewhere(unit)
  BY <1>2, <1>3, NoRowsAtAll DEF Elsewhere, Unit
<1> HIDE DEF unit
<1> QED BY <1>1, <1>4, BegunElsewhere

LEMMA ToggleSuperadminHolds ==
    ASSUME AccountsInv, NEW s \in Slot, NEW u, NEW flag, ToggleSuperadmin(s, u, flag)
    PROVE  AccountsInv'
<1> DEFINE updates == Changed(U(u) :> [superadmin |-> flag])
           audit   == <<Entry("SUPERADMIN_CHANGED", U(u), Nothing, [superadmin |-> flag])>>
           unit    == [Unit("superadmin") EXCEPT !.updates = updates, !.audit = audit]
<1>1. Begin(s, unit)
  BY DEF ToggleSuperadmin
<1>2. Site \notin DOMAIN updates
  BY SiteApart DEF :>, Changed
<1>3. IsSeq(audit)
  BY OneEntry
<1> HIDE DEF audit, updates
<1>4. Elsewhere(unit)
  BY <1>2, <1>3, NoRowsAtAll DEF Elsewhere, Unit
<1> HIDE DEF unit
<1> QED BY <1>1, <1>4, BegunElsewhere

LEMMA CreateKeyHolds ==
    ASSUME AccountsInv, NEW s \in Slot, NEW o, NEW k, CreateKey(s, o, k)
    PROVE  AccountsInv'
<1> DEFINE inserts == K(k) :> NewKey(o)
           audit   == <<Entry("API_KEY_CREATED", K(k), Nothing, Nothing)>>
           unit    == [Unit("create_key") EXCEPT !.inserts = inserts, !.audit = audit]
<1>1. Begin(s, unit)
  BY DEF CreateKey
<1>2. Site \notin DOMAIN inserts
  BY SiteApart DEF :>
<1>3. IsSeq(audit)
  BY OneEntry
<1> HIDE DEF audit, inserts
<1>4. Elsewhere(unit)
  BY <1>2, <1>3, NoRowsAtAll DEF Elsewhere, Unit
<1> HIDE DEF unit
<1> QED BY <1>1, <1>4, BegunElsewhere

LEMMA RevokeKeyHolds ==
    ASSUME AccountsInv, NEW s \in Slot, NEW k, RevokeKey(s, k)
    PROVE  AccountsInv'
<1> DEFINE audit   == <<Entry("API_KEY_REVOKED", K(k), Nothing, Nothing)>>
           unit    == [Unit("revoke_key") EXCEPT !.deletes = {K(k)}, !.audit = audit]
<1>1. Begin(s, unit)
  BY DEF RevokeKey
<1>3. IsSeq(audit)
  BY OneEntry
<1> HIDE DEF audit
<1>4. Elsewhere(unit)
  BY <1>3, NoRowsAtAll, SiteApart DEF Elsewhere, Unit
<1> HIDE DEF unit
<1> QED BY <1>1, <1>4, BegunElsewhere

LEMMA SeedDemoHolds ==
    ASSUME AccountsInv, NEW s \in Slot, NEW k, SeedDemo(s, k)
    PROVE  AccountsInv'
<1> DEFINE standing == {u \in {Owner, Staff} : Demo \in ActiveOrgs(db, u)}
           keyless == ~\E x \in Key : Exists(K(x)) /\ db[K(x)].org = Demo
           inserts == Missing(O(Demo) :> NewOrg @@ U(Owner) :> NewUser
                              @@ U(Staff) :> NewUser @@ T(Demo) :> Present)
                      @@ [m \in {M(u, Demo) : u \in {Owner, Staff} \ standing} |->
                             Member(DemoRole(m[2]))]
                      @@ NewFixture("reference", Demo)
                      @@ NewFixture("verification", Demo)
                      @@ (IF keyless THEN K(k) :> NewKey(Demo) ELSE Nothing)
           updates == Changed([m \in {M(u, Demo) : u \in standing} |-> Member(DemoRole(m[2]))])
           audit   == <<Entry("DEMO_SEEDED", O(Demo), Nothing, Nothing)>>
           unit    == [Unit("seed_demo") EXCEPT !.inserts = inserts, !.updates = updates,
                                               !.audit = audit]
<1>1. Begin(s, unit)
  BY DEF SeedDemo
<1>2. Site \notin DOMAIN inserts /\ Site \notin DOMAIN updates
  BY SiteApart DEF :>, @@, Missing, Changed, Nothing, NewFixture
<1>3. IsSeq(audit)
  BY OneEntry
<1> HIDE DEF audit, inserts, updates
<1>4. Elsewhere(unit)
  BY <1>2, <1>3, NoRowsAtAll DEF Elsewhere, Unit
<1> HIDE DEF unit
<1> QED BY <1>1, <1>4, BegunElsewhere

\* Its audit row says what the request was that is laid over the defaults.
LEMMA UpdateSettingsHolds ==
    ASSUME AccountsInv, NEW s \in Slot, NEW values, UpdateSettings(s, values)
    PROVE  AccountsInv'
<1> DEFINE rows    == Site :> SiteRow(Merged(values))
           inserts == Missing(rows)
           updates == Changed(rows)
           audit   == <<Entry("PLATFORM_SETTINGS_UPDATED", Site, Nothing, values)>>
           unit    == [Unit("settings") EXCEPT !.inserts = inserts, !.updates = updates,
                                               !.audit = audit]
<1>1. Begin(s, unit)
  BY DEF UpdateSettings
<1>2. rows[Site] = SiteRow(Merged(values))
  BY DEF :>
<1>3. /\ DOMAIN rows[Site] = {"value"}
      /\ rows[Site].value = values @@ DefaultSettings
  BY <1>2 DEF SiteRow, Merged
<1> HIDE DEF rows
<1>4. Site \in DOMAIN inserts => inserts[Site].value = values @@ DefaultSettings
  BY <1>3, MissingRows
<1>5. Site \in DOMAIN updates => /\ "value" \in DOMAIN updates[Site]
                                 /\ updates[Site].value = values @@ DefaultSettings
  <2> SUFFICES ASSUME Site \in DOMAIN updates
      PROVE  "value" \in DOMAIN updates[Site] /\ updates[Site].value = values @@ DefaultSettings
    OBVIOUS
  <2>1. /\ DOMAIN updates[Site] # {} /\ DOMAIN updates[Site] \subseteq DOMAIN rows[Site]
        /\ \A c \in DOMAIN updates[Site] : updates[Site][c] = rows[Site][c]
    BY ChangedRows
  <2> HIDE DEF updates
  <2>2. "value" \in DOMAIN updates[Site]
    BY <1>3, <2>1
  <2>3. updates[Site]["value"] = rows[Site]["value"]
    BY <2>1, <2>2
  <2> QED BY <1>3, <2>2, <2>3
<1>6. IsSeq(audit) /\ Recorded(values @@ DefaultSettings, audit)
  BY OneEntry DEF Recorded
<1> HIDE DEF inserts, updates, audit
<1>7. Sound(unit)
  BY <1>4, <1>5, <1>6 DEF Sound, Unit
<1> HIDE DEF unit
<1> QED BY <1>1, <1>7, Begun

LEMMA UseKeyHolds ==
    ASSUME AccountsInv, NEW s \in Slot, NEW k, UseKey(s, k)
    PROVE  AccountsInv'
<1> DEFINE updates == K(k) :> [used |-> TRUE]
           unit    == [Unit("external") EXCEPT !.updates = updates, !.reads = {K(k)}]
<1>1. Begin(s, unit)
  BY DEF UseKey
<1>2. DOMAIN updates = {K(k)}
  BY DEF :>
<1> HIDE DEF updates
<1>3. Sound(unit)
  BY <1>2, SiteApart, NoEntries, NoRowsAtAll DEF Sound, Unit
<1> HIDE DEF unit
<1> QED BY <1>1, <1>3, Begun

\* The seeder writes a settings row only where there is none, and the defaults.
LEMMA RunSeedHolds ==
    ASSUME AccountsInv, NEW s \in Slot, NEW sample, RunSeed(s, sample)
    PROVE  AccountsInv'
<1> DEFINE more    == IF sample THEN Missing(T(Seeded) :> Present)
                                       @@ NewFixture("reference", Seeded) ELSE Nothing
           boot    == Missing(BootRows)
           inserts == boot @@ more
           updates == Changed(U(Owner) :> [superadmin |-> TRUE])
           unit    == [Unit("run_seed") EXCEPT !.inserts = inserts, !.updates = updates]
<1>1. Begin(s, unit)
  BY DEF RunSeed
<1>2. Site \notin DOMAIN more
  BY SiteApart DEF :>, @@, Missing, NewFixture, Nothing
<1>3. Site \in DOMAIN BootRows => BootRows[Site] = SiteRow(DefaultSettings)
  BY SiteApart DEF BootRows, Accounts, :>, @@
<1>4. Site \notin DOMAIN updates
  BY SiteApart DEF :>, Changed
<1>5. Site \in DOMAIN boot => boot[Site].value = DefaultSettings
  BY <1>3, MissingRows DEF SiteRow
<1> HIDE DEF more, boot
<1>6. Site \in DOMAIN inserts => inserts[Site].value = DefaultSettings
  BY <1>2, <1>5 DEF @@
<1> HIDE DEF inserts, updates
<1>7. Sound(unit)
  BY <1>4, <1>6, NoEntries DEF Sound, Unit, Recorded
<1> HIDE DEF unit
<1> QED BY <1>1, <1>7, Begun

-----------------------------------------------------------------------------
LEMMA RequestHolds ==
    ASSUME AccountsInv, NEW s \in Slot, Requests(s)
    PROVE  AccountsInv'
  BY RegisterHolds, DemoLoginHolds, InviteHolds, SetMemberStatusHolds,
     ConfigureHolds, CreateDocumentTypeHolds, CreateOrganizationHolds,
     SetOrgStatusHolds, SetUserStatusHolds, ToggleSuperadminHolds, UpdateSettingsHolds,
     CreateKeyHolds, RevokeKeyHolds, UseKeyHolds, RunSeedHolds, SeedDemoHolds DEF Requests

LEMMA AccountsInit == Init => AccountsInv
<1> SUFFICES ASSUME Init PROVE AccountsInv
  OBVIOUS
<1>1. /\ sessions = [s \in Slot |-> sessions[s]]
      /\ \A s \in Slot : sessions[s] = Idle
      /\ DOMAIN db = Rows
  BY DEF Init
<1>2. IsSeq(trail)
  BY NoEntries DEF Init
<1>3. BootRows[Site] = SiteRow(DefaultSettings)
  BY SiteApart DEF BootRows, Accounts, :>, @@
<1>4. Site \in Rows
  BY DEF Rows
<1>5. db[Site] = NoRow \/ db[Site] = SiteRow(DefaultSettings)
  BY <1>3, <1>4 DEF Init
<1>6. SettingsAreAudited
  BY <1>5 DEF SettingsAreAudited, Exists, SiteRow
<1> QED BY <1>1, <1>2, <1>6 DEF AccountsInv

LEMMA AccountsStep == AccountsInv /\ [Next]_aVars => AccountsInv'
<1> SUFFICES ASSUME AccountsInv, [Next]_aVars PROVE AccountsInv'
  OBVIOUS
<1>1. ASSUME NEW s \in Slot, Requests(s) PROVE AccountsInv'
  BY <1>1, RequestHolds
<1>2. ASSUME NEW s \in Slot, Commit(s) PROVE AccountsInv'
  BY <1>2, CommitHolds
<1>3. ASSUME NEW s \in Slot, Refuse(s) PROVE AccountsInv'
  BY <1>3, RefuseHolds
<1>4. ASSUME NEW k \in Key, KeyExpires(k) PROVE AccountsInv'
  BY <1>4, ExpiryHolds
<1>5. CASE UNCHANGED aVars
  BY <1>5 DEF aVars, AccountsInv, Sound, SettingsAreAudited, Exists
<1> QED BY <1>1, <1>2, <1>3, <1>4, <1>5 DEF Next

LEMMA AccountsInvariant == Spec => []AccountsInv
  BY AccountsInit, AccountsStep, PTL DEF Spec

\* Whatever requests overlap, the stored settings are the defaults overlaid with
\* one audited request, for any accounts, keys and slots.
THEOREM SettingsStayAudited == Spec => []SettingsAreAudited
<1>1. AccountsInv => SettingsAreAudited
  BY DEF AccountsInv
<1> QED BY <1>1, AccountsInvariant, PTL

\* A request in the middle of using a key goes no further once the revocation of
\* the key is committed, for any number of keys and of requests at a time.
THEOREM NoUseAfterRevocation == Spec => RevokedKeysAreDead
<1>1. AccountsInv =>
        (\A s \in Slot : (CommitUnit(s) /\ sessions[s].op = "external") =>
            \A r \in sessions[s].reads : Exists(r))
  BY DEF AccountsInv, Sound, CommitUnit, Conflict, Exists
<1>2. AccountsInv /\ [Next]_aVars =>
        [\A s \in Slot : (CommitUnit(s) /\ sessions[s].op = "external") =>
            \A r \in sessions[s].reads : Exists(r)]_aVars
  BY <1>1
<1> QED BY <1>2, AccountsInvariant, PTL DEF Spec, RevokedKeysAreDead
=============================================================================
