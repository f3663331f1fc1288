------------------------------ MODULE Library ------------------------------
(* The reference library and the file store (api/v1/references.py,            *)
(* services/references.py, services/storage.py), with the endpoints that      *)
(* store documents (verifications.py, external.py, jobs.py) and the handlers  *)
(* that read them back. A request saves files and computes codes long before  *)
(* it commits the rows that name them, and requests run in several threads.   *)
(*                                                                            *)
(*   store[p]  the file of storage path p; paths carry a fresh uuid           *)
(*   kind[p]   the extension in its stored name, what its first bytes say it  *)
(*             is, and whether the stored name ends as the client's did       *)
(*   refs      committed reference_documents rows, oldest first, with how many*)
(*             there were when the upload of each counted them (history)      *)
(*   rows[p]   how many verifications and screening items name path p         *)
(*   req[r]    a request or handler in progress                               *)
(*   losses    crashes, failed requests, jobs refused halfway                 *)
EXTENDS Naturals, Sequences, FiniteSets

CONSTANTS Requests,     \* requests and handlers in progress at a time
          Types,        \* codes of document types, "REF" without one
          SeedTypes,    \* types of the references that app/seed_demo.py makes
          Documents,    \* accepted types of documents, by extension and by content
          MaxSize,      \* largest size of a single upload
          MaxPaths,     \* bound: files ever stored
          MaxRefs,      \* bound: references
          MaxLosses     \* bound: losses

ASSUME SeedAssumption   == SeedTypes \subseteq Types
ASSUME SizeAssumption   == MaxSize \in Nat
ASSUME BoundsAssumption == {MaxPaths, MaxRefs, MaxLosses} \subseteq Nat

VARIABLES store, kind, refs, rows, req, losses

libraryVars == <<store, kind, refs, rows, req, losses>>

----------------------------------------------------------------------------
Paths     == 1..MaxPaths
RefStatus == {"ACTIVE", "ARCHIVED"}
Filing    == {"upload", "seed"}         \* what makes a reference
RefType   == [code : Types \X (Nat \ {0}), path : Paths, status : RefStatus,
              by : Filing, seen : Nat]
Idle      == [op |-> "none", step |-> "idle", code |-> <<"", 0>>, seen |-> 0,
              path |-> 0, saved |-> {}]

Unwritten == [ext |-> "none", content |-> "none", mangled |-> FALSE]

LInit ==
  /\ store = [p \in Paths |-> "absent"]
  /\ kind = [p \in Paths |-> Unwritten]
  /\ refs = <<>> /\ rows = [p \in Paths |-> 0]
  /\ req = [r \in Requests |-> Idle]
  /\ losses = 0

Jobs == {"job", "archive"}

Become(r, q) == req' = [req EXCEPT ![r] = q]

----------------------------------------------------------------------------
(* Requests begin. An upload reads the number of references now and uses it   *)
(* when it has stored and analyzed its file.                                  *)

NextCodeOfActive(type) ==       \* seeded fault: counts active references only
  <<type, Cardinality({i \in 1..Len(refs) : refs[i].status = "ACTIVE"}) + 1>>

NextCode(type) == <<type, Len(refs) + 1>>

\* Requests in progress that will add a reference; MaxRefs bounds these as well.
Uploading == {q \in Requests : req[q].op \in Filing}
HasRoom   == Len(refs) + Cardinality(Uploading) < MaxRefs

BeginUpload(r, type) ==
  /\ req[r] = Idle /\ HasRoom
  /\ Become(r, [Idle EXCEPT !.op = "upload", !.step = "ready", !.code = NextCode(type),
                            !.seen = Len(refs)])
  /\ UNCHANGED <<store, kind, refs, rows, losses>>

\* The demo seeder looks its reference up by its title and, without one, makes it
\* with a fixed code. It counts nothing.
BeginSeed(r, type) ==
  /\ req[r] = Idle /\ HasRoom
  /\ ~\E i \in 1..Len(refs) : refs[i].by = "seed" /\ refs[i].code = <<type, 1>>
  /\ Become(r, [Idle EXCEPT !.op = "seed", !.step = "ready", !.code = <<type, 1>>])
  /\ UNCHANGED <<store, kind, refs, rows, losses>>

\* A submission of one document, or a job of several files or of an archive that
\* check_zip_safety let through.
BeginWork(r, op) ==
  /\ req[r] = Idle
  /\ Become(r, [Idle EXCEPT !.op = op, !.step = "ready"])
  /\ UNCHANGED <<store, kind, refs, rows, losses>>

----------------------------------------------------------------------------
(* LocalStorage.save writes a ".part" file and renames it when it is whole.   *)

\* What a client may send, whatever name and content it has. A name is mangled
\* when sanitize_basename drops its end: it keeps 120 characters, and what follows
\* the last separator.
Upload == [ext : Documents \cup {"zip", "other"}, content : Documents \cup {"zip", "other", "none"},
           size : {0, MaxSize, MaxSize + 1}, mangled : BOOLEAN]
Sendable == {f \in Upload : f.size = 0 <=> f.content = "none"}

\* The extension in the stored name: of a mangled name anything may be left.
StoredExt(f) == IF f.mangled THEN Documents \cup {"other"} ELSE {f.ext}

\* sniff_kind: the first bytes are those of the extension's type.
Sniffed(f) == f.content = f.ext

\* validate_document_upload, for single files.
ValidUpload(f) == f.ext \in Documents /\ f.size \in 1..MaxSize /\ Sniffed(f)

\* The checks of a job for each of its files and members: no limit of their size.
ValidInJob(f) == f.ext \in Documents /\ Sniffed(f)

AdmittedByName(op, f) ==        \* seeded fault: the extension is believed
  f.ext \in Documents /\ f.size > 0

\* What each endpoint lets through. The seeder renders its file itself.
Admitted(op, f) ==
  /\ op \in Jobs => ValidInJob(f)
  /\ op \notin Jobs => ValidUpload(f)
  /\ op = "seed" => ~f.mangled

Store(r, p) ==
  \E f \in Sendable, name \in Documents \cup {"zip", "other"} :
    /\ Admitted(req[r].op, f) /\ name \in StoredExt(f)
    /\ kind' = [kind EXCEPT ![p] = [ext |-> name, content |-> f.content, mangled |-> f.mangled]]
    /\ store' = [store EXCEPT ![p] = "part"]
    /\ Become(r, [req[r] EXCEPT !.step = "writing", !.path = p])

SaveBeginsByName(r) ==          \* seeded fault: no uuid, equal names share a path
  /\ req[r].step = "ready"
  /\ \E p \in Paths : Store(r, p)
  /\ UNCHANGED <<refs, rows, losses>>

SaveBegins(r) ==
  /\ req[r].step = "ready"
  /\ \E p \in Paths :
       /\ store[p] = "absent" /\ \A q \in 1..(p - 1) : store[q] # "absent"
       /\ Store(r, p)
  /\ UNCHANGED <<refs, rows, losses>>

\* A job goes on to its next file or is complete.
SaveEnds(r) ==
  /\ req[r].step = "writing"
  /\ store' = [store EXCEPT ![req[r].path] = "complete"]
  /\ \E step \in {"saved"} \cup (IF req[r].op \in Jobs THEN {"ready"} ELSE {}) :
       Become(r, [req[r] EXCEPT !.step = step, !.saved = @ \cup {req[r].path}])
  /\ UNCHANGED <<kind, refs, rows, losses>>

\* A job whose next file is not admitted is refused as a whole; the files stored
\* before it stay behind. Of an archive such a file is left out, and the archive
\* is refused when no file is left.
RefuseJob(r) ==
  /\ req[r].op \in Jobs /\ req[r].step = "ready"
  /\ req[r].saved # {} => req[r].op = "job" /\ losses < MaxLosses
  /\ losses' = losses + (IF req[r].saved = {} THEN 0 ELSE 1)
  /\ Become(r, Idle)
  /\ UNCHANGED <<store, kind, refs, rows>>

----------------------------------------------------------------------------
(* Reading back: materialize and the analysis.                                *)

\* A handler opens the file of its row.
BeginHandle(r) ==
  /\ req[r] = Idle
  /\ \E p \in Paths :
       /\ rows[p] > 0 /\ store[p] = "complete"
       /\ Become(r, [Idle EXCEPT !.op = "handle", !.step = "reading", !.path = p])
  /\ UNCHANGED <<store, kind, refs, rows, losses>>

\* process_reference reads back what it saved.
ReadBack(r) ==
  /\ req[r].op \in Filing /\ req[r].step = "saved" /\ store[req[r].path] = "complete"
  /\ Become(r, [req[r] EXCEPT !.step = "reading"])
  /\ UNCHANGED <<store, kind, refs, rows, losses>>

\* The analysis is over. A handler is then done with the file, an upload goes on.
Analyzed(r) ==
  /\ req[r].step = "reading"
  /\ Become(r, IF req[r].op \in Filing THEN [req[r] EXCEPT !.step = "read"] ELSE Idle)
  /\ UNCHANGED <<store, kind, refs, rows, losses>>

----------------------------------------------------------------------------
(* The commit that makes the files known, or the end without one.             *)

CommitUpload(r) ==
  /\ req[r].op \in Filing /\ req[r].step = "read"
  /\ refs' = Append(refs, [code |-> req[r].code, path |-> req[r].path, status |-> "ACTIVE",
                           by |-> req[r].op, seen |-> req[r].seen])
  /\ Become(r, Idle)
  /\ UNCHANGED <<store, kind, rows, losses>>

Naming(S) == [p \in Paths |-> rows[p] + (IF p \in S THEN 1 ELSE 0)]

CommitEarly(r) ==               \* seeded fault: rows are committed before the last rename
  /\ req[r].op \in {"submit"} \cup Jobs /\ req[r].step \in {"writing", "saved"}
  /\ rows' = Naming(req[r].saved \cup {req[r].path})
  /\ Become(r, Idle)
  /\ UNCHANGED <<store, kind, refs, losses>>

CommitLast(r) ==                \* seeded fault: of a job only the last file gets a row
  /\ req[r].op \in {"submit"} \cup Jobs /\ req[r].step = "saved"
  /\ rows' = Naming({req[r].path})
  /\ Become(r, Idle)
  /\ UNCHANGED <<store, kind, refs, losses>>

CommitWork(r) ==
  /\ req[r].op \in {"submit"} \cup Jobs /\ req[r].step = "saved"
  /\ rows' = Naming(req[r].saved)
  /\ Become(r, Idle)
  /\ UNCHANGED <<store, kind, refs, losses>>

\* A full disk, a file that cannot be analyzed or a database error ends a request
\* anywhere.
Fail(r) ==
  /\ req[r] # Idle
  /\ losses < MaxLosses /\ losses' = losses + 1
  /\ Become(r, Idle)
  /\ UNCHANGED <<store, kind, refs, rows>>

\* The process dies: nothing in progress goes on, files stay as they are.
Crash ==
  /\ \E r \in Requests : req[r] # Idle
  /\ losses < MaxLosses /\ losses' = losses + 1
  /\ req' = [r \in Requests |-> Idle]
  /\ UNCHANGED <<store, kind, refs, rows>>

----------------------------------------------------------------------------
SetStatusUnchecked(i, status) == \* seeded fault: any string is taken for a status
  /\ refs' = [refs EXCEPT ![i].status = status]
  /\ UNCHANGED <<store, kind, rows, req, losses>>

\* archive_reference sets the status it is given, if it is one.
SetStatus(i, status) ==
  /\ status \in RefStatus
  /\ refs' = [refs EXCEPT ![i].status = status]
  /\ UNCHANGED <<store, kind, rows, req, losses>>

LNext ==
  \/ \E r \in Requests :
       \/ \E type \in Types : BeginUpload(r, type)
       \/ \E type \in SeedTypes : BeginSeed(r, type)
       \/ \E op \in {"submit"} \cup Jobs : BeginWork(r, op)
       \/ SaveBegins(r) \/ SaveEnds(r) \/ RefuseJob(r)
       \/ BeginHandle(r) \/ ReadBack(r) \/ Analyzed(r)
       \/ CommitUpload(r) \/ CommitWork(r) \/ Fail(r)
  \/ \E i \in 1..Len(refs), status \in RefStatus \cup {"other"} : SetStatus(i, status)
  \/ Crash

LSpec == LInit /\ [][LNext]_libraryVars

----------------------------------------------------------------------------
(* Properties. *)

\* The types of the library, of the stored files and of requests in progress.
LTypeOK ==
  /\ store \in [Paths -> {"absent", "part", "complete"}]
  /\ refs \in Seq(RefType) /\ Len(refs) <= MaxRefs
  /\ rows \in [Paths -> Nat]
  /\ \A r \in Requests :
       /\ req[r].op \in {"submit", "handle", "none"} \cup Filing \cup Jobs
       /\ req[r].step \in {"idle", "ready", "writing", "saved", "reading", "read"}
       /\ req[r].code = Idle.code \/ req[r].code \in Types \X (1..MaxRefs)
       /\ req[r].seen \in 0..MaxRefs
       /\ req[r].path \in 0..MaxPaths /\ req[r].saved \subseteq Paths
  /\ losses \in 0..MaxLosses

ReferencesOf(p) == {i \in 1..Len(refs) : refs[i].path = p}
Named(p) == rows[p] > 0 \/ ReferencesOf(p) # {}

\* Whatever crashes and fails, every row names a complete file: a download or a
\* handler never meets a missing or half-written one (save, then commit).
RowsHaveFiles == \A p \in Paths : Named(p) => store[p] = "complete"

\* No file is named by two rows, however requests interleave and whatever names
\* their uploads have: the documents of two submitters stay apart.
FilesHaveOneRow == \A p \in Paths : rows[p] + Cardinality(ReferencesOf(p)) <= 1

\* Every file is named by a row or belongs to a request in progress, unless a
\* crash, a failed request or a refused job left it behind.
NothingOrphaned ==
  losses = 0 => \A p \in Paths : store[p] # "absent" =>
    Named(p) \/ \E r \in Requests : p = req[r].path \/ p \in req[r].saved

\* An upload never gets the code of a reference that was there when it counted
\* them, archived and seeded ones included: the API and the reports name references
\* by code. Only uploads that overlap, and the seeder, may repeat a code.
NewCodesAreNew ==
  \A i, j \in 1..Len(refs) :
    refs[j].by = "upload" /\ i <= refs[j].seen => refs[i].code # refs[j].code

\* Whichever endpoint stored it, the content of a file is an accepted document, and
\* the extension of its stored name tells which, unless the name was mangled: the
\* analyzers and the download links see stored names only.
StoredAreDocuments ==
  \A p \in Paths : store[p] # "absent" =>
    /\ kind[p].content \in Documents
    /\ kind[p].ext = kind[p].content \/ kind[p].mangled
=============================================================================
