------------------------------- MODULE Engine -------------------------------
(* One run of DemoVerificationEngine over one document (concrete.py): read    *)
(* the text, let the AI provider and the submitter's browser add fields,      *)
(* compare with the claimed reference, look the fields up among the active    *)
(* references (worker.py build_lookup), inspect the file, and conclude.       *)
(*                                                                            *)
(*   text      length of the extracted text                                   *)
(*   doc[k]    the extracted field k, NoField when there is none; the value   *)
(*             after a label may be "", if nothing but spaces follows it      *)
(*   match[k]  status of the comparison with the claimed reference            *)
(*   found     the lookup returned records; matched: fields some record has   *)
EXTENDS Scoring, Providers

CONSTANTS Keys,         \* field keys
          Values,       \* field values, equal if their normalized forms are
          Blanks,       \* values of punctuation only: normalized to nothing
          Lengths,      \* text lengths
          Confidences,  \* of the fields providers and browsers add, in percent
          OrgMins,      \* verified_min update_settings accepts, in tenths
          MaxRecords    \* bound: active references in the library

ASSUME KeysAssumption    == IsFiniteSet(Keys)
ASSUME ValuesAssumption  == "" \notin Values /\ Blanks \subseteq Values
ASSUME LengthsAssumption == Lengths \subseteq Nat /\ Confidences \subseteq Nat
ASSUME OrgMinsAssumption == OrgMins \subseteq 0..1000
ASSUME RecordsAssumption == MaxRecords \in Nat

VARIABLES stage, text, doc, claimed, match, found, matched, contradicted, report

engineVars == <<stage, text, doc, claimed, match, found, matched, contradicted, report>>

----------------------------------------------------------------------------
NoField  == [value |-> "", conf |-> 0]

\* Confidences of a value after a known label and of one that looks like what it
\* is, in a text layer and in a scan.
LayerLevels == [label |-> 85, pattern |-> 60]
ScanLevels  == [label |-> 75, pattern |-> 55]

\* The fields somebody adds, and those an extractor reads.
DocsOf(levels)   == [Keys -> [value : Values, conf : levels] \cup {NoField}]
ReadDocs(levels) ==
  [Keys -> [value : Values \cup {""}, conf : {levels.label}]
             \cup [value : Values, conf : {levels.pattern}] \cup {NoField}]

Docs     == [Keys -> [value : Values \cup {""}, conf : Confidences \cup {85, 75, 60, 55}]
                       \cup {NoField}]
Rows     == [Keys -> Values \cup {""}]
Nothing  == [text |-> 0, doc |-> [k \in Keys |-> NoField]]
NoReport == [verdict |-> "none", total |-> 0]

Present == {k \in Keys : doc[k] # NoField}
Valued  == {k \in Present : doc[k].value # ""}
Norm(v) == IF v \in Blanks THEN "" ELSE v

EInit ==
  /\ stage = "read" /\ text = 0 /\ doc = [k \in Keys |-> NoField]
  /\ claimed = FALSE /\ match = [k \in Keys |-> "none"]
  /\ found = FALSE /\ matched = {} /\ contradicted = FALSE /\ report = NoReport

\* What an extractor makes of a file: nothing if it cannot be opened, or has no
\* text; else, of each field, the first value it finds or none.
Extracts(levels) == {[text |-> n, doc |-> d] : n \in Lengths \ {0}, d \in ReadDocs(levels)} \cup {Nothing}

\* The same of the rendered pages; nothing where no scan OCR is installed.
ScanExtracts == Extracts(ScanLevels)

\* A run does not begin with a provider nobody registered: the task raises.
Unresolved ==
  /\ stage = "read"
  /\ \E c \in Deployment : ~Registered(c)
  /\ stage' = "raised"
  /\ UNCHANGED <<text, doc, claimed, match, found, matched, contradicted, report>>

\* The text layer if it is long enough; else a scan that reads more than the
\* layer did; else what the layer gave.
Read ==
  /\ stage = "read"
  /\ \E layer \in Extracts(LayerLevels), scan \in ScanExtracts :
       LET chosen == IF layer.text > 200 \/ scan.text <= layer.text THEN layer ELSE scan
       IN  text' = chosen.text /\ doc' = chosen.doc
  /\ stage' = "provider"
  /\ UNCHANGED <<claimed, match, found, matched, contradicted, report>>

\* _merge_fields: a value is added, or replaces a field of less confidence.
Merged(more) ==
  [k \in Keys |-> IF more[k].value # "" /\ (k \notin Present \/ more[k].conf > doc[k].conf)
                  THEN more[k] ELSE doc[k]]

\* The AI provider; one that is missing or raises leaves the fields alone.
Provide ==
  /\ stage = "provider"
  /\ \E c \in Deployment :
       /\ Registered(c)
       /\ \/ doc' = doc
          \/ \E more \in Answers(c, text, DocsOf(Confidences)) : doc' = Merged(more)
  /\ stage' = "browser"
  /\ UNCHANGED <<text, claimed, match, found, matched, contradicted, report>>

\* The fields the submitter's browser sent along: _parse_ai_evidence takes them
\* from the request, _ai_evidence_fields from the task's payload, and either
\* drops what has no key or value and clamps confidences.
Evidence == DocsOf(Confidences)

Supplement ==
  /\ stage = "browser"
  /\ doc' = doc \/ \E more \in Evidence : doc' = Merged(more)
  /\ stage' = "compare"
  /\ UNCHANGED <<text, claimed, match, found, matched, contradicted, report>>

----------------------------------------------------------------------------
\* The outcomes of comparing a field with the reference's: values that differ
\* may be similar to any degree, a match from 97% on.
Statuses(field, ref) ==
  IF field = NoField THEN {"none"}
  ELSE IF Norm(field.value) = "" \/ Norm(ref) = "" THEN {"missing"}
  ELSE IF field.value = ref THEN {"match"} ELSE {"match", "partial", "mismatch"}

\* Nothing is claimed, or one reference whatever its status is.
Compare ==
  /\ stage = "compare"
  /\ \E c \in BOOLEAN, ref \in Rows :
       /\ claimed' = c
       /\ c \/ ref = [k \in Keys |-> ""]
       /\ match' \in [Keys -> {"none", "missing", "match", "partial", "mismatch"}]
       /\ \A k \in Keys : match'[k] \in Statuses(doc[k], ref[k])
  /\ stage' = "lookup"
  /\ UNCHANGED <<text, doc, found, matched, contradicted, report>>

\* build_lookup: a record that has no other value for any value of the document.
Hit(row) ==
  Valued # {} /\ \A k \in Valued : row[k] = "" \/ Norm(row[k]) = Norm(doc[k].value)

\* ReferenceDatabaseVerifier.verify, over any library of active references.
Lookup ==
  /\ stage = "lookup"
  /\ \E library \in SUBSET Rows :
       /\ Cardinality(library) <= MaxRecords
       /\ LET hits == {row \in library : Hit(row)} IN
            /\ found' = (hits # {})
            /\ matched' = {k \in Valued : \E row \in hits : Norm(row[k]) = Norm(doc[k].value)}
  /\ stage' = "conclude"
  /\ UNCHANGED <<text, doc, claimed, match, contradicted, report>>

----------------------------------------------------------------------------
\* What IntegrityAnalyzerImpl observes of a file it can open: the producer,
\* whether it has pages, hardly any text, and whether producer and page count
\* differ from those of the claimed reference.
Structures ==
  {s \in [producer : BOOLEAN, pages : BOOLEAN, sparse : BOOLEAN,
          otherProducer : BOOLEAN, otherCount : BOOLEAN] :
     /\ s.otherProducer => s.producer /\ claimed
     /\ s.otherCount => claimed}

Off(wrong, points) == IF wrong THEN points ELSE 0

Integrity(s) ==
  LET score == 1000 - Off(~s.producer, 250) - Off(~s.pages, 200) - Off(s.sparse, 200)
                    - Off(s.otherProducer, 250) - Off(s.otherCount, 150)
  IN  IF score < 0 THEN 0 ELSE score

ShareUndivided(S, T) == Rounded(1000 * Cardinality(S), 1)   \* seeded fault

Share(S, T) == Rounded(1000 * Cardinality(S), IF T = {} THEN 1 ELSE Cardinality(T))

ConcludeFrom(integrity, suspicious) ==
  /\ contradicted' = \/ \E k \in Keys : match[k] = "mismatch"
                     \/ ~found \/ suspicious
  /\ \E ref \in Share({k \in Keys : match[k] = "match"}, Present), db \in Share(matched, Present),
        orgMin \in OrgMins :
       \E total \in Totals([ocr |-> IF text > 40 THEN 900 ELSE 400, database |-> db,
                            reference |-> ref, integrity |-> integrity]) :
         report' = Concluded(total, contradicted', orgMin)
  /\ stage' = "done"
  /\ UNCHANGED <<text, doc, claimed, match, found, matched>>

\* Scores are combined and a contradicted document is capped; a file whose
\* structure cannot be inspected has no integrity and a review finding.
Conclude ==
  /\ stage = "conclude"
  /\ \/ \E s \in Structures : ConcludeFrom(Integrity(s), s.otherProducer \/ s.otherCount)
     \/ ConcludeFrom(0, TRUE)

ENext == Unresolved \/ Read \/ Provide \/ Supplement \/ Compare \/ Lookup \/ Conclude

ESpec == EInit /\ [][ENext]_engineVars

----------------------------------------------------------------------------
(* Properties. *)

\* The types of a run's intermediate results; totals stay between 0 and 100.0,
\* but for the cap of an organization that verifies anything: down to -1.0.
ETypeOK ==
  /\ stage \in {"read", "raised", "provider", "browser", "compare", "lookup", "conclude", "done"}
  /\ text \in Lengths \cup {0} /\ doc \in Docs /\ claimed \in BOOLEAN
  /\ match \in [Keys -> {"none", "missing", "match", "partial", "mismatch"}]
  /\ found \in BOOLEAN /\ matched \subseteq Keys /\ contradicted \in BOOLEAN
  /\ report = NoReport \/ report \in [verdict : {"verified", "review", "failed"}, total : -10..1000]

\* Nothing verifies by itself on text and structure alone: a verified document
\* has a field that matches its claimed reference and a real value that an
\* active record confirms, and nothing contradicts it. The weights and the
\* threshold guarantee it, although the lookup counts a blank field as
\* confirmed by every record that lacks it.
VerifiedIsCorroborated ==
  report.verdict = "verified" =>
    /\ claimed /\ \E k \in Keys : match[k] = "match"
    /\ found /\ \E k \in matched : Norm(doc[k].value) # ""
    /\ ~contradicted

\* The handlers are given no report Verifications does not expect.
ReportFits == stage = "done" => Seen(report) \in EngineReports
=============================================================================
