---------------------------- MODULE EngineProofs ----------------------------
(* Machine-checked facts about Engine, for any field keys and values, any      *)
(* library and any thresholds of organizations: the argument that TLC can only *)
(* sample, that 80 points are out of reach without evidence of both kinds.     *)
EXTENDS Engine, FiniteSetTheorems, TLAPS

(* Arithmetic. *)

\* A positive factor can be cancelled.
LEMMA Cancel ==
  ASSUME NEW a \in Int, NEW b \in Int, NEW d \in Nat \ {0}, a * d <= b * d
  PROVE  a <= b
<1> SUFFICES ASSUME b + 1 <= a PROVE FALSE
  OBVIOUS
<1>1. (a - b - 1) * d >= 0
  BY SMT
<1>2. (a - b - 1) * d = a * d - b * d - d
  BY SMT
<1> QED BY <1>1, <1>2

\* What Rounded returns is within half a unit of the quotient.
LEMMA RoundedError ==
  ASSUME NEW n \in Nat, NEW d \in Nat \ {0}, NEW q \in Rounded(n, d)
  PROVE  q \in Int /\ 2 * (q * d) <= 2 * n + d /\ 2 * n - d <= 2 * (q * d)
<1>1. q \in Int
  BY DEF Rounded
<1>2. q * d \in Int
  BY <1>1
<1>3. 2 * (q * d - n) \in (0 - d)..d
  BY DEF Rounded
<1> QED BY <1>1, <1>2, <1>3

\* A share of a set is between nothing and all, and nothing for no element.
LEMMA ShareBounds ==
  ASSUME NEW T, IsFiniteSet(T), NEW S \in SUBSET T, NEW q \in Share(S, T)
  PROVE  q \in 0..1000 /\ (S = {} => q = 0)
<1> DEFINE c == Cardinality(S)
           d == IF T = {} THEN 1 ELSE Cardinality(T)
<1>1. c \in Nat /\ d \in Nat \ {0} /\ c <= d
  BY FS_Subset, FS_CardinalityType, FS_EmptySet
<1>2. S = {} => c = 0
  BY FS_EmptySet
<1>3. q \in Rounded(1000 * c, d)
  BY DEF Share
<1> HIDE DEF c, d
<1>4. /\ q \in Int /\ 1000 * c \in Nat
      /\ 2 * (q * d) <= 2 * (1000 * c) + d /\ 2 * (1000 * c) - d <= 2 * (q * d)
  BY <1>1, <1>3, RoundedError
<1>5. (2 * q) * d = 2 * (q * d) /\ q * d \in Int
  BY <1>1, <1>4
<1>6. (2 * q) * d <= 2001 * d
  BY <1>1, <1>4, <1>5
<1>7. 2 * q <= 2001
  BY <1>1, <1>4, <1>6, Cancel
<1>8. (-1) * d <= (2 * q) * d
  BY <1>1, <1>4, <1>5
<1>9. -1 <= 2 * q
  BY <1>1, <1>4, <1>8, Cancel
<1>10. ASSUME S = {} PROVE q = 0
  <2>1. (2 * q) * d <= 1 * d
    BY <1>1, <1>2, <1>4, <1>5, <1>10
  <2>2. 2 * q <= 1
    BY <1>1, <1>4, <2>1, Cancel
  <2> QED BY <1>4, <1>9, <2>2
<1> QED BY <1>4, <1>7, <1>9, <1>10

\* The shares of two disjoint subsets make no more than the whole, up to rounding.
LEMMA DisjointShares ==
  ASSUME NEW T, IsFiniteSet(T), NEW S \in SUBSET T, NEW R \in SUBSET T, S \cap R = {},
         NEW q \in Share(S, T), NEW p \in Share(R, T)
  PROVE  q + p <= 1001
<1> DEFINE c == Cardinality(S)
           e == Cardinality(R)
           d == IF T = {} THEN 1 ELSE Cardinality(T)
<1>1. c \in Nat /\ e \in Nat /\ d \in Nat \ {0}
  BY FS_Subset, FS_CardinalityType, FS_EmptySet
<1>2. c + e <= d
  <2>1. IsFiniteSet(S) /\ IsFiniteSet(R) /\ IsFiniteSet(S \cup R) /\ S \cup R \subseteq T
    BY FS_Subset
  <2>2. Cardinality(S \cup R) = c + e - Cardinality(S \cap R)
    BY <2>1, FS_Union
  <2>3. Cardinality(S \cap R) = 0
    BY FS_EmptySet
  <2>4. Cardinality(S \cup R) <= Cardinality(T) /\ Cardinality(T) \in Nat
    BY <2>1, FS_Subset, FS_CardinalityType
  <2>5. Cardinality(T) <= d
    BY <2>4, FS_EmptySet
  <2> QED BY <1>1, <2>2, <2>3, <2>4, <2>5
<1>3. q \in Rounded(1000 * c, d) /\ p \in Rounded(1000 * e, d)
  BY DEF Share
<1> HIDE DEF c, d, e
<1>4. q \in Int /\ 2 * (q * d) <= 2 * (1000 * c) + d
  BY <1>1, <1>3, RoundedError
<1>5. p \in Int /\ 2 * (p * d) <= 2 * (1000 * e) + d
  BY <1>1, <1>3, RoundedError
<1>6. (q + p) * d = q * d + p * d /\ q * d \in Int /\ p * d \in Int
  BY <1>1, <1>4, <1>5
<1>7. (q + p) * d <= 1001 * d
  BY <1>1, <1>2, <1>4, <1>5, <1>6
<1> QED BY <1>1, <1>4, <1>5, <1>7, Cancel

\* The weighted total of four sub-scores.
LEMMA TotalBounds ==
  ASSUME NEW parts, NEW o \in Int, NEW b \in Int, NEW r \in Int, NEW i \in Int,
         parts.ocr = o, parts.database = b, parts.reference = r, parts.integrity = i,
         0 <= o, 0 <= b, 0 <= r, 0 <= i, o <= 1000, b <= 1000, r <= 1000, i <= 1000,
         NEW t \in Totals(parts)
  PROVE  /\ t \in Int /\ 0 <= t /\ t <= 1000
         /\ 100 * t <= 25 * o + 25 * b + 30 * r + 20 * i + 50
<1> DEFINE n == 25 * o + 25 * b + 30 * r + 20 * i
<1>2. n \in Nat /\ n <= 100000
  OBVIOUS
<1>3. t \in Rounded(n, 100)
  BY DEF Totals, Weights
<1> HIDE DEF n
<1>4. t \in Int /\ 2 * (t * 100) <= 2 * n + 100 /\ 2 * n - 100 <= 2 * (t * 100)
  <2>1. 100 \in Nat \ {0}
    OBVIOUS
  <2> QED BY <1>2, <1>3, <2>1, RoundedError
<1>5. 0 <= t /\ t <= 1000 /\ 100 * t <= n + 50
  BY <1>2, <1>4
<1> QED BY <1>4, <1>5 DEF n

\* Without a match, or with a match and a lookup that share no field, four
\* sub-scores do not reach 80.
LEMMA OutOfReach ==
  ASSUME NEW t \in Int, NEW o \in Int, NEW b \in Int, NEW r \in Int, NEW i \in Int,
         o <= 900, b <= 1000, r <= 1000, i <= 1000,
         100 * t <= 25 * o + 25 * b + 30 * r + 20 * i + 50,
         r = 0 \/ r + b <= 1001
  PROVE  t < 800
  OBVIOUS

----------------------------------------------------------------------------
(* The stages of a run.                                                       *)

\* Everything a run computes but the report is typed.
StageTypes ==
  /\ stage \in {"read", "raised", "provider", "browser", "compare", "lookup", "conclude", "done"}
  /\ text \in Lengths \cup {0} /\ doc \in Docs /\ claimed \in BOOLEAN
  /\ match \in [Keys -> {"none", "missing", "match", "partial", "mismatch"}]
  /\ found \in BOOLEAN /\ matched \subseteq Keys /\ contradicted \in BOOLEAN

\* Where the evidence of a run comes from. A field that matches has a real value
\* and was claimed; a field that is confirmed was read, by a record that was found.
Evidenced ==
  /\ \A k \in Keys : match[k] = "match" => k \in Present /\ Norm(doc[k].value) # "" /\ claimed
  /\ matched \subseteq Present /\ (matched # {} => found)

\* Before the comparison nothing matches, before the lookup nothing is confirmed.
InOrder ==
  /\ stage \in {"read", "raised", "provider", "browser", "compare"} =>
       \A k \in Keys : match[k] = "none"
  /\ stage \in {"read", "raised", "provider", "browser", "compare", "lookup"} => matched = {}
  /\ stage # "done" => report = NoReport

Reported ==
  report = NoReport \/ report \in [verdict : {"verified", "review", "failed"}, total : -10..1000]

EngineInv ==
  StageTypes /\ Evidenced /\ InOrder /\ Reported /\ ReportFits /\ VerifiedIsCorroborated

LEMMA NothingTyped == Nothing.text = 0 /\ Nothing.doc \in Docs /\ Nothing.doc = [k \in Keys |-> NoField]
  BY DEF Nothing, Docs

LEMMA SourcesTyped ==
  /\ DocsOf(Confidences) \subseteq Docs
  /\ ReadDocs(LayerLevels) \subseteq Docs
  /\ ReadDocs(ScanLevels) \subseteq Docs
<1>1. DocsOf(Confidences) \subseteq Docs
  BY DEF Docs, DocsOf
<1>2. ReadDocs(LayerLevels) \subseteq Docs
  BY DEF Docs, ReadDocs, LayerLevels
<1>3. ReadDocs(ScanLevels) \subseteq Docs
  BY DEF Docs, ReadDocs, ScanLevels
<1> QED BY <1>1, <1>2, <1>3

LEMMA EngineInit == EInit => EngineInv
<1> SUFFICES ASSUME EInit PROVE EngineInv
  OBVIOUS
<1>1. StageTypes
  BY DEF EInit, StageTypes, Docs
<1>2. report.verdict = "none" /\ stage = "read"
  BY DEF EInit, NoReport
<1> QED
  BY <1>1, <1>2 DEF EInit, EngineInv, Evidenced, InOrder, Reported, ReportFits, VerifiedIsCorroborated

\* Merging fields keeps a document a document.
LEMMA MergedTyped ==
  ASSUME doc \in Docs, NEW more \in Docs
  PROVE  Merged(more) \in Docs
  BY DEF Merged, Docs, DocsOf

\* Early stages touch the document and nothing else.
LEMMA EarlyStage ==
  ASSUME EngineInv, stage \in {"read", "provider", "browser"},
         stage' \in {"raised", "provider", "browser", "compare"},
         text' \in Lengths \cup {0}, doc' \in Docs,
         UNCHANGED <<claimed, match, found, matched, contradicted, report>>
  PROVE  EngineInv'
<1>1. StageTypes'
  BY DEF EngineInv, StageTypes
<1>2. \A k \in Keys : match[k] = "none"
  BY DEF EngineInv, InOrder
<1>3. matched = {} /\ report = NoReport
  BY DEF EngineInv, InOrder
<1>4. Evidenced' /\ InOrder'
  BY <1>2, <1>3 DEF Evidenced, InOrder
<1>5. Reported' /\ ReportFits' /\ VerifiedIsCorroborated'
  BY <1>3 DEF Reported, ReportFits, VerifiedIsCorroborated, NoReport
<1> QED BY <1>1, <1>4, <1>5 DEF EngineInv

LEMMA CompareHolds ==
  ASSUME EngineInv, Compare
  PROVE  EngineInv'
<1>1. PICK c \in BOOLEAN, ref \in Rows :
        /\ claimed' = c
        /\ c \/ ref = [k \in Keys |-> ""]
        /\ match' \in [Keys -> {"none", "missing", "match", "partial", "mismatch"}]
        /\ \A k \in Keys : match'[k] \in Statuses(doc[k], ref[k])
  BY DEF Compare
<1>2. stage = "compare" /\ stage' = "lookup" /\ UNCHANGED <<text, doc, found, matched, contradicted, report>>
  BY DEF Compare
<1>3. matched = {} /\ report = NoReport
  BY <1>2 DEF EngineInv, InOrder
<1>4. StageTypes'
  BY <1>1, <1>2 DEF EngineInv, StageTypes
<1>5. ASSUME NEW k \in Keys, match'[k] = "match"
      PROVE  k \in Present /\ Norm(doc[k].value) # "" /\ c
  <2>1. "match" \in Statuses(doc[k], ref[k])
    BY <1>1, <1>5
  <2>2. doc[k] # NoField /\ Norm(doc[k].value) # "" /\ Norm(ref[k]) # ""
    BY <2>1 DEF Statuses
  <2>3. Norm("") = ""
    BY DEF Norm
  <2>4. c
    BY <1>1, <2>2, <2>3
  <2> QED BY <2>2, <2>4 DEF Present
<1>6. Evidenced' /\ InOrder'
  BY <1>1, <1>2, <1>3, <1>5 DEF Evidenced, InOrder, Present, Norm
<1>7. Reported' /\ ReportFits' /\ VerifiedIsCorroborated'
  BY <1>2, <1>3 DEF Reported, ReportFits, VerifiedIsCorroborated, NoReport
<1> QED BY <1>4, <1>6, <1>7 DEF EngineInv

LEMMA LookupHolds ==
  ASSUME EngineInv, Lookup
  PROVE  EngineInv'
<1>1. PICK library \in SUBSET Rows :
        LET hits == {row \in library : Hit(row)} IN
          /\ found' = (hits # {})
          /\ matched' = {k \in Valued : \E row \in hits : Norm(row[k]) = Norm(doc[k].value)}
  BY DEF Lookup
<1>2. stage = "lookup" /\ stage' = "conclude" /\ UNCHANGED <<text, doc, claimed, match, contradicted, report>>
  BY DEF Lookup
<1>3. report = NoReport
  BY <1>2 DEF EngineInv, InOrder
<1>4. matched' \subseteq Present /\ (matched' # {} => found') /\ found' \in BOOLEAN
  BY <1>1 DEF Valued
<1>5. Present' = Present /\ Present \subseteq Keys
  BY <1>2 DEF Present
<1>6. StageTypes' /\ Evidenced' /\ InOrder'
  BY <1>2, <1>3, <1>4, <1>5 DEF EngineInv, StageTypes, Evidenced, InOrder, Norm
<1>7. Reported' /\ ReportFits' /\ VerifiedIsCorroborated'
  BY <1>2, <1>3 DEF Reported, ReportFits, VerifiedIsCorroborated, NoReport
<1> QED BY <1>6, <1>7 DEF EngineInv

LEMMA IntegrityBounds == \A s \in Structures : Integrity(s) \in 0..1000
<1> SUFFICES ASSUME NEW s \in Structures PROVE Integrity(s) \in 0..1000
  OBVIOUS
<1> DEFINE score == 1000 - Off(~s.producer, 250) - Off(~s.pages, 200) - Off(s.sparse, 200)
                      - Off(s.otherProducer, 250) - Off(s.otherCount, 150)
<1>1. \A b, n : Off(b, n) \in {0, n}
  BY DEF Off
<1>2. score \in Int /\ score <= 1000
  BY <1>1, SMT
<1> HIDE DEF score
<1>3. (IF score < 0 THEN 0 ELSE score) \in 0..1000
  BY <1>2
<1> QED BY <1>3 DEF Integrity, score

\* The report that ends a run. Without a match, or with no confirmed real value,
\* the weighted total stays below 80 whatever everything else contributes.
LEMMA ConcludeHolds ==
  ASSUME EngineInv, stage = "conclude", NEW integrity \in 0..1000, NEW suspicious \in BOOLEAN,
         ConcludeFrom(integrity, suspicious)
  PROVE  EngineInv'
<1> DEFINE M == {k \in Keys : match[k] = "match"}
<1>1. PICK ref \in Share(M, Present), db \in Share(matched, Present), orgMin \in OrgMins :
        \E total \in Totals([ocr |-> IF text > 40 THEN 900 ELSE 400, database |-> db,
                             reference |-> ref, integrity |-> integrity]) :
           report' = Concluded(total, contradicted', orgMin)
  BY DEF ConcludeFrom
<1>2. /\ contradicted' = (\/ \E k \in Keys : match[k] = "mismatch"
                          \/ ~found \/ suspicious)
      /\ stage' = "done" /\ UNCHANGED <<text, doc, claimed, match, found, matched>>
  BY DEF ConcludeFrom
<1>3. M \subseteq Present /\ matched \subseteq Present /\ IsFiniteSet(Present)
  BY KeysAssumption, FS_Subset DEF EngineInv, Evidenced, Present
<1>4. ref \in 0..1000 /\ db \in 0..1000 /\ (M = {} => ref = 0)
  BY <1>1, <1>3, ShareBounds
<1> DEFINE ocr == IF text > 40 THEN 900 ELSE 400
<1>5. ocr \in 0..1000 /\ ocr <= 900
  OBVIOUS
<1>6. PICK total \in Totals([ocr |-> ocr, database |-> db, reference |-> ref, integrity |-> integrity]) :
        report' = Concluded(total, contradicted', orgMin)
  BY <1>1
<1> HIDE DEF ocr, M
<1>n. /\ ocr \in Int /\ db \in Int /\ ref \in Int /\ integrity \in Int
      /\ 0 <= ocr /\ 0 <= db /\ 0 <= ref /\ 0 <= integrity
      /\ ocr <= 1000 /\ ocr <= 900 /\ db <= 1000 /\ ref <= 1000 /\ integrity <= 1000
  BY <1>4, <1>5
<1>7. /\ total \in Int /\ 0 <= total /\ total <= 1000
      /\ 100 * total <= 25 * ocr + 25 * db + 30 * ref + 20 * integrity + 50
  <2> DEFINE parts == [ocr |-> ocr, database |-> db, reference |-> ref, integrity |-> integrity]
  <2>1. parts.ocr = ocr /\ parts.database = db /\ parts.reference = ref /\ parts.integrity = integrity
    OBVIOUS
  <2>2. total \in Totals(parts)
    BY <1>6
  <2> HIDE DEF parts
  <2> QED BY ONLY <1>n, <2>1, <2>2, TotalBounds
<1>8. orgMin \in 0..1000 /\ total \in 0..1000
  BY <1>7, OrgMinsAssumption
<1>9. /\ report' \in [verdict : {"verified", "review", "failed"}, total : -10..1000]
      /\ report'.verdict = "verified" => total >= 800 /\ ~contradicted' /\ report'.total = total
  BY <1>6, <1>8 DEF Concluded, Classify, VerifiedMin, ReviewMin
<1>10. ASSUME total >= 800 PROVE M # {}
  <2> SUFFICES ASSUME M = {} PROVE FALSE
    OBVIOUS
  <2>1. ref = 0
    BY <1>4
  <2> QED BY ONLY <1>7, <1>n, <1>10, <2>1, OutOfReach
<1>11. ASSUME total >= 800 PROVE \E k \in matched : Norm(doc[k].value) # ""
  <2> SUFFICES ASSUME \A k \in matched : Norm(doc[k].value) = "" PROVE FALSE
    OBVIOUS
  <2>1. M \cap matched = {}
    BY DEF EngineInv, Evidenced, M
  <2>2. ref + db <= 1001
    <3>1. /\ M \in SUBSET Present /\ matched \in SUBSET Present /\ IsFiniteSet(Present)
          /\ ref \in Share(M, Present) /\ db \in Share(matched, Present)
      BY <1>1, <1>3
    <3> QED BY ONLY <2>1, <3>1, DisjointShares
  <2> QED BY ONLY <1>7, <1>n, <1>11, <2>2, OutOfReach
<1>12. VerifiedIsCorroborated'
  <2> SUFFICES ASSUME report'.verdict = "verified"
      PROVE  /\ claimed' /\ \E k \in Keys : match'[k] = "match"
             /\ found' /\ \E k \in matched' : Norm(doc'[k].value) # ""
             /\ ~contradicted'
    BY DEF VerifiedIsCorroborated, Norm
  <2>1. total >= 800 /\ ~contradicted'
    BY <1>9
  <2>2. PICK k \in Keys : match[k] = "match"
    BY <1>10, <2>1 DEF M
  <2>3. claimed /\ found
    BY <1>2, <2>1, <2>2 DEF EngineInv, Evidenced, StageTypes
  <2> QED BY <1>2, <1>11, <2>1, <2>2, <2>3
<1>13. ReportFits'
  BY <1>9 DEF ReportFits, Seen, EngineReports
<1>14. StageTypes'
  BY <1>2 DEF EngineInv, StageTypes
<1>15. Evidenced'
  BY <1>2 DEF EngineInv, Evidenced, Present, Norm
<1>16. InOrder' /\ Reported'
  BY <1>2, <1>9 DEF InOrder, Reported
<1> QED BY <1>12, <1>13, <1>14, <1>15, <1>16 DEF EngineInv

LEMMA EngineStep == EngineInv /\ [ENext]_engineVars => EngineInv'
<1> SUFFICES ASSUME EngineInv, [ENext]_engineVars PROVE EngineInv'
  OBVIOUS
<1>1. CASE Unresolved
  BY <1>1, EarlyStage DEF Unresolved, EngineInv, StageTypes
<1>2. CASE Read
  <2>1. PICK layer \in Extracts(LayerLevels), scan \in ScanExtracts :
          LET chosen == IF layer.text > 200 \/ scan.text <= layer.text THEN layer ELSE scan
          IN  text' = chosen.text /\ doc' = chosen.doc
    BY <1>2 DEF Read
  <2>2. \A e \in Extracts(LayerLevels) \cup Extracts(ScanLevels) :
          e.text \in Lengths \cup {0} /\ e.doc \in Docs
    BY NothingTyped, SourcesTyped DEF Extracts
  <2>3. text' \in Lengths \cup {0} /\ doc' \in Docs
    BY <2>1, <2>2 DEF ScanExtracts
  <2> QED BY <1>2, <2>3, EarlyStage DEF Read
<1>3. CASE Provide
  <2>1. doc' \in Docs
    BY <1>3, MergedTyped, SourcesTyped DEF Provide, Answers, EngineInv, StageTypes
  <2> QED BY <1>3, <2>1, EarlyStage DEF Provide, EngineInv, StageTypes
<1>4. CASE Supplement
  <2>1. doc' \in Docs
    BY <1>4, MergedTyped, SourcesTyped DEF Supplement, Evidence, EngineInv, StageTypes
  <2> QED BY <1>4, <2>1, EarlyStage DEF Supplement, EngineInv, StageTypes
<1>5. CASE Compare
  BY <1>5, CompareHolds
<1>6. CASE Lookup
  BY <1>6, LookupHolds
<1>7. CASE Conclude
  <2>1. stage = "conclude"
    BY <1>7 DEF Conclude
  <2>2. 0 \in 0..1000 /\ TRUE \in BOOLEAN
    OBVIOUS
  <2>3. ASSUME NEW s \in Structures, ConcludeFrom(Integrity(s), s.otherProducer \/ s.otherCount)
        PROVE  EngineInv'
    <3>1. (s.otherProducer \/ s.otherCount) \in BOOLEAN
      OBVIOUS
    <3>2. Integrity(s) \in 0..1000
      BY IntegrityBounds
    <3> QED BY <2>1, <2>3, <3>1, <3>2, ConcludeHolds, Zenon
  <2>4. ASSUME ConcludeFrom(0, TRUE) PROVE EngineInv'
    BY <2>1, <2>2, <2>4, ConcludeHolds, Zenon
  <2> QED BY <1>7, <2>3, <2>4, Zenon DEF Conclude
<1>8. CASE UNCHANGED engineVars
  <2>1. UNCHANGED <<stage, text, doc, claimed, match, found, matched, contradicted, report>>
    BY <1>8 DEF engineVars
  <2>2. StageTypes' /\ Evidenced' /\ InOrder'
    BY <2>1 DEF EngineInv, StageTypes, Evidenced, InOrder, Present, Norm
  <2>3. Reported' /\ ReportFits'
    BY <2>1 DEF EngineInv, Reported, ReportFits
  <2>4. VerifiedIsCorroborated'
    BY <2>1 DEF EngineInv, VerifiedIsCorroborated, Norm
  <2> QED BY <2>2, <2>3, <2>4 DEF EngineInv
<1> QED BY <1>1, <1>2, <1>3, <1>4, <1>5, <1>6, <1>7, <1>8 DEF ENext

LEMMA EngineInvariant == ESpec => []EngineInv
  BY EngineInit, EngineStep, PTL DEF ESpec

\* A run is typed, and its total stays in bounds, for any keys, values, lengths,
\* libraries and thresholds of organizations.
THEOREM RunIsTyped == ESpec => []ETypeOK
<1>1. EngineInv => ETypeOK
  BY DEF EngineInv, StageTypes, Reported, ETypeOK
<1> QED BY <1>1, EngineInvariant, PTL

\* No document verifies without a match and a confirmed real value, however many
\* fields it has, whatever the library holds and however scores are rounded.
THEOREM NothingVerifiesAlone == ESpec => []VerifiedIsCorroborated
<1>1. EngineInv => VerifiedIsCorroborated
  BY DEF EngineInv
<1> QED BY <1>1, EngineInvariant, PTL

\* Every report a run can end with is one of those Verifications expects.
THEOREM ReportsAreExpected == ESpec => []ReportFits
<1>1. EngineInv => ReportFits
  BY DEF EngineInv
<1> QED BY <1>1, EngineInvariant, PTL
=============================================================================
