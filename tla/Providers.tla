----------------------------- MODULE Providers -----------------------------
(* Which AI provider a run asks, and what comes back (services/ai/registry.py,*)
(* gemini.py, groq.py, local.py, worker.py _engine). The vendors themselves   *)
(* are not code of the repository: they may answer anything, and refuse the   *)
(* key of another vendor.                                                     *)
EXTENDS Sequences, FiniteSets

Vendor == {"gemini", "groq"}

\* AI_PROVIDER, "auto" meaning the same as "local", and the keys that are set.
Deployment == [named : Vendor \cup {"local", "unknown"}, keys : SUBSET Vendor]

\* _REGISTRY: any other name raises AIProviderError before the run begins.
Registered(c) == c.named \in Vendor \cup {"local"}

\* The candidates in the order resolve_from_config tries them.
Ordered(c) ==
  LET WithKey(v) == IF v \in c.keys THEN <<v>> ELSE <<>>
  IN  (IF c.named \in Vendor THEN <<c.named>> ELSE <<>>)
        \o WithKey("gemini") \o WithKey("groq") \o <<"local">>

\* Whatever the candidate is, it gets the Gemini key where there is one.
KeyFor(c) ==
  IF "gemini" \in c.keys THEN "gemini" ELSE IF "groq" \in c.keys THEN "groq" ELSE "none"

\* A vendor is available with any key, the local provider with an OCR analyzer;
\* _engine passes none, and the local provider that ends the chain adds nothing.
Available(c, provider) == provider \in Vendor /\ KeyFor(c) # "none"

Resolved(c) ==
  LET usable == SelectSeq(Ordered(c), LAMBDA p : Available(c, p))
  IN  IF usable = <<>> THEN "local" ELSE Head(usable)

\* The vendor rejects another vendor's key, and analyze raises for it as it does
\* for any call that fails and any response of another shape.
Refused(c) == KeyFor(c) # Resolved(c)

\* analyze: nothing from a document without text layer or a call that raised, and
\* of a response that does not parse to the end the fields before the error.
\* Empty keys and values are dropped.
Answers(c, text, fields) ==
  IF Resolved(c) = "local" \/ text = 0 \/ Refused(c) THEN {} ELSE fields
=============================================================================
