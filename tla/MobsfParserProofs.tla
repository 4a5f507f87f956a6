------------------------- MODULE MobsfParserProofs -------------------------
(***************************************************************************)
(* Proofs about one run of the MobSF parser (module MobsfParser).          *)
(***************************************************************************)
EXTENDS MobsfParser, SequenceTheorems, TLAPS

(***************************************************************************)
(* Each step keeps TypeOK.                                                  *)
(***************************************************************************)
LEMMA TypeOKStep == TypeOK /\ [Next]_vars => TypeOK'
<1> SUFFICES ASSUME TypeOK, [Next]_vars PROVE TypeOK'
  OBVIOUS
<1> USE DEF TypeOK, PCs
<1>1. CASE FetchInput
  BY <1>1 DEF FetchInput
<1>2. CASE FetchFailed
  BY <1>2 DEF FetchFailed, Exit, Diagnostics
<1>3. CASE ReadStdin
  BY <1>3 DEF ReadStdin
<1>4. CASE NoInput
  BY <1>4 DEF NoInput, Exit, Diagnostics
<1>5. CASE InvalidJson
  BY <1>5 DEF InvalidJson, Exit, Diagnostics
<1>6. CASE Normalized
  <2>1. input.doc \in Reports
    BY <1>6 DEF Normalized, Inputs
  <2>2. QED
    BY <1>6, <2>1 DEF Normalized, FindingLists
<1>7. CASE NormalizeCrashed
  <2>1. input.doc \in Reports
    BY <1>7 DEF NormalizeCrashed, Inputs
  <2>2. QED
    BY <1>7, <2>1 DEF NormalizeCrashed, Exit, Diagnostics
<1>8. CASE Uploaded
  BY <1>8 DEF Uploaded
<1>9. CASE UploadFailed
  BY <1>9 DEF UploadFailed, Exit, Diagnostics
<1>10. CASE Printed
  BY <1>10 DEF Printed
<1>11. CASE UNCHANGED vars
  BY <1>11 DEF vars
<1>12. QED
  BY <1>1, <1>2, <1>3, <1>4, <1>5, <1>6, <1>7, <1>8, <1>9, <1>10, <1>11
     DEF Next

(***************************************************************************)
(* Every stage of main() keeps its variables in their types: the input is *)
(* one of the texts it may read, the report one of the documents, and     *)
(* every findings list printed or uploaded one that normalize() computed  *)
(* from a report it did not crash on.                                     *)
(***************************************************************************)
THEOREM TypeCorrect == Spec => []TypeOK
<1>1. Init => TypeOK
  BY DEF Init, TypeOK, PCs, Inputs, FindingLists, Args
<1>2. QED
  BY <1>1, TypeOKStep, PTL DEF Spec

-----------------------------------------------------------------------------
(***************************************************************************)
(* OutputContract is not inductive as it stands: a step that ends main()   *)
(* relies on nothing having been written before it.  The strengthening    *)
(* says that before the end no stream holds anything, and that the end    *)
(* is one of three outcomes: delivered with exit 0 and no diagnostic, no  *)
(* input with exit 0 and that one diagnostic, or a failure with exit 1,   *)
(* one other diagnostic and nothing delivered.                            *)
(***************************************************************************)
Outcome ==
    \/ exitCode = 0 /\ Delivered = 1 /\ stderr = <<>>
    \/ exitCode = 0 /\ Delivered = 0 /\ stderr = <<"no_input">>
    \/ /\ exitCode = 1 /\ Delivered = 0
       /\ \E d \in Diagnostics \ {"no_input"} : stderr = <<d>>

ContractInv ==
    /\ TypeOK
    /\ pc # "done" => stdout = <<>> /\ uploads = <<>> /\ stderr = <<>>
    /\ pc = "done" => Outcome
    /\ Len(stdout) = 1 => argv.second # "http"
    /\ Len(uploads) = 1 => argv.second = "http"

LEMMA ContractInvInductive == Spec => []ContractInv
<1>1. Init => ContractInv
  BY DEF Init, ContractInv, TypeOK, PCs, Inputs, FindingLists, Args
<1>2. ContractInv /\ [Next]_vars => ContractInv'
  <2> SUFFICES ASSUME ContractInv, [Next]_vars PROVE ContractInv'
    OBVIOUS
  <2>0. TypeOK'
    BY TypeOKStep DEF ContractInv
  <2> USE DEF ContractInv, TypeOK, Outcome, Delivered
  <2>1. CASE FetchInput
    BY <2>0, <2>1 DEF FetchInput
  <2>2. CASE FetchFailed
    BY <2>0, <2>2 DEF FetchFailed, Exit, Diagnostics
  <2>3. CASE ReadStdin
    BY <2>0, <2>3 DEF ReadStdin
  <2>4. CASE NoInput
    BY <2>0, <2>4 DEF NoInput, Exit
  <2>5. CASE InvalidJson
    BY <2>0, <2>5 DEF InvalidJson, Exit, Diagnostics
  <2>6. CASE Normalized
    BY <2>0, <2>6 DEF Normalized
  <2>7. CASE NormalizeCrashed
    BY <2>0, <2>7 DEF NormalizeCrashed, Exit, Diagnostics
  <2>8. CASE Uploaded
    BY <2>0, <2>8 DEF Uploaded
  <2>9. CASE UploadFailed
    BY <2>0, <2>9 DEF UploadFailed, Exit, Diagnostics
  <2>10. CASE Printed
    BY <2>0, <2>10 DEF Printed
  <2>11. CASE UNCHANGED vars
    BY <2>11 DEF vars
  <2>12. QED
    BY <2>1, <2>2, <2>3, <2>4, <2>5, <2>6, <2>7, <2>8, <2>9, <2>10, <2>11
       DEF Next
<1>3. QED
  BY <1>1, <1>2, PTL DEF Spec

(***************************************************************************)
(* The exit contract of spec.md section 6 holds in every run of main(),   *)
(* for every report: the findings reach exactly one destination, the      *)
(* one argv names, and the status is 0 exactly when they did or the input *)
(* was empty.  Run parser_all checks it on small reports.                  *)
(***************************************************************************)
THEOREM ExitContract == Spec => []OutputContract
<1>1. ContractInv => OutputContract
  BY DEF ContractInv, OutputContract, Outcome, Delivered, TypeOK
<1>2. QED
  BY <1>1, ContractInvInductive, PTL

-----------------------------------------------------------------------------
(***************************************************************************)
(* On a report it does not crash on, a section lookup of main() finds the *)
(* array the reference normaliser takes (both give <<>> for a missing     *)
(* section or key), and that array is a sequence.                          *)
(***************************************************************************)
LEMMA ItemsMatch ==
    ASSUME NEW r \in Reports, NEW sec, NEW key,
           <<sec, key>> \in {<<"certificate_analysis", "certificate_findings">>,
                            <<"manifest_analysis", "manifest_findings">>},
           r.kind = "obj",
           SectionOK(r, sec, key)
    PROVE  /\ FindingsList(r, sec, key).items = RefItems(r, sec, key)
           /\ RefItems(r, sec, key) \in Seq({RefItems(r, sec, key)[i] :
                                             i \in DOMAIN RefItems(r, sec, key)})
<1>1. FindingsList(r, sec, key).items = RefItems(r, sec, key)
  BY DEF SectionOK, FindingsList, Section, Get, RefItems, EmptyObj, Obj, List
<1>2. IsArray(FindingsList(r, sec, key).items)
  BY ReportsAssumption DEF SectionOK
<1>3. QED
  BY <1>1, <1>2 DEF IsArray

(***************************************************************************)
(* The code's normaliser is the reference normaliser on every report it   *)
(* does not crash on: the two extend calls concatenate the findings the   *)
(* way the reference numbers them, and each parse function fills the      *)
(* fields as the reference does.                                          *)
(***************************************************************************)
LEMMA NormalizeIsReference ==
    ASSUME NEW r \in Reports, NormalizeOK(r)
    PROVE  Normalize(r) = RefNormalize(r)
<1> DEFINE c == RefItems(r, "certificate_analysis", "certificate_findings")
           m == RefItems(r, "manifest_analysis", "manifest_findings")
           T == {CertFinding(c[i]) : i \in DOMAIN c}
                \cup {ManifestFinding(m[i]) : i \in DOMAIN m}
           A == [i \in 1..Len(c) |-> CertFinding(c[i])]
           B == [i \in 1..Len(m) |-> ManifestFinding(m[i])]
<1>1. /\ CertItems(r) = c
      /\ c \in Seq({c[i] : i \in DOMAIN c})
  BY ItemsMatch DEF NormalizeOK, CertItems
<1>2. /\ ManifestItems(r) = m
      /\ m \in Seq({m[i] : i \in DOMAIN m})
  BY ItemsMatch DEF NormalizeOK, ManifestItems
<1>3. Normalize(r) = A \o B
  BY <1>1, <1>2 DEF Normalize
<1>4. /\ Len(c) \in Nat /\ DOMAIN c = 1..Len(c)
      /\ Len(m) \in Nat /\ DOMAIN m = 1..Len(m)
  BY <1>1, <1>2, LenProperties
<1>5. A \in Seq(T) /\ Len(A) = Len(c)
  <2>1. A \in [1..Len(c) -> T]
    BY <1>4
  <2>2. QED
    BY <1>4, <2>1, SeqDef
<1>6. B \in Seq(T) /\ Len(B) = Len(m)
  <2>1. B \in [1..Len(m) -> T]
    BY <1>4
  <2>2. QED
    BY <1>4, <2>1, SeqDef
<1>7. /\ A \o B \in Seq(T)
      /\ Len(A \o B) = Len(c) + Len(m)
      /\ \A i \in 1..Len(c) + Len(m) :
            (A \o B)[i] = IF i <= Len(c) THEN A[i] ELSE B[i - Len(c)]
  BY <1>5, <1>6, ConcatProperties
<1>8. DOMAIN (A \o B) = 1..(Len(c) + Len(m))
  BY <1>7, LenProperties
<1>9. \A i \in 1..Len(c) : A[i] = RefCert(c[i])
  BY DEF RefCert, CertFinding
<1>10. \A i \in 1..Len(m) : B[i] = RefManifest(m[i])
  BY DEF RefManifest, ManifestFinding, RefField, RefName, Get
<1>11. QED
  BY <1>3, <1>4, <1>7, <1>8, <1>9, <1>10 DEF RefNormalize

(***************************************************************************)
(* While main() is about to deliver, its findings are normalize() of the  *)
(* report it parsed, a report normalize() did not crash on.                *)
(***************************************************************************)
DeliverInv ==
    /\ TypeOK
    /\ pc = "deliver" =>
          /\ report \in Reports
          /\ NormalizeOK(report)
          /\ findings = Normalize(report)

LEMMA DeliverInvInductive == Spec => []DeliverInv
<1>1. Init => DeliverInv
  BY DEF Init, DeliverInv, TypeOK, PCs, Inputs, FindingLists, Args
<1>2. DeliverInv /\ [Next]_vars => DeliverInv'
  <2> SUFFICES ASSUME DeliverInv, [Next]_vars PROVE DeliverInv'
    OBVIOUS
  <2>0. TypeOK'
    BY TypeOKStep DEF DeliverInv
  <2> USE DEF DeliverInv
  <2>1. CASE Normalized
    <3>1. input.doc \in Reports
      BY <2>1 DEF Normalized, Inputs, TypeOK
    <3>2. QED
      BY <2>0, <2>1, <3>1 DEF Normalized
  <2>2. CASE Next /\ ~Normalized
    BY <2>0, <2>2 DEF Next, FetchInput, FetchFailed, ReadStdin, NoInput,
                      InvalidJson, NormalizeCrashed, Uploaded, UploadFailed,
                      Printed, Exit
  <2>3. CASE UNCHANGED vars
    BY <2>0, <2>3 DEF vars
  <2>4. QED
    BY <2>1, <2>2, <2>3
<1>3. QED
  BY <1>1, <1>2, PTL DEF Spec

(***************************************************************************)
(* For every report, the findings main() prints or uploads are the spec's *)
(* reference normalisation of it: certificate findings first, each source *)
(* in input order, every field with its documented default.  Run          *)
(* parser_all checks it on small reports.                                  *)
(***************************************************************************)
THEOREM NormalizeMatchesSpec == Spec => []FindingsMatchReference
<1>1. DeliverInv => FindingsMatchReference
  BY NormalizeIsReference DEF DeliverInv, FindingsMatchReference
<1>2. QED
  BY <1>1, DeliverInvInductive, PTL

=============================================================================
