--------------------------- MODULE MC_MobsfParser ---------------------------
(***************************************************************************)
(* Small reports for MobsfParser: every shape the two lookups of main()   *)
(* and the two parse functions distinguish, with at most two findings per *)
(* section.                                                               *)
(***************************************************************************)
EXTENDS MobsfParser, TLC

CONSTANT Reports0   \* overridden in the configs

Text == Str(<<"text">>)
Title == Str(<<"title">>)

\* Severities as MobSF writes them: lower case, capitals, unknown, empty.
GoodSeverities == {Str(<<"info">>), Str(<<"HIGH">>), Str(<<"bogus">>),
                   Str(<<>>)}

GoodCertTuples == {List(<<s, Text, Title>>) : s \in GoodSeverities}
\* A two-element tuple (ValueError) and a null severity (AttributeError).
BadCertTuples == {List(<<Str(<<"info">>), Text>>), List(<<Null, Text, Title>>)}

GoodManifestFindings ==
    { EmptyObj,
      Obj(("severity" :> Str(<<"CRITICAL">>)) @@ ("title" :> Title)
          @@ ("component" :> List(<<Str(<<"c1">>), Str(<<"c2">>)>>))),
      Obj(("severity" :> Str(<<"warning">>)) @@ ("name" :> Text)
          @@ ("title" :> Title) @@ ("rule" :> Str(<<"rule">>))
          @@ ("description" :> Text) @@ ("component" :> List(<<>>))) }
\* A component that is not a string (TypeError) and a null severity.
BadManifestFindings ==
    { Obj("component" :> List(<<Null>>)), Obj("severity" :> Null) }

UpToTwo(S) == {<<>>} \cup {<<x>> : x \in S} \cup {<<x, y>> : x, y \in S}

\* The values a section key may hold; Absent leaves the key out.
Absent == [kind |-> "absent"]
SectionValues(key, Items) ==
    {Absent, Null, List(<<>>), EmptyObj, Obj(key :> Null)}
    \cup {Obj(key :> List(l)) : l \in UpToTwo(Items)}

ReportOf(c, m) ==
    Obj([k \in {k1 \in {"certificate_analysis", "manifest_analysis"} :
                    (IF k1 = "certificate_analysis" THEN c ELSE m) # Absent}
            |-> IF k = "certificate_analysis" THEN c ELSE m])

MakeReports(CertItemSet, ManifestItemSet) ==
    {ReportOf(c, m) : c \in SectionValues("certificate_findings", CertItemSet),
                      m \in SectionValues("manifest_findings", ManifestItemSet)}

\* Every shape, including findings that break the spec's caller contract
\* and a document that is a list, not an object.
MCReportsAll ==
    MakeReports(GoodCertTuples \cup BadCertTuples,
                GoodManifestFindings \cup BadManifestFindings)
    \cup {List(<<>>)}

\* Only findings of the documented shape; the sections may still be null
\* or not objects.
MCReportsWellFormed == MakeReports(GoodCertTuples, GoodManifestFindings)

=============================================================================
