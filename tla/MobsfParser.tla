----------------------------- MODULE MobsfParser -----------------------------
(***************************************************************************)
(* The MobSF result parser src/scb/secureCodeBox/scanners/mobsf/parser/   *)
(* mobsf_parser.py: one run of main(), which reads a report (HTTP GET or  *)
(* stdin), parses it as JSON, normalises its certificate and manifest     *)
(* findings, and PUTs the findings JSON or prints it.                     *)
(*                                                                         *)
(* JSON values are tagged records.  A string is a sequence of atoms (its  *)
(* words), so that "" is <<>> and ", ".join is concatenation with a        *)
(* separator atom; a severity word may be written in capitals, which      *)
(* .lower() undoes.  Every exception the code does not catch ends the      *)
(* process with a traceback on stderr and exit status 1.                   *)
(***************************************************************************)
EXTENDS Naturals, Sequences

CONSTANTS
    Reports     \* the JSON documents an input may hold

(***************************************************************************)
(* JSON values.                                                           *)
(***************************************************************************)
Str(s) == [kind |-> "str", val |-> s]
Null == [kind |-> "null"]
List(s) == [kind |-> "list", items |-> s]
Obj(f) == [kind |-> "obj", fields |-> f]
EmptyObj == Obj([k \in {} |-> Null])

\* dict.get(key, default) of an object.
Get(o, k, d) == IF k \in DOMAIN o.fields THEN o.fields[k] ELSE d

\* str.lower() on a word: the words written in capitals map to lower case.
Capitalised == [INFO |-> "info", WARNING |-> "warning", HIGH |-> "high",
                CRITICAL |-> "critical", LOW |-> "low", MEDIUM |-> "medium"]
LowerAtom(a) == IF a \in DOMAIN Capitalised THEN Capitalised[a] ELSE a
Lower(s) == [i \in DOMAIN s |-> LowerAtom(s[i])]

\* ", ".join(list of strings): the strings with ", " between them.
Join(s) ==
    LET J[i \in 0..Len(s)] ==
            IF i = 0 THEN <<>>
            ELSE IF i = 1 THEN s[1].val
            ELSE J[i - 1] \o <<", ">> \o s[i].val
    IN  J[Len(s)]

\* SEVERITY_MAP.get(severity.lower(), "MEDIUM").upper()
MapSeverity(s) ==
    CASE Lower(s) = <<"info">>     -> "INFORMATIONAL"
      [] Lower(s) = <<"warning">>  -> "MEDIUM"
      [] Lower(s) = <<"high">>     -> "HIGH"
      [] Lower(s) = <<"critical">> -> "CRITICAL"
      [] Lower(s) = <<"low">>      -> "LOW"
      [] OTHER                     -> "MEDIUM"

Severities == {"INFORMATIONAL", "LOW", "MEDIUM", "HIGH", "CRITICAL"}

(***************************************************************************)
(* parse_certificate_findings: each finding is unpacked as                *)
(* (severity, description, name); a list of another length raises        *)
(* ValueError and a severity that is not a string raises AttributeError.  *)
(***************************************************************************)
CertFindingOK(f) ==
    /\ f.kind = "list"
    /\ Len(f.items) = 3
    /\ f.items[1].kind = "str"

CertFinding(f) ==
    [name        |-> f.items[3],
     description |-> f.items[2],
     category    |-> Str(<<"Certificate Analysis">>),
     location    |-> Str(<<>>),
     osi_layer   |-> Str(<<"APPLICATION">>),
     severity    |-> MapSeverity(f.items[1].val),
     source      |-> "certificate_analysis"]

(***************************************************************************)
(* parse_manifest_findings: every field has a default; the severity must  *)
(* be a string and the components a list of strings.                     *)
(***************************************************************************)
ManifestFindingOK(f) ==
    /\ f.kind = "obj"
    /\ Get(f, "severity", Str(<<"medium">>)).kind = "str"
    /\ Get(f, "component", List(<<>>)).kind = "list"
    /\ \A i \in DOMAIN Get(f, "component", List(<<>>)).items :
          Get(f, "component", List(<<>>)).items[i].kind = "str"

ManifestFinding(f) ==
    [name        |-> Get(f, "name", Get(f, "title", Str(<<>>))),
     description |-> Get(f, "description", Str(<<>>)),
     category    |-> Get(f, "rule", Str(<<"Manifest Analysis">>)),
     location    |-> Str(Join(Get(f, "component", List(<<>>)).items)),
     osi_layer   |-> Str(<<"APPLICATION">>),
     severity    |-> MapSeverity(Get(f, "severity", Str(<<"medium">>)).val),
     source      |-> "manifest_analysis"]

(***************************************************************************)
(* The two lookups of main(): report.get(section, {}).get(key, []).  A    *)
(* report or section that is not an object raises AttributeError, and a  *)
(* findings value that is not a list cannot be iterated.                  *)
(***************************************************************************)
Section(r, sec) == Get(r, sec, EmptyObj)

FindingsList(r, sec, key) == Get(Section(r, sec), key, List(<<>>))

SectionOK(r, sec, key) ==
    /\ Section(r, sec).kind = "obj"
    /\ FindingsList(r, sec, key).kind = "list"

CertItems(r) == FindingsList(r, "certificate_analysis", "certificate_findings").items
ManifestItems(r) == FindingsList(r, "manifest_analysis", "manifest_findings").items

NormalizeOK(r) ==
    /\ r.kind = "obj"
    /\ SectionOK(r, "certificate_analysis", "certificate_findings")
    /\ \A i \in DOMAIN CertItems(r) : CertFindingOK(CertItems(r)[i])
    /\ SectionOK(r, "manifest_analysis", "manifest_findings")
    /\ \A i \in DOMAIN ManifestItems(r) : ManifestFindingOK(ManifestItems(r)[i])

\* Mutant: the two extend calls in the other order.
NormalizeManifestFirst(r) ==
    [i \in 1..Len(ManifestItems(r)) |-> ManifestFinding(ManifestItems(r)[i])]
    \o [i \in 1..Len(CertItems(r)) |-> CertFinding(CertItems(r)[i])]

\* findings.extend(certificate findings); findings.extend(manifest findings)
Normalize(r) ==
    [i \in 1..Len(CertItems(r)) |-> CertFinding(CertItems(r)[i])]
    \o [i \in 1..Len(ManifestItems(r)) |-> ManifestFinding(ManifestItems(r)[i])]

\* A JSON array is a finite sequence of JSON values.
IsArray(s) == s \in Seq({s[i] : i \in DOMAIN s})

\* The two findings values main() iterates over are arrays whenever the
\* lookups that reach them succeed.
ASSUME ReportsAssumption ==
    \A r \in Reports :
       r.kind = "obj" =>
          \A sk \in {<<"certificate_analysis", "certificate_findings">>,
                     <<"manifest_analysis", "manifest_findings">>} :
             (/\ Section(r, sk[1]).kind = "obj"
              /\ FindingsList(r, sk[1], sk[2]).kind = "list")
                => IsArray(FindingsList(r, sk[1], sk[2]).items)

-----------------------------------------------------------------------------
(***************************************************************************)
(* main() as a process.                                                   *)
(***************************************************************************)

Args == {"absent", "http", "other"}   \* an argument: missing, "http...", else

Inputs == {[kind |-> "blank"], [kind |-> "invalid"]}
          \cup {[kind |-> "json", doc |-> r] : r \in Reports}

Diagnostics == {"fetch_failed", "no_input", "invalid_json", "traceback",
                "upload_failed"}

VARIABLES
    pc,         \* the stage main() is at
    argv,       \* sys.argv[1], sys.argv[2]
    input,      \* input_data
    report,     \* the parsed JSON document
    findings,   \* the normalised findings
    stdout,     \* what was printed to standard output
    stderr,     \* the diagnostics printed to standard error
    uploads,    \* the bodies PUT to the output URL
    exitCode    \* the process's exit status, once pc = "done"

vars == <<pc, argv, input, report, findings, stdout, stderr, uploads, exitCode>>

Init ==
    /\ pc = "read"
    /\ argv \in {a \in [first : Args, second : Args] :
                    a.first = "absent" => a.second = "absent"}
    /\ input = [kind |-> "blank"]
    /\ report = EmptyObj
    /\ findings = <<>>
    /\ stdout = <<>>
    /\ stderr = <<>>
    /\ uploads = <<>>
    /\ exitCode = 0

Exit(code, diag) ==
    /\ pc' = "done"
    /\ exitCode' = code
    /\ stderr' = Append(stderr, diag)

\* requests.get(url) and raise_for_status() succeed: input_data = resp.text
FetchInput ==
    /\ pc = "read"
    /\ argv.first = "http"
    /\ \E in \in Inputs : input' = in
    /\ pc' = "check"
    /\ UNCHANGED <<argv, report, findings, stdout, stderr, uploads, exitCode>>

\* The GET raises or answers a non-success status: stderr, exit 1.
FetchFailed ==
    /\ pc = "read"
    /\ argv.first = "http"
    /\ Exit(1, "fetch_failed")
    /\ UNCHANGED <<argv, input, report, findings, stdout, uploads>>

\* input_data = sys.stdin.read()
ReadStdin ==
    /\ pc = "read"
    /\ argv.first # "http"
    /\ \E in \in Inputs : input' = in
    /\ pc' = "check"
    /\ UNCHANGED <<argv, report, findings, stdout, stderr, uploads, exitCode>>

\* `if not input_data.strip()`: "No input received.", exit 0.
NoInput ==
    /\ pc = "check"
    /\ input.kind = "blank"
    /\ Exit(0, "no_input")
    /\ UNCHANGED <<argv, input, report, findings, stdout, uploads>>

\* json.loads raises JSONDecodeError: exit 1.
InvalidJson ==
    /\ pc = "check"
    /\ input.kind = "invalid"
    /\ Exit(1, "invalid_json")
    /\ UNCHANGED <<argv, input, report, findings, stdout, uploads>>

\* Mutant: the raw input text is used as the report.
NormalizedUnparsed ==
    /\ pc = "check"
    /\ input.kind = "json"
    /\ NormalizeOK(input.doc)
    /\ report' = input
    /\ findings' = Normalize(input.doc)
    /\ pc' = "deliver"
    /\ UNCHANGED <<argv, input, stdout, stderr, uploads, exitCode>>

\* The document parses; both sections are normalised.
Normalized ==
    /\ pc = "check"
    /\ input.kind = "json"
    /\ NormalizeOK(input.doc)
    /\ report' = input.doc
    /\ findings' = Normalize(input.doc)
    /\ pc' = "deliver"
    /\ UNCHANGED <<argv, input, stdout, stderr, uploads, exitCode>>

\* Normalisation raises: the traceback goes to stderr, exit status 1.
NormalizeCrashed ==
    /\ pc = "check"
    /\ input.kind = "json"
    /\ ~NormalizeOK(input.doc)
    /\ report' = input.doc
    /\ Exit(1, "traceback")
    /\ UNCHANGED <<argv, input, findings, stdout, uploads>>

\* requests.put(output_url, data=findings_json) succeeds.
Uploaded ==
    /\ pc = "deliver"
    /\ argv.second = "http"
    /\ uploads' = Append(uploads, findings)
    /\ pc' = "done"
    /\ exitCode' = 0
    /\ UNCHANGED <<argv, input, report, findings, stdout, stderr>>

\* Mutant: the failed upload is reported but the process exits 0.
UploadFailedExitZero ==
    /\ pc = "deliver"
    /\ argv.second = "http"
    /\ Exit(0, "upload_failed")
    /\ UNCHANGED <<argv, input, report, findings, stdout, uploads>>

\* The PUT raises or answers a non-success status: stderr, exit 1.
UploadFailed ==
    /\ pc = "deliver"
    /\ argv.second = "http"
    /\ Exit(1, "upload_failed")
    /\ UNCHANGED <<argv, input, report, findings, stdout, uploads>>

\* print(findings_json)
Printed ==
    /\ pc = "deliver"
    /\ argv.second # "http"
    /\ stdout' = Append(stdout, findings)
    /\ pc' = "done"
    /\ exitCode' = 0
    /\ UNCHANGED <<argv, input, report, findings, stderr, uploads>>

Next ==
    \/ FetchInput \/ FetchFailed \/ ReadStdin
    \/ NoInput \/ InvalidJson \/ Normalized \/ NormalizeCrashed
    \/ Uploaded \/ UploadFailed \/ Printed

Spec == Init /\ [][Next]_vars

-----------------------------------------------------------------------------
(***************************************************************************)
(* Properties.                                                            *)
(***************************************************************************)

PCs == {"read", "check", "deliver", "done"}

\* Every finding list main() can compute, and the empty one.
FindingLists == {Normalize(r) : r \in {d \in Reports : NormalizeOK(d)}} \cup {<<>>}

TypeOK ==
    /\ pc \in PCs
    /\ argv \in [first : Args, second : Args]
    /\ input \in Inputs
    /\ report \in Reports \cup {EmptyObj}
    /\ findings \in FindingLists
    /\ stdout \in Seq(FindingLists)
    /\ stderr \in Seq(Diagnostics)
    /\ uploads \in Seq(FindingLists)
    /\ exitCode \in {0, 1}

(***************************************************************************)
(* The reference normaliser of spec.md sections 3 and 4.2, stated by       *)
(* position: a section that is missing or not of the expected shape gives *)
(* no findings, finding i is certificate finding i for i up to their       *)
(* number and manifest finding i - (that number) after it, and each field  *)
(* takes the documented default.                                           *)
(***************************************************************************)
RefItems(r, sec, key) ==
    IF /\ sec \in DOMAIN r.fields
       /\ r.fields[sec].kind = "obj"
       /\ key \in DOMAIN r.fields[sec].fields
       /\ r.fields[sec].fields[key].kind = "list"
    THEN r.fields[sec].fields[key].items
    ELSE <<>>

RefField(f, k, d) == IF k \in DOMAIN f.fields THEN f.fields[k] ELSE d

RefName(f) ==
    IF "name" \in DOMAIN f.fields THEN f.fields["name"]
    ELSE RefField(f, "title", Str(<<>>))

RefCert(t) ==
    [name |-> t.items[3], description |-> t.items[2],
     category |-> Str(<<"Certificate Analysis">>), location |-> Str(<<>>),
     osi_layer |-> Str(<<"APPLICATION">>), severity |-> MapSeverity(t.items[1].val),
     source |-> "certificate_analysis"]

RefManifest(f) ==
    [name |-> RefName(f), description |-> RefField(f, "description", Str(<<>>)),
     category |-> RefField(f, "rule", Str(<<"Manifest Analysis">>)),
     location |-> Str(Join(RefField(f, "component", List(<<>>)).items)),
     osi_layer |-> Str(<<"APPLICATION">>),
     severity |-> MapSeverity(RefField(f, "severity", Str(<<"medium">>)).val),
     source |-> "manifest_analysis"]

RefNormalize(r) ==
    LET c == RefItems(r, "certificate_analysis", "certificate_findings")
        m == RefItems(r, "manifest_analysis", "manifest_findings")
    IN  [i \in 1..(Len(c) + Len(m)) |->
            IF i <= Len(c) THEN RefCert(c[i]) ELSE RefManifest(m[i - Len(c)])]

(***************************************************************************)
(* The findings normalize() hands to the output sink are exactly the       *)
(* reference normaliser's: certificate findings first, each source in its  *)
(* input order, no finding lost, duplicated or merged, every field as the  *)
(* spec maps it (parse_certificate_findings, parse_manifest_findings and   *)
(* the two extend calls of main()).                                        *)
(***************************************************************************)
FindingsMatchReference ==
    pc = "deliver" => findings = RefNormalize(report)

(***************************************************************************)
(* The exit contract of spec.md section 6 (and scenarios 3 and 4): when    *)
(* main() ends, the findings went to exactly one destination, standard     *)
(* output only when no output URL was given, and the status is 0 exactly   *)
(* when they were delivered or the input was empty; a failing run writes   *)
(* nothing to standard output and uploads nothing.                         *)
(***************************************************************************)
Delivered == Len(stdout) + Len(uploads)

OutputContract ==
    /\ Delivered <= 1
    /\ Len(stdout) = 1 => argv.second # "http"
    /\ Len(uploads) = 1 => argv.second = "http"
    /\ pc # "done" => Delivered = 0
    /\ pc = "done" =>
          (exitCode = 0 <=> (Delivered = 1 \/ stderr = <<"no_input">>))
    /\ Delivered = 1 => stderr = <<>>

(***************************************************************************)
(* spec.md 4.2 and 7: the normaliser never raises on missing-but-optional  *)
(* structure; a section that is missing or not an object, or a findings    *)
(* value that is not a list, yields no findings from that source.  The     *)
(* code's report.get(...).get(...) raises instead.                         *)
(***************************************************************************)
NoTraceback == \A i \in DOMAIN stderr : stderr[i] # "traceback"

=============================================================================
