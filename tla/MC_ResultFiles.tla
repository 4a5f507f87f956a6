--------------------------- MODULE MC_ResultFiles ---------------------------
(***************************************************************************)
(* Seven objects the scans write, chosen so that every branch of the       *)
(* classification is taken: nuclei raw output and a zap report in a scan   *)
(* folder, a generic findings.json in that folder (listed as tlsx), naabu  *)
(* findings at the top level, a findings.json below a non-scan folder      *)
(* (listed nowhere), an unrelated markdown file ("other"), and nuclei      *)
(* findings in a second scan folder, which the folder pages label tlsx.    *)
(***************************************************************************)
EXTENDS ResultFiles

MCKey(folder, scanDash, tools, ending, report) ==
    [folder |-> folder, scanDash |-> scanDash, tools |-> tools,
     ending |-> ending, report |-> report]

\* scan-1/nuclei-results.jsonl, scan-1/zap-report.html, scan-1/findings.json,
\* naabu-findings.json, results/scan-2/findings.json, notes.md,
\* scan-2/nuclei-findings.json
MCKeys ==
    { MCKey("scan-1", TRUE, {"nuclei"}, ".jsonl", FALSE),
      MCKey("scan-1", TRUE, {"zap"}, ".html", TRUE),
      MCKey("scan-1", TRUE, {}, "findings.json", FALSE),
      MCKey(None, FALSE, {"naabu"}, ".json", FALSE),
      MCKey(None, TRUE, {}, "findings.json", FALSE),
      MCKey(None, FALSE, {}, ".md", FALSE),
      MCKey("scan-2", TRUE, {"nuclei"}, "findings.json", FALSE) }

MCIndices == 0..2

=============================================================================
