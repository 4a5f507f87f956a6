----------------------------- MODULE ResultFiles -----------------------------
(***************************************************************************)
(* The result-file routes of src/scb/secureCodeBox/scanners/webapp-all/    *)
(* main_patched.py.  discover_scanner_files() lists the MinIO bucket and   *)
(* sorts every object into one per-scanner list by substrings of its key; *)
(* /discover-files, /download-scanner/{type}, /list-scanner-files/{type}  *)
(* and /download-scanner-file/{type}/{i} answer from that classification. *)
(* The routes only read the bucket; the scans write to it.                 *)
(*                                                                         *)
(* A key is abstracted to what the classification tests: its top-level    *)
(* scan folder (a key starting "scan-" and containing "/"), whether it     *)
(* contains "scan-" at all, the scanner names it contains (lower-cased),  *)
(* its ending, and whether it contains "report".  The bucket is the        *)
(* sequence of objects in the order they were written, so last_modified   *)
(* is the position: distinct writes are taken to have distinct times.     *)
(* A response is its status code and the key of the file it sends.        *)
(***************************************************************************)
EXTENDS Naturals, Integers, Sequences

LOCAL INSTANCE SequencesExt

CONSTANTS
    Keys,         \* the objects the scans may write
    MaxObjects,   \* bound on the number of objects in the bucket
    Indices,      \* file_index values a client may request
    None          \* Python's None

\* The lists discover_scanner_files() builds, in the order of its dict.
ScannerLists == {"naabu", "tlsx", "zap", "nuclei", "other"}
VARIABLE bucket   \* the objects of MINIO_BUCKET, oldest first

Init == bucket = <<>>

\* A scan writes a result object (the scanners' output, outside this file).
Write(k) ==
    /\ Len(bucket) < MaxObjects
    /\ k \notin ToSet(bucket)
    /\ bucket' = Append(bucket, k)

Next == \E k \in Keys : Write(k)

Spec == Init /\ [][Next]_bucket

(***************************************************************************)
(* The if/elif chain of discover_scanner_files(): the list an object goes *)
(* to and its file_type.  A generic findings.json outside a top-level scan *)
(* folder matches the fifth branch but is appended nowhere ("none").  The  *)
(* second disjuncts of the naabu, tlsx and zap tests (endswith            *)
(* 'naabu-findings', 'tlsx' in key, 'zap' in key) imply their first ones.  *)
(***************************************************************************)
Classify(k) ==
    IF "naabu" \in k.tools THEN <<"naabu", "findings">>
    ELSE IF "tlsx" \in k.tools THEN <<"tlsx", "findings">>
    ELSE IF "zap" \in k.tools \/ k.ending = ".html"
      THEN <<"zap", IF k.report \/ k.ending = ".html" THEN "report" ELSE "findings">>
    ELSE IF "nuclei" \in k.tools \/ k.ending = ".jsonl"
      THEN <<"nuclei", IF k.ending = ".jsonl" THEN "raw"
                       ELSE IF k.ending = ".md" THEN "summary" ELSE "findings">>
    ELSE IF k.ending = "findings.json" /\ k.scanDash
      THEN IF k.folder # None THEN <<"tlsx", "findings">> ELSE <<"none", "findings">>
    ELSE <<"other", "unknown">>

FileInfo(k) == [key |-> k, file_type |-> Classify(k)[2], scan_folder |-> k.folder]

(***************************************************************************)
(* discover_scanner_files(): {} for an empty bucket; otherwise the         *)
(* scanner lists and the scan folders, each sorted newest first.           *)
(***************************************************************************)
DiscoverScannerFiles(b) ==
    LET newest == Reverse(b)
        InList(s) == LET Test(k) == Classify(k)[1] = s
                     IN  [i \in 1..Len(SelectSeq(newest, Test)) |->
                            FileInfo(SelectSeq(newest, Test)[i])]
        folders == {b[i].folder : i \in DOMAIN b} \ {None}
        InFolder(f) == LET Test(k) == k.folder = f
                       IN  [i \in 1..Len(SelectSeq(newest, Test)) |->
                              FileInfo(SelectSeq(newest, Test)[i])]
    IN  IF b = <<>> THEN <<>>
        ELSE [scanner_files |-> [s \in ScannerLists |-> InList(s)],
              scan_folders |-> [f \in folders |-> InFolder(f)]]

\* get_latest_scanner_file(): looks scanner_type up in discover's result.
GetLatestScannerFile(b, scannerType, fileType) ==
    LET sf == DiscoverScannerFiles(b) IN
    IF scannerType \notin DOMAIN sf \/ sf[scannerType] = <<>> THEN None
    ELSE IF fileType # None
      THEN LET Test(f) == f.file_type = fileType
               filtered == SelectSeq(sf[scannerType], Test)
           IN  IF filtered = <<>> THEN None ELSE filtered[1]
    ELSE sf[scannerType][1]

\* GET /download-scanner/{scanner_type}: 404 without a file, else the file.
DownloadScannerLatest(b, scannerType, fileType) ==
    LET info == GetLatestScannerFile(b, scannerType, fileType)
    IN  IF info = None THEN [code |-> 404, key |-> None]
        ELSE [code |-> 200, key |-> info.key]

\* GET /discover-files: for each list its latest_file (files[0] or None);
\* indexing the {} of an empty bucket raises and the route answers 500.
DiscoverFiles(b) ==
    LET sf == DiscoverScannerFiles(b) IN
    IF "scanner_files" \notin DOMAIN sf
      THEN [code |-> 500, latest |-> [s \in ScannerLists |-> None]]
    ELSE [code |-> 200,
          latest |-> [s \in ScannerLists |->
                        IF sf.scanner_files[s] = <<>> THEN None
                        ELSE sf.scanner_files[s][1].key]]

\* GET /list-scanner-files/{scanner_type}: the files with their index i.
ListScannerFiles(b, scannerType) ==
    LET sf == DiscoverScannerFiles(b) IN
    IF "scanner_files" \notin DOMAIN sf THEN [code |-> 500, keys |-> <<>>]
    ELSE IF scannerType \notin DOMAIN sf.scanner_files
      THEN [code |-> 400, keys |-> <<>>]
    ELSE LET files == sf.scanner_files[scannerType]
         IN  [code |-> 200, keys |-> [i \in 1..Len(files) |-> files[i].key]]

(***************************************************************************)
(* GET /download-scanner-file/{scanner_type}/{file_index}: 404 without     *)
(* files, 400 for file_index >= len; otherwise files[file_index] with      *)
(* Python's indexing, which counts a negative index from the end and      *)
(* raises (500) below -len.                                                *)
(***************************************************************************)
DownloadScannerFileByIndex(b, scannerType, fileIndex) ==
    LET sf == DiscoverScannerFiles(b) IN
    IF "scanner_files" \notin DOMAIN sf THEN [code |-> 500, key |-> None]
    ELSE IF scannerType \notin DOMAIN sf.scanner_files
            \/ sf.scanner_files[scannerType] = <<>>
      THEN [code |-> 404, key |-> None]
    ELSE LET files == sf.scanner_files[scannerType]
             n == Len(files)
         IN  IF fileIndex >= n THEN [code |-> 400, key |-> None]
             ELSE IF fileIndex >= 0 THEN [code |-> 200, key |-> files[fileIndex + 1].key]
             ELSE IF fileIndex >= -n THEN [code |-> 200, key |-> files[n + fileIndex + 1].key]
             ELSE [code |-> 500, key |-> None]

(***************************************************************************)
(* The folder routes label a file with their own if/elif chain, which      *)
(* tests endswith('findings.json') before zap and nuclei.                  *)
(***************************************************************************)
FolderScannerType(k) ==
    IF "naabu" \in k.tools THEN "naabu"
    ELSE IF "tlsx" \in k.tools \/ k.ending = "findings.json" THEN "tlsx"
    ELSE IF "zap" \in k.tools \/ k.ending = ".html" THEN "zap"
    ELSE IF "nuclei" \in k.tools \/ k.ending = ".jsonl" THEN "nuclei"
    ELSE "unknown"

\* The newest position of an object of folder f: its latest_modified.
FolderLatest(b, f) == LET at == {i \in DOMAIN b : b[i].folder = f}
                      IN  CHOOSE i \in at : \A j \in at : j <= i

(***************************************************************************)
(* GET /list-scan-folders: each folder with its files, the scanner labels  *)
(* of its files, newest folder first; 500 on the {} of an empty bucket.    *)
(***************************************************************************)
ListScanFolders(b) ==
    LET sf == DiscoverScannerFiles(b) IN
    IF "scan_folders" \notin DOMAIN sf THEN [code |-> 500, folders |-> <<>>]
    ELSE LET Newer(f, g) == FolderLatest(b, f) > FolderLatest(b, g)
             order == SetToSortSeq(DOMAIN sf.scan_folders, Newer)
             Entry(f) == [folder_name |-> f,
                          scanners |-> {FolderScannerType(sf.scan_folders[f][i].key) :
                                          i \in DOMAIN sf.scan_folders[f]},
                          keys |-> [i \in DOMAIN sf.scan_folders[f] |->
                                      sf.scan_folders[f][i].key]]
         IN  [code |-> 200, folders |-> [i \in DOMAIN order |-> Entry(order[i])]]

\* GET /list-folder-contents/{folder_name}: 404 for an unknown folder, else
\* its files newest first, each with its label, index i and download_url.
ListFolderContents(b, folder) ==
    LET sf == DiscoverScannerFiles(b) IN
    IF "scan_folders" \notin DOMAIN sf THEN [code |-> 500, keys |-> <<>>, labels |-> <<>>]
    ELSE IF folder \notin DOMAIN sf.scan_folders
      THEN [code |-> 404, keys |-> <<>>, labels |-> <<>>]
    ELSE LET files == sf.scan_folders[folder]
         IN  [code |-> 200,
              keys |-> [i \in DOMAIN files |-> files[i].key],
              labels |-> [i \in DOMAIN files |-> FolderScannerType(files[i].key)]]

\* GET /download-folder-file/{folder_name}/{file_index}: 404, 400 for
\* file_index >= len, else files[file_index] with Python's indexing.
DownloadFolderFile(b, folder, fileIndex) ==
    LET sf == DiscoverScannerFiles(b) IN
    IF "scan_folders" \notin DOMAIN sf THEN [code |-> 500, key |-> None]
    ELSE IF folder \notin DOMAIN sf.scan_folders THEN [code |-> 404, key |-> None]
    ELSE LET files == sf.scan_folders[folder]
             n == Len(files)
         IN  IF fileIndex >= n THEN [code |-> 400, key |-> None]
             ELSE IF fileIndex >= 0 THEN [code |-> 200, key |-> files[fileIndex + 1].key]
             ELSE IF fileIndex >= -n THEN [code |-> 200, key |-> files[n + fileIndex + 1].key]
             ELSE [code |-> 500, key |-> None]

-----------------------------------------------------------------------------
\* Type invariant of the bucket.
TypeOK == bucket \in Seq(Keys) /\ Len(bucket) <= MaxObjects

(***************************************************************************)
(* Every link of the result pages fetches the file the page shows: the     *)
(* latest file /discover-files names for a scanner is the one              *)
(* /download-scanner/{type} sends ("Download the latest file for a         *)
(* specific scanner"), the i-th file of /list-scanner-files is the one its *)
(* download_url sends, and so is the i-th file of /list-folder-contents.   *)
(***************************************************************************)
ResultViewsAgree ==
    /\ \A s \in ScannerLists :
          LET shown == DiscoverFiles(bucket) IN
          shown.code = 200 /\ shown.latest[s] # None
             => DownloadScannerLatest(bucket, s, None) = [code |-> 200, key |-> shown.latest[s]]
    /\ \A s \in ScannerLists, i \in Indices :
          LET listed == ListScannerFiles(bucket, s) IN
          listed.code = 200 /\ i \in 0..(Len(listed.keys) - 1)
             => DownloadScannerFileByIndex(bucket, s, i) = [code |-> 200, key |-> listed.keys[i + 1]]
    /\ \A n \in 1..Len(ListScanFolders(bucket).folders), i \in Indices :
          LET f == ListScanFolders(bucket).folders[n].folder_name
              listed == ListFolderContents(bucket, f)
          IN  i \in 0..(Len(listed.keys) - 1)
                => DownloadFolderFile(bucket, f, i) = [code |-> 200, key |-> listed.keys[i + 1]]

=============================================================================
