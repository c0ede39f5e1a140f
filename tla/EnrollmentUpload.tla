--------------------------- MODULE EnrollmentUpload ---------------------------
(***************************************************************************)
(* The upload of a padron (the list of enrolled voters) as CSV or Excel.   *)
(* Rows are handed in batches to worker threads that write them with one   *)
(* ordered bulkWrite each.  The Excel reader awaits every batch and reads  *)
(* from a temporary file named after the clock; the CSV reader starts      *)
(* batches without awaiting them, and awaits the last one only.  A last    *)
(* CSV batch that fails is a rejection nobody handles, which ends the      *)
(* process.  Parsing, the columns and the content of rows are left out.    *)
(***************************************************************************)
EXTENDS Naturals

CONSTANTS
    Uploads,    \* the files that are posted, each once
    BatchSize,  \* rows of a full batch, 1000 in the code
    MaxRows,    \* bound of the model: rows of a file
    Stamps,     \* the milliseconds at which files are saved
    None

ASSUME UploadAssumption == BatchSize \in Nat \ {0} /\ MaxRows \in Nat

VARIABLES
    file,     \* what is posted: kind, number of rows, expected columns present
    step,     \* the await its handler is at
    read,     \* rows read so far
    sent,     \* rows handed to workers so far
    outcome,  \* the result held while the finally block runs (Excel)
    answer,   \* how the promise settled: the first settlement counts
    name,     \* the name of its temporary file
    temp,     \* the directory of temporary files: whose content each name has
    source,   \* the upload whose content the opened file has
    workers,  \* the threads started, with the rows each was given
    stored    \* <<upload, source, row>>: a row saved for the tenant of an upload

readerVars == <<read, sent, workers>>
tempVars == <<name, temp, source>>
vars == <<file, step, outcome, answer, readerVars, tempVars, stored>>

File == [kind : {"csv", "excel"}, rows : 0..MaxRows, valid : BOOLEAN]
Rows == 1..MaxRows

ASSUME NoneAssumption == None \notin File /\ None \notin Uploads /\ None \notin Stamps

Waiting == {"save", "open", "read", "batch", "final", "unlink"}

\* "orphan": the process ended after the write was sent.
Worker == [upload : Uploads, source : Uploads, first : Rows, last : Rows,
           status : {"running", "ok", "failed", "orphan"}]

TypeOK ==
    /\ file \in [Uploads -> File \cup {None}]
    /\ step \in [Uploads -> Waiting \cup {"idle", "done", "lost"}]
    /\ read \in [Uploads -> 0..MaxRows]
    /\ sent \in [Uploads -> 0..MaxRows]
    /\ \A u \in Uploads : sent[u] <= read[u] /\ read[u] - sent[u] < BatchSize
    /\ outcome \in [Uploads -> {"none", "ok", "error"}]
    /\ answer \in [Uploads -> {"none", "ok", "error"}]
    /\ name \in [Uploads -> Stamps \cup {None}]
    /\ temp \in [Stamps -> Uploads \cup {None}]
    /\ source \in [Uploads -> Uploads \cup {None}]
    /\ workers \subseteq Worker
    /\ stored \subseteq Uploads \X Uploads \X Rows

Init ==
    /\ file = [u \in Uploads |-> None]
    /\ step = [u \in Uploads |-> "idle"]
    /\ read = [u \in Uploads |-> 0]
    /\ sent = [u \in Uploads |-> 0]
    /\ outcome = [u \in Uploads |-> "none"]
    /\ answer = [u \in Uploads |-> "none"]
    /\ name = [u \in Uploads |-> None]
    /\ temp = [t \in Stamps |-> None]
    /\ source = [u \in Uploads |-> None]
    /\ workers = {}
    /\ stored = {}
-----------------------------------------------------------------------------
GoTo(u, s) == step' = [step EXCEPT ![u] = s]

\* A promise settles once: what comes later is ignored.
Settle(u, a) == answer' = [answer EXCEPT ![u] = IF @ = "none" THEN a ELSE @]

\* The block after try: the file is removed, then the result is passed on.
Leave(u, o) == GoTo(u, "unlink") /\ outcome' = [outcome EXCEPT ![u] = o]

\* processBatch: a thread of its own gets a copy of the rows in the buffer.
StartWorker(u, last) ==
    /\ workers' = workers \cup
           {[upload |-> u, source |-> source[u], first |-> sent[u] + 1, last |-> last,
             status |-> "running"]}
    /\ sent' = [sent EXCEPT ![u] = last]

Status(u, last) ==
    (CHOOSE w \in workers : w.upload = u /\ w.last = last).status

\* Mutants of ReadRow: the batch is handed over one row late, or keeps its last
\* row when it is handed over.
ReadRowLate(u) ==
    /\ step[u] = "read"
    /\ read[u] < file[source[u]].rows
    /\ read' = [read EXCEPT ![u] = @ + 1]
    /\ IF read'[u] - sent[u] > BatchSize
       THEN /\ StartWorker(u, read'[u])
            /\ GoTo(u, IF file[u].kind = "excel" THEN "batch" ELSE "read")
       ELSE UNCHANGED <<workers, sent, step>>
    /\ UNCHANGED <<file, outcome, answer, tempVars, stored>>

ReadRowKept(u) ==
    /\ step[u] = "read"
    /\ read[u] < file[source[u]].rows
    /\ read' = [read EXCEPT ![u] = @ + 1]
    /\ IF read'[u] - sent[u] >= BatchSize
       THEN /\ workers' = workers \cup
                   {[upload |-> u, source |-> source[u], first |-> sent[u] + 1,
                     last |-> read'[u], status |-> "running"]}
            /\ sent' = [sent EXCEPT ![u] = read'[u] - 1]
            /\ GoTo(u, IF file[u].kind = "excel" THEN "batch" ELSE "read")
       ELSE UNCHANGED <<workers, sent, step>>
    /\ UNCHANGED <<file, outcome, answer, tempVars, stored>>

\* The next row joins the buffer; a full buffer is handed over, by the CSV
\* reader without waiting.
ReadRow(u) ==
    /\ step[u] = "read"
    /\ read[u] < file[source[u]].rows
    /\ read' = [read EXCEPT ![u] = @ + 1]
    /\ IF read'[u] - sent[u] >= BatchSize
       THEN /\ StartWorker(u, read'[u])
            /\ GoTo(u, IF file[u].kind = "excel" THEN "batch" ELSE "read")
       ELSE UNCHANGED <<workers, sent, step>>
    /\ UNCHANGED <<file, outcome, answer, tempVars, stored>>

\* The reader fails on a row: the CSV promise is rejected and no 'end' follows,
\* the Excel loop throws, on opening the file too.
ReadError(u) ==
    /\ \/ step[u] = "read" /\ read[u] < file[source[u]].rows
       \/ step[u] = "open"
    /\ \/ file[u].kind = "csv" /\ GoTo(u, "done") /\ Settle(u, "error") /\ UNCHANGED outcome
       \/ file[u].kind = "excel" /\ Leave(u, "error") /\ UNCHANGED answer
    /\ UNCHANGED <<file, readerVars, tempVars, stored>>

AtEnd(u) == step[u] = "read" /\ read[u] = file[source[u]].rows

\* The rows that are left are a batch of their own, awaited by both readers.
HandOverRest(u) ==
    /\ AtEnd(u)
    /\ sent[u] < read[u]
    /\ StartWorker(u, read[u])
    /\ GoTo(u, "final")
    /\ UNCHANGED <<file, read, outcome, answer, tempVars, stored>>
-----------------------------------------------------------------------------
(* CSV.                                                                    *)

\* The buffer is the request's own.  Wrong columns reject the promise, and the
\* stream goes on.
ReceiveCSV(u) ==
    /\ step[u] = "idle"
    /\ \E f \in File :
           /\ f.kind = "csv"
           /\ file' = [file EXCEPT ![u] = f]
           /\ IF f.valid THEN UNCHANGED answer ELSE Settle(u, "error")
    /\ source' = [source EXCEPT ![u] = u]
    /\ GoTo(u, "read")
    /\ UNCHANGED <<outcome, readerVars, name, temp, stored>>

\* processBatch(...).catch(reject): the stream goes on here too.
BatchRejected(u) ==
    /\ step[u] \in {"read", "final"}
    /\ file[u].kind = "csv"
    /\ answer[u] = "none"
    /\ \E w \in workers : /\ w.upload = u /\ w.status = "failed"
                          /\ step[u] = "final" => w.last # sent[u]
    /\ Settle(u, "error")
    /\ UNCHANGED <<file, step, outcome, readerVars, tempVars, stored>>

\* Mutant of EndCSV: the last batch is not awaited either.
EndCSVAtOnce(u) ==
    /\ file[u] # None /\ file[u].kind = "csv"
    /\ (AtEnd(u) /\ sent[u] = read[u]) \/ step[u] = "final"
    /\ Settle(u, "ok")
    /\ GoTo(u, "done")
    /\ UNCHANGED <<file, outcome, readerVars, tempVars, stored>>

EndCSV(u) ==
    /\ file[u] # None /\ file[u].kind = "csv"
    /\ \/ AtEnd(u) /\ sent[u] = read[u]
       \/ step[u] = "final" /\ Status(u, sent[u]) = "ok"
    /\ Settle(u, "ok")
    /\ GoTo(u, "done")
    /\ UNCHANGED <<file, outcome, readerVars, tempVars, stored>>
-----------------------------------------------------------------------------
(* Excel.                                                                  *)

\* temp-<Date.now()>.xlsx: the name is fixed before the write is awaited.
ReceiveExcel(u) ==
    /\ step[u] = "idle"
    /\ \E f \in File, t \in Stamps :
           /\ f.kind = "excel"
           /\ file' = [file EXCEPT ![u] = f]
           /\ name' = [name EXCEPT ![u] = t]
    /\ GoTo(u, "save")
    /\ UNCHANGED <<outcome, answer, readerVars, temp, source, stored>>

SaveTempFile(u) ==
    /\ step[u] = "save"
    /\ temp' = [temp EXCEPT ![name[u]] = u]
    /\ GoTo(u, "open")
    /\ UNCHANGED <<file, outcome, answer, readerVars, name, source, stored>>

\* saveTempFile throws, before the try: nothing removes what was written, which
\* counts as the file, for a reader of the same name may fail on any row of it.
SaveFails(u) ==
    /\ step[u] = "save"
    /\ temp' \in {temp, [temp EXCEPT ![name[u]] = u]}
    /\ Settle(u, "error")
    /\ GoTo(u, "done")
    /\ UNCHANGED <<file, outcome, readerVars, name, source, stored>>

\* Mutant of OpenTempFile: the first row is not compared.
OpenAnyColumns(u) ==
    /\ step[u] = "open"
    /\ temp[name[u]] # None
    /\ source' = [source EXCEPT ![u] = temp[name[u]]]
    /\ GoTo(u, "read")
    /\ UNCHANGED <<file, outcome, answer, readerVars, name, temp, stored>>

\* The reader takes what the name stands for now; the first row is compared
\* with the columns this request expects.
OpenTempFile(u) ==
    /\ step[u] = "open"
    /\ temp[name[u]] # None
    /\ source' = [source EXCEPT ![u] = temp[name[u]]]
    /\ IF file[temp[name[u]]].valid THEN GoTo(u, "read") /\ UNCHANGED outcome
                                    ELSE Leave(u, "error")
    /\ UNCHANGED <<file, answer, readerVars, name, temp, stored>>

\* Another request with the same name removed the file.
OpenMissing(u) ==
    /\ step[u] = "open"
    /\ temp[name[u]] = None
    /\ Leave(u, "error")
    /\ UNCHANGED <<file, answer, readerVars, tempVars, stored>>

\* Mutants of ResumeExcel: the reader goes on whatever the worker reports, or
\* does not hear of a failure.
ResumeExcelStored(u) ==
    /\ step[u] \in {"batch", "final"}
    /\ file[u].kind = "excel"
    /\ Status(u, sent[u]) = "ok"
    /\ IF step[u] = "final" THEN Leave(u, "ok") ELSE GoTo(u, "read") /\ UNCHANGED outcome
    /\ UNCHANGED <<file, answer, readerVars, tempVars, stored>>

ResumeExcelAny(u) ==
    /\ step[u] \in {"batch", "final"}
    /\ file[u].kind = "excel"
    /\ Status(u, sent[u]) \in {"ok", "failed"}
    /\ IF step[u] = "final" THEN Leave(u, "ok") ELSE GoTo(u, "read") /\ UNCHANGED outcome
    /\ UNCHANGED <<file, answer, readerVars, tempVars, stored>>

\* The awaited batch is stored, or processBatch rejects.
ResumeExcel(u) ==
    /\ step[u] \in {"batch", "final"}
    /\ file[u].kind = "excel"
    /\ \/ /\ Status(u, sent[u]) = "ok"
          /\ IF step[u] = "final" THEN Leave(u, "ok") ELSE GoTo(u, "read") /\ UNCHANGED outcome
       \/ Status(u, sent[u]) = "failed" /\ Leave(u, "error")
    /\ UNCHANGED <<file, answer, readerVars, tempVars, stored>>

EndExcel(u) ==
    /\ AtEnd(u)
    /\ file[u].kind = "excel"
    /\ sent[u] = read[u]
    /\ Leave(u, "ok")
    /\ UNCHANGED <<file, answer, readerVars, tempVars, stored>>

\* finally: removing a file that is gone throws in place of the result.
Unlink(u) ==
    /\ step[u] = "unlink"
    /\ Settle(u, IF temp[name[u]] = None THEN "error" ELSE outcome[u])
    /\ temp' = [temp EXCEPT ![name[u]] = None]
    /\ GoTo(u, "done")
    /\ UNCHANGED <<file, outcome, readerVars, name, source, stored>>
-----------------------------------------------------------------------------
(* The worker threads, and the process.                                    *)

RowsOf(w, last) == {<<w.upload, w.source, n>> : n \in w.first..last}

\* An ordered bulkWrite saves the rows up to the first that fails.  A failure
\* may also come before the first row (no member, no connection) or after the
\* last (no acknowledgement).  A thread that ends without a message has thrown
\* or was ended: its exit code is not 0, for which 'exit' rejects.
RunWorker(w) ==
    /\ w.status \in {"running", "orphan"}
    /\ \E last \in (w.first - 1)..w.last, reply \in {"ok", "failed"} :
           /\ reply = "ok" => last = w.last
           /\ stored' = stored \cup RowsOf(w, last)
           /\ workers' = (workers \ {w}) \cup
                  {[w EXCEPT !.status = IF w.status = "orphan" THEN "failed" ELSE reply]}
    /\ UNCHANGED <<file, step, read, sent, outcome, answer, tempVars>>

ProcessEnds ==
    /\ step' = [u \in Uploads |-> IF step[u] \in Waiting THEN "lost" ELSE step[u]]
    /\ workers' = {IF w.status = "running" THEN [w EXCEPT !.status = "orphan"] ELSE w
                      : w \in workers}
    /\ UNCHANGED <<file, read, sent, outcome, answer, tempVars, stored>>

\* The rejection of the last CSV batch has no handler: Node ends the process,
\* and with it every other request.
UnhandledRejection(u) ==
    /\ step[u] = "final"
    /\ file[u].kind = "csv"
    /\ Status(u, sent[u]) = "failed"
    /\ ProcessEnds

Restart ==
    /\ \E u \in Uploads : step[u] \in Waiting
    /\ ProcessEnds
-----------------------------------------------------------------------------
Handle(u) ==
    \/ ReadRow(u) \/ HandOverRest(u) \/ EndCSV(u) \/ UnhandledRejection(u)
    \/ SaveTempFile(u) \/ OpenTempFile(u) \/ OpenMissing(u)
    \/ ResumeExcel(u) \/ EndExcel(u) \/ Unlink(u)

Next ==
    \/ \E u \in Uploads : ReceiveCSV(u) \/ ReceiveExcel(u)
    \/ \E u \in Uploads : Handle(u) \/ SaveFails(u) \/ ReadError(u) \/ BatchRejected(u)
    \/ \E w \in workers : RunWorker(w)
    \/ Restart

\* The event loop runs what is ready, and a worker's write ends one way or the
\* other; nobody has to post a file.
Spec ==
    /\ Init /\ [][Next]_vars
    /\ \A u \in Uploads : WF_vars(Handle(u))
    /\ WF_vars(\E w \in workers : RunWorker(w))
-----------------------------------------------------------------------------
OwnName(u) == \A v \in Uploads \ {u} : name[v] # name[u]
OwnRows(u) == {<<u, u, n>> : n \in 1..file[u].rows}
SavedFor(u) == {s \in stored : s[1] = u}
Answered(u, kind, a) == file[u] # None /\ file[u].kind = kind /\ answer[u] = a

\* processExcel: an upload that was answered with success, and shared its file
\* name with no other, has saved all rows of its file and no others.
ConfirmedExcelIsStored ==
    \A u \in Uploads :
        Answered(u, "excel", "ok") /\ OwnName(u) => SavedFor(u) = OwnRows(u)

\* processCSV: a success says at least that the rows after the last full batch
\* are saved.
ConfirmedCSVHasItsEnd ==
    \A u \in Uploads : Answered(u, "csv", "ok") =>
        \A n \in 1..file[u].rows :
            n > file[u].rows - (file[u].rows % BatchSize) => <<u, u, n>> \in stored

\* Both readers: no row is handed to two workers and none is skipped, however
\* reading and writing interleave: a voter is not enrolled twice by one file.
EveryRowHandedOverOnce ==
    \A u \in Uploads, n \in Rows :
        LET given == {w \in workers : w.upload = u /\ n \in w.first..w.last}
        IN  /\ n <= sent[u] => \E w \in given : given = {w}
            /\ n > sent[u] => given = {}

\* processExcel: a file without the expected columns saves nothing.
WrongColumnsSaveNothing ==
    \A u \in Uploads :
        file[u] # None /\ file[u].kind = "excel" /\ ~file[u].valid /\ OwnName(u)
            => SavedFor(u) = {}

\* Every upload's handler ends, also when its batches fail.
EveryUploadEnds == \A u \in Uploads : step[u] \in Waiting ~> step[u] \in {"done", "lost"}
-----------------------------------------------------------------------------
(* Refuted: see the findings of the README.                                *)

\* "Archivo CSV procesado exitosamente.": the rows of the file are saved.
ConfirmedCSVIsStored ==
    \A u \in Uploads : Answered(u, "csv", "ok") => OwnRows(u) \subseteq stored
=============================================================================
