------------------------ MODULE EnrollmentUploadProofs ------------------------
(***************************************************************************)
(* What an upload of the padron saves, for any number of uploads, files of *)
(* any size, any size of a batch and any order in which the readers, the   *)
(* worker threads and the ends of the process interleave.                  *)
(***************************************************************************)
EXTENDS EnrollmentUpload, Integers, TLAPS

IsCSV(u) == file[u] # None /\ file[u].kind = "csv"
IsExcel(u) == file[u] # None /\ file[u].kind = "excel"

\* The inductive invariant, in parts.

\* A reader reads no more rows than its content has, and hands over all of
\* them but those since the last multiple of the batch size.
ReadersAreSound ==
    \A u \in Uploads :
        /\ step[u] = "idle" <=> file[u] = None
        /\ step[u] \in {"idle", "save", "open"} => source[u] = None
        /\ step[u] \in {"read", "batch", "final"} => source[u] # None
        /\ source[u] = None => read[u] = 0
        /\ source[u] # None => file[source[u]] # None /\ read[u] <= file[source[u]].rows
        /\ step[u] = "read" => sent[u] % BatchSize = 0
        /\ step[u] \in {"batch", "final"} => sent[u] = read[u] /\ sent[u] > 0
        /\ step[u] = "batch" => sent[u] % BatchSize = 0
        /\ step[u] = "final" => read[u] = file[source[u]].rows
        /\ file[u] = None => answer[u] = "none" /\ outcome[u] = "none"

CSVReadsItsOwn ==
    \A u \in Uploads : IsCSV(u) =>
        /\ source[u] = u
        /\ step[u] \in {"read", "final", "done", "lost"}

\* A temporary file has the content of an upload of its name, and so has the
\* reader that opened it.
NamesAreOfExcel ==
    /\ \A u \in Uploads : IsExcel(u) =>
           /\ name[u] # None
           /\ source[u] # None => IsExcel(source[u]) /\ name[source[u]] = name[u]
    /\ \A t \in Stamps : temp[t] # None => IsExcel(temp[t]) /\ name[temp[t]] = t

ColumnsAreChecked ==
    \A u \in Uploads : IsExcel(u) /\ source[u] # None =>
        \/ file[source[u]].valid
        \/ read[u] = 0 /\ step[u] \notin {"read", "batch", "final"}

\* The batches of an upload are disjoint intervals of the rows of one file
\* that together are the rows handed over.
BatchesAreIntervals ==
    \A w \in workers :
        /\ w.first <= w.last /\ w.last <= sent[w.upload]
        /\ w.source = source[w.upload]
        /\ (w.first - 1) % BatchSize = 0 /\ w.last - w.first < BatchSize

BatchesAreDisjoint ==
    \A v, w \in workers :
        v.upload = w.upload /\ v # w => v.last < w.first \/ w.last < v.first

BatchesAreAll ==
    \A u \in Uploads : \A n \in 1..sent[u] :
        \E w \in workers : w.upload = u /\ w.first <= n /\ n <= w.last

StoredWereGiven == \A s \in stored : s[2] = source[s[1]] /\ s[3] <= sent[s[1]]

OkIsStored ==
    \A w \in workers : w.status = "ok" =>
        \A n \in w.first..w.last : <<w.upload, w.source, n>> \in stored

\* The Excel reader goes on, and succeeds, only behind batches that are stored.
ExcelAwaitsBatches ==
    \A w \in workers : IsExcel(w.upload) /\ w.status # "ok" =>
        /\ step[w.upload] # "read" /\ outcome[w.upload] # "ok"
        /\ step[w.upload] \in {"batch", "final"} => w.last = sent[w.upload]

ExcelSucceedsAtEnd ==
    \A u \in Uploads : IsExcel(u) =>
        /\ step[u] \in {"save", "open", "read", "batch", "final"} => outcome[u] = "none"
        /\ outcome[u] = "ok" => source[u] # None /\ sent[u] = file[source[u]].rows
        /\ step[u] \in Waiting => answer[u] = "none"
        /\ answer[u] = "ok" => outcome[u] = "ok"

ReaderInv ==
    /\ ReadersAreSound
    /\ CSVReadsItsOwn
    /\ NamesAreOfExcel
    /\ ColumnsAreChecked
    /\ ExcelSucceedsAtEnd

BatchInv ==
    /\ BatchesAreIntervals
    /\ BatchesAreDisjoint
    /\ BatchesAreAll
    /\ StoredWereGiven
    /\ OkIsStored

UploadInv ==
    /\ TypeOK
    /\ ReaderInv
    /\ BatchInv
    /\ ExcelAwaitsBatches
    /\ ConfirmedCSVHasItsEnd
-----------------------------------------------------------------------------
(* Multiples of the size of a batch.                                       *)

LEMMA QuotientOf ==
  \A s \in Nat : s % BatchSize = 0 => s = BatchSize * (s \div BatchSize) /\ (s \div BatchSize) \in Nat
  BY UploadAssumption

LEMMA MultipleOf ==
  \A q \in Nat, m \in Nat : m = BatchSize * q => m % BatchSize = 0
  BY UploadAssumption

LEMMA NextMultiple ==
  ASSUME NEW s \in Nat, s % BatchSize = 0
  PROVE  (s + BatchSize) % BatchSize = 0
<1> DEFINE q == s \div BatchSize
<1>1. q \in Nat /\ s = BatchSize * q
  BY QuotientOf
<1> HIDE DEF q
<1>2. s + BatchSize = BatchSize * (q + 1)
  BY <1>1, UploadAssumption
<1>3. s + BatchSize \in Nat /\ q + 1 \in Nat
  BY <1>1, UploadAssumption
<1>4. QED
  BY <1>2, <1>3, MultipleOf

LEMMA LastMultiple ==
  \A s, n \in Nat : s % BatchSize = 0 /\ s <= n /\ n < s + BatchSize => n - (n % BatchSize) = s
  BY UploadAssumption

LEMMA NoRest == \A s \in Nat : s % BatchSize = 0 => s - (s % BatchSize) = s
  OBVIOUS
-----------------------------------------------------------------------------
LEMMA WorkerFields ==
  ASSUME TypeOK, NEW w \in workers
  PROVE  /\ w.upload \in Uploads /\ w.source \in Uploads
         /\ w.first \in Nat \ {0} /\ w.first <= MaxRows
         /\ w.last \in Nat \ {0} /\ w.last <= MaxRows
         /\ w.status \in {"running", "ok", "failed", "orphan"}
  BY UploadAssumption DEF TypeOK, Worker, Rows

LEMMA FileFields ==
  ASSUME TypeOK, NEW u \in Uploads, file[u] # None
  PROVE  /\ file[u].kind \in {"csv", "excel"} /\ file[u].valid \in BOOLEAN
         /\ file[u].rows \in Nat /\ file[u].rows <= MaxRows
  BY UploadAssumption DEF TypeOK, File

\* Batches that do not overlap and leave out no row give each row to one.
LEMMA OnceEach ==
  ASSUME TypeOK, BatchesAreIntervals, BatchesAreDisjoint, BatchesAreAll
  PROVE  EveryRowHandedOverOnce
<1> SUFFICES ASSUME NEW u \in Uploads, NEW n \in Rows
             PROVE  LET given == {w \in workers : w.upload = u /\ n \in w.first..w.last}
                    IN  /\ n <= sent[u] => \E w \in given : given = {w}
                        /\ n > sent[u] => given = {}
  BY DEF EveryRowHandedOverOnce
<1> DEFINE given == {w \in workers : w.upload = u /\ n \in w.first..w.last}
<1>0. n \in Nat \ {0} /\ sent[u] \in Nat
  BY UploadAssumption DEF Rows, TypeOK
<1>1. \A w \in given : w \in workers /\ w.upload = u /\ w.first <= n /\ n <= w.last
  BY <1>0, WorkerFields
<1>2. ASSUME n <= sent[u]
      PROVE  \E w \in given : given = {w}
  <2>1. PICK w \in workers : w.upload = u /\ w.first <= n /\ n <= w.last
    BY <1>0, <1>2 DEF BatchesAreAll
  <2>2. w \in given
    BY <1>0, <2>1, WorkerFields
  <2>3. \A v \in given : v = w
    BY <1>0, <1>1, <2>1, WorkerFields DEF BatchesAreDisjoint
  <2>4. QED
    BY <2>2, <2>3
<1>3. ASSUME n > sent[u]
      PROVE  given = {}
  BY <1>0, <1>1, <1>3, WorkerFields DEF BatchesAreIntervals
<1>4. QED
  BY <1>2, <1>3

\* The batch a reader awaits is the one that ends with the rows handed over.
LEMMA StatusOfLast ==
  ASSUME TypeOK, BatchesAreIntervals, BatchesAreDisjoint, BatchesAreAll,
         NEW u \in Uploads, sent[u] > 0
  PROVE  \E w \in workers : /\ w.upload = u /\ w.last = sent[u]
                            /\ Status(u, sent[u]) = w.status
<1>0. sent[u] \in Nat
  BY UploadAssumption DEF TypeOK
<1>1. PICK w \in workers : w.upload = u /\ w.first <= sent[u] /\ sent[u] <= w.last
  BY <1>0 DEF BatchesAreAll
<1>2. w.last = sent[u]
  BY <1>0, <1>1, WorkerFields DEF BatchesAreIntervals
<1>3. \A v \in workers : v.upload = u /\ v.last = sent[u] => v = w
  BY <1>0, <1>1, <1>2, WorkerFields DEF BatchesAreDisjoint, BatchesAreIntervals
<1>4. (CHOOSE v \in workers : v.upload = u /\ v.last = sent[u]) = w
  BY <1>1, <1>2, <1>3
<1>5. QED
  BY <1>1, <1>2, <1>4 DEF Status
-----------------------------------------------------------------------------
LEMMA UploadInitInv == Init => UploadInv
  BY UploadAssumption
  DEF Init, UploadInv, TypeOK, ReaderInv, BatchInv, ReadersAreSound, CSVReadsItsOwn, NamesAreOfExcel,
      ColumnsAreChecked, ExcelSucceedsAtEnd, BatchesAreIntervals, BatchesAreDisjoint, BatchesAreAll,
      StoredWereGiven, OkIsStored, ExcelAwaitsBatches, ConfirmedCSVHasItsEnd, IsCSV, IsExcel,
      Answered, Waiting

\* An upload without batches may change the content it reads.
LEMMA BatchesStay ==
  ASSUME TypeOK, BatchInv, UNCHANGED <<sent, workers, stored>>,
         \A u \in Uploads : sent[u] > 0 => source'[u] = source[u]
  PROVE  BatchInv'
<1> USE DEF BatchInv
<1>1. BatchesAreDisjoint' /\ BatchesAreAll' /\ OkIsStored'
  BY DEF BatchesAreDisjoint, BatchesAreAll, OkIsStored
<1>2. \A w \in workers : sent[w.upload] > 0
  BY WorkerFields DEF BatchesAreIntervals, TypeOK
<1>3. BatchesAreIntervals'
  BY <1>2, WorkerFields DEF BatchesAreIntervals
<1>4. \A s \in stored : s[1] \in Uploads /\ sent[s[1]] > 0
  BY UploadAssumption DEF StoredWereGiven, TypeOK, Rows
<1>5. StoredWereGiven'
  BY <1>4 DEF StoredWereGiven
<1>6. QED
  BY <1>1, <1>3, <1>5

\* Saved rows stay, so that only a new success has to be shown.
LEMMA ConfirmedCSVStays ==
  ASSUME ConfirmedCSVHasItsEnd, stored \subseteq stored',
         \A u \in Uploads :
             Answered(u, "csv", "ok")' => Answered(u, "csv", "ok") /\ file'[u] = file[u]
  PROVE  ConfirmedCSVHasItsEnd'
  BY DEF ConfirmedCSVHasItsEnd

\* A file posted.
LEMMA ReceiveStep ==
  ASSUME UploadInv, NEW u \in Uploads, ReceiveCSV(u) \/ ReceiveExcel(u)
  PROVE  UploadInv'
<1> USE DEF UploadInv, ReaderInv
<1>0. /\ step[u] = "idle" /\ file[u] = None /\ source[u] = None /\ answer[u] = "none"
      /\ outcome[u] = "none" /\ read[u] = 0 /\ sent[u] = 0
  BY UploadAssumption DEF ReceiveCSV, ReceiveExcel, ReadersAreSound, TypeOK
<1>1. /\ UNCHANGED <<outcome, read, sent, workers, stored, temp>>
      /\ \E f \in File :
            /\ file' = [file EXCEPT ![u] = f]
            /\ \/ /\ f.kind = "csv" /\ source' = [source EXCEPT ![u] = u]
                  /\ step' = [step EXCEPT ![u] = "read"] /\ name' = name
                  /\ \E a \in {"none", "error"} : answer' = [answer EXCEPT ![u] = a]
               \/ /\ f.kind = "excel" /\ source' = source
                  /\ step' = [step EXCEPT ![u] = "save"]
                  /\ \E t \in Stamps : name' = [name EXCEPT ![u] = t]
                  /\ answer' = answer
  BY <1>0 DEF ReceiveCSV, ReceiveExcel, GoTo, Settle, readerVars, TypeOK
<1>2. PICK f \in File :
            /\ file' = [file EXCEPT ![u] = f]
            /\ \/ /\ f.kind = "csv" /\ source' = [source EXCEPT ![u] = u]
                  /\ step' = [step EXCEPT ![u] = "read"] /\ name' = name
                  /\ \E a \in {"none", "error"} : answer' = [answer EXCEPT ![u] = a]
               \/ /\ f.kind = "excel" /\ source' = source
                  /\ step' = [step EXCEPT ![u] = "save"]
                  /\ \E t \in Stamps : name' = [name EXCEPT ![u] = t]
                  /\ answer' = answer
  BY <1>1
<1>3. f.rows \in Nat /\ f # None
  BY <1>2, UploadAssumption, NoneAssumption DEF File
<1>4. TypeOK'
  BY <1>1, <1>2 DEF TypeOK, Waiting
<1>5. ReadersAreSound'
  <2>1. 0 % BatchSize = 0
    BY UploadAssumption
  <2>2. \A v \in Uploads \ {u} : source[v] # None => source[v] \in Uploads \ {u}
    BY <1>0 DEF ReadersAreSound, TypeOK
  <2>3. \A v \in Uploads \ {u} :
            /\ file'[v] = file[v] /\ source'[v] = source[v] /\ step'[v] = step[v]
            /\ answer'[v] = answer[v]
    BY <1>1, <1>2 DEF TypeOK
  <2>4. /\ file'[u] = f /\ step'[u] \in {"read", "save"} /\ source'[u] \in {None, u}
        /\ step'[u] = "read" <=> source'[u] = u
    BY <1>0, <1>1, <1>2, NoneAssumption DEF TypeOK
  <2> HIDE DEF UploadInv, ReaderInv
  <2>5. ReadersAreSound
    BY DEF UploadInv, ReaderInv
  <2>6. QED
    BY <1>0, <1>1, <1>3, <2>1, <2>2, <2>3, <2>4, <2>5, NoneAssumption DEF ReadersAreSound
<1>6. CSVReadsItsOwn' /\ NamesAreOfExcel' /\ ColumnsAreChecked' /\ ExcelSucceedsAtEnd'
  <2>1. CSVReadsItsOwn'
    BY <1>1, <1>2, <1>3 DEF CSVReadsItsOwn, IsCSV, TypeOK
  <2>2. NamesAreOfExcel'
    BY <1>0, <1>1, <1>2, <1>3, NoneAssumption DEF NamesAreOfExcel, IsExcel, TypeOK
  <2>3. ColumnsAreChecked'
    BY <1>0, <1>1, <1>2, <1>3 DEF ColumnsAreChecked, ReadersAreSound, IsExcel, TypeOK
  <2>4. ExcelSucceedsAtEnd'
    BY <1>0, <1>1, <1>2, <1>3 DEF ExcelSucceedsAtEnd, ReadersAreSound, IsExcel, TypeOK
  <2>5. QED
    BY <2>1, <2>2, <2>3, <2>4
<1>7. BatchInv'
  <2>1. \A v \in Uploads : sent[v] > 0 => source'[v] = source[v]
    BY <1>0, <1>2 DEF TypeOK
  <2>2. QED
    BY <1>1, <2>1, BatchesStay
<1>8. ExcelAwaitsBatches'
  BY <1>0, <1>1, <1>2, WorkerFields DEF ExcelAwaitsBatches, BatchInv, BatchesAreIntervals, IsExcel,
     TypeOK
<1>9. ConfirmedCSVHasItsEnd'
  <2>1. \A v \in Uploads :
            Answered(v, "csv", "ok")' => Answered(v, "csv", "ok") /\ file'[v] = file[v]
    BY <1>0, <1>2 DEF Answered, TypeOK
  <2>2. QED
    BY <1>1, <2>1, ConfirmedCSVStays
<1>10. QED
  BY <1>4, <1>5, <1>6, <1>7, <1>8, <1>9
-----------------------------------------------------------------------------
(* Steps of a handler that start no thread.                                *)

AllStored(u) == \A w \in workers : w.upload = u => w.status = "ok"

\* A CSV promise settles, and the reader ends or goes on.
TurnsCSV(u) ==
    /\ IsCSV(u)
    /\ step'[u] \in {step[u], "done"}
    /\ outcome' = outcome
    /\ answer'[u] = "ok" => \/ answer[u] = "ok"
                            \/ \A n \in 1..file[u].rows :
                                 n > file[u].rows - (file[u].rows % BatchSize)
                                     => <<u, u, n>> \in stored

\* The Excel reader goes on behind a stored batch, leaves with its outcome, or
\* passes the outcome on.
TurnsExcel(u) ==
    /\ IsExcel(u)
    /\ \/ /\ step[u] = "batch" /\ step'[u] = "read" /\ AllStored(u)
          /\ UNCHANGED <<outcome, answer>>
       \/ /\ step[u] \in {"open", "read", "batch", "final"} /\ step'[u] = "unlink"
          /\ answer' = answer
          /\ \/ outcome'[u] = "error"
             \/ /\ outcome'[u] = "ok" /\ AllStored(u)
                /\ source[u] # None /\ sent[u] = file[source[u]].rows
       \/ /\ step[u] = "unlink" /\ step'[u] = "done"
          /\ outcome' = outcome /\ answer'[u] \in {"error", outcome[u]}

Turns(u) ==
    /\ UNCHANGED <<file, readerVars, name, source, stored>>
    /\ temp' \in [Stamps -> Uploads \cup {None}]
    /\ \A t \in Stamps : temp'[t] \in {temp[t], None}
    /\ \E s \in Waiting \cup {"done"} : step' = [step EXCEPT ![u] = s]
    /\ \E o \in {"none", "ok", "error"} : outcome' = [outcome EXCEPT ![u] = o]
    /\ \E a \in {"none", "ok", "error"} : answer' = [answer EXCEPT ![u] = a]
    /\ TurnsCSV(u) \/ TurnsExcel(u)

LEMMA TurnsStep ==
  ASSUME UploadInv, NEW u \in Uploads, Turns(u)
  PROVE  UploadInv'
<1> USE DEF UploadInv, ReaderInv
<1>1. /\ UNCHANGED <<file, read, sent, workers, name, source, stored>>
      /\ \A v \in Uploads : v # u => /\ step'[v] = step[v] /\ outcome'[v] = outcome[v]
                                     /\ answer'[v] = answer[v]
  BY DEF Turns, readerVars, TypeOK
<1>2. TypeOK'
  BY <1>1 DEF Turns, TypeOK
<1>3. TurnsCSV(u) \/ TurnsExcel(u)
  BY DEF Turns
<1>4. ReadersAreSound'
  BY <1>1, <1>3 DEF ReadersAreSound, CSVReadsItsOwn, TurnsCSV, TurnsExcel, IsCSV, IsExcel
<1>5. CSVReadsItsOwn'
  BY <1>1, <1>3 DEF CSVReadsItsOwn, TurnsCSV, TurnsExcel, IsCSV, IsExcel
<1>6. NamesAreOfExcel'
  BY <1>1 DEF NamesAreOfExcel, Turns, IsExcel
<1>7. ColumnsAreChecked'
  BY <1>1, <1>3 DEF ColumnsAreChecked, TurnsCSV, TurnsExcel, IsCSV, IsExcel
<1>8. ExcelSucceedsAtEnd'
  BY <1>1, <1>3 DEF ExcelSucceedsAtEnd, TurnsCSV, TurnsExcel, IsCSV, IsExcel, Waiting
<1>9. BatchInv'
  BY <1>1, BatchesStay
<1>10. ExcelAwaitsBatches'
  BY <1>1, <1>3, WorkerFields
  DEF ExcelAwaitsBatches, TurnsCSV, TurnsExcel, IsCSV, IsExcel, AllStored
<1>11. ConfirmedCSVHasItsEnd'
  BY <1>1, <1>3, WorkerFields
  DEF ConfirmedCSVHasItsEnd, Answered, TurnsCSV, TurnsExcel, IsCSV, IsExcel
<1>12. QED
  BY <1>2, <1>4, <1>5, <1>6, <1>7, <1>8, <1>9, <1>10, <1>11

\* With the awaited batch stored, all batches of an Excel file are.
LEMMA AwaitedIsLast ==
  ASSUME UploadInv, NEW u \in Uploads, IsExcel(u), step[u] \in {"batch", "final"},
         Status(u, sent[u]) = "ok"
  PROVE  AllStored(u)
<1> USE DEF UploadInv, ReaderInv, BatchInv
<1>1. PICK w \in workers : w.upload = u /\ w.last = sent[u] /\ w.status = "ok"
  BY StatusOfLast DEF ReadersAreSound
<1>2. \A v \in workers : v.upload = u /\ v.last = sent[u] => v = w
  BY <1>1, WorkerFields DEF BatchesAreDisjoint, BatchesAreIntervals
<1>3. QED
  BY <1>1, <1>2 DEF AllStored, ExcelAwaitsBatches

LEMMA ExcelTurns ==
  ASSUME UploadInv, NEW u \in Uploads,
         \/ ReadError(u) /\ IsExcel(u)
         \/ OpenMissing(u) \/ ResumeExcel(u) \/ EndExcel(u) \/ Unlink(u)
  PROVE  Turns(u)
<1> USE DEF UploadInv, ReaderInv
<1>1. IsExcel(u)
  BY DEF OpenMissing, ResumeExcel, EndExcel, Unlink, CSVReadsItsOwn, ReadersAreSound, IsCSV,
     IsExcel, AtEnd, TypeOK, File
<1>2. /\ UNCHANGED <<file, readerVars, name, source, stored>>
      /\ temp' \in [Stamps -> Uploads \cup {None}]
      /\ \A t \in Stamps : temp'[t] \in {temp[t], None}
  BY DEF ReadError, OpenMissing, ResumeExcel, EndExcel, Unlink, tempVars, TypeOK
<1>3. /\ \E s \in Waiting \cup {"done"} : step' = [step EXCEPT ![u] = s]
      /\ \E o \in {"none", "ok", "error"} : outcome' = [outcome EXCEPT ![u] = o]
      /\ \E a \in {"none", "ok", "error"} : answer' = [answer EXCEPT ![u] = a]
  BY <1>1
  DEF ReadError, OpenMissing, ResumeExcel, EndExcel, Unlink, Leave, GoTo, Settle, Waiting, IsExcel,
      TypeOK
<1>4. TurnsExcel(u)
  <2>1. CASE OpenMissing(u) \/ (ReadError(u) /\ IsExcel(u))
    BY <1>1, <2>1 DEF OpenMissing, ReadError, Leave, GoTo, TurnsExcel, IsExcel, TypeOK
  <2>2. CASE ResumeExcel(u)
    <3>1. ASSUME Status(u, sent[u]) = "ok"
          PROVE  AllStored(u)
      BY <1>1, <2>2, <3>1, AwaitedIsLast DEF ResumeExcel
    <3>2. step[u] = "final" => source[u] # None /\ sent[u] = file[source[u]].rows
      BY DEF ReadersAreSound
    <3>3. QED
      BY <1>1, <2>2, <3>1, <3>2 DEF ResumeExcel, Leave, GoTo, TurnsExcel, TypeOK
  <2>3. CASE EndExcel(u)
    <3>1. source[u] # None /\ AllStored(u)
      BY <1>1, <2>3 DEF EndExcel, AtEnd, ReadersAreSound, ExcelAwaitsBatches, AllStored
    <3>2. QED
      BY <1>1, <2>3, <3>1 DEF EndExcel, AtEnd, Leave, GoTo, TurnsExcel, TypeOK
  <2>4. CASE Unlink(u)
    <3>1. answer[u] = "none"
      BY <1>1, <2>4 DEF Unlink, ExcelSucceedsAtEnd, Waiting
    <3>2. QED
      BY <1>1, <2>4, <3>1 DEF Unlink, Settle, GoTo, TurnsExcel, TypeOK
  <2>5. QED
    BY <2>1, <2>2, <2>3, <2>4
<1>5. QED
  BY <1>2, <1>3, <1>4 DEF Turns

LEMMA CSVTurns ==
  ASSUME UploadInv, NEW u \in Uploads,
         (ReadError(u) /\ IsCSV(u)) \/ BatchRejected(u) \/ EndCSV(u)
  PROVE  Turns(u)
<1> USE DEF UploadInv, ReaderInv
<1>1. IsCSV(u)
  BY DEF BatchRejected, EndCSV, IsCSV, ReadersAreSound
<1>2. /\ UNCHANGED <<file, readerVars, name, source, stored, outcome, temp>>
      /\ step' \in {step, [step EXCEPT ![u] = "done"]}
      /\ answer' = [answer EXCEPT ![u] = answer'[u]]
      /\ answer'[u] = "ok" => answer[u] = "ok" \/ EndCSV(u)
      /\ answer'[u] \in {"none", "ok", "error"}
  BY <1>1 DEF ReadError, BatchRejected, EndCSV, GoTo, Settle, tempVars, IsCSV, TypeOK
<1>3. ASSUME EndCSV(u), NEW n \in 1..file[u].rows,
             n > file[u].rows - (file[u].rows % BatchSize)
      PROVE  <<u, u, n>> \in stored
  <2>1. file[u].rows \in Nat /\ n \in Nat /\ sent[u] \in Nat /\ read[u] \in Nat
    BY <1>1, FileFields DEF IsCSV, TypeOK
  <2>2. source[u] = u
    BY <1>1 DEF CSVReadsItsOwn
  <2>3. CASE AtEnd(u) /\ sent[u] = read[u]
    <3>1. sent[u] = file[u].rows /\ sent[u] % BatchSize = 0
      BY <2>2, <2>3 DEF AtEnd, ReadersAreSound
    <3>2. QED
      BY <1>3, <2>1, <3>1, NoRest
  <2>4. CASE step[u] = "final" /\ Status(u, sent[u]) = "ok"
    <3>1. sent[u] = file[u].rows /\ sent[u] > 0
      BY <2>2, <2>4 DEF ReadersAreSound
    <3>2. PICK w \in workers : w.upload = u /\ w.last = sent[u] /\ w.status = "ok"
      BY <2>4, <3>1, StatusOfLast DEF BatchInv
    <3>3. /\ w.source = u /\ w.first \in Nat \ {0} /\ w.first <= w.last
          /\ w.last = file[u].rows /\ w.last - w.first < BatchSize
      BY <2>2, <3>1, <3>2, WorkerFields DEF BatchInv, BatchesAreIntervals
    <3>4. w.first - 1 \in Nat /\ w.first - 1 <= file[u].rows
          /\ \/ file[u].rows = (w.first - 1) + BatchSize
             \/ file[u].rows < (w.first - 1) + BatchSize
      BY <2>1, <3>3, UploadAssumption
    <3>5. (w.first - 1) % BatchSize = 0
      BY <3>2 DEF BatchInv, BatchesAreIntervals
    <3>6. file[u].rows # (w.first - 1) + BatchSize
      BY <1>3, <2>1, <3>4, <3>5, NextMultiple, NoRest
    <3>7. file[u].rows - (file[u].rows % BatchSize) = w.first - 1
      BY <2>1, <3>4, <3>5, <3>6, LastMultiple
    <3>8. n \in w.first..w.last
      BY <1>3, <2>1, <3>3, <3>7
    <3>9. QED
      BY <3>2, <3>3, <3>8 DEF BatchInv, OkIsStored
  <2>5. QED
    BY <1>3, <2>3, <2>4 DEF EndCSV
<1>4. TurnsCSV(u)
  BY <1>1, <1>2, <1>3 DEF TurnsCSV, TypeOK
<1>5. step[u] \in Waiting
  BY DEF ReadError, BatchRejected, EndCSV, AtEnd, Waiting
<1>6. QED
  BY <1>2, <1>4, <1>5 DEF Turns, TypeOK
-----------------------------------------------------------------------------
(* The temporary file.                                                     *)

LEMMA SaveStep ==
  ASSUME UploadInv, NEW u \in Uploads, SaveTempFile(u)
  PROVE  UploadInv'
<1> USE DEF UploadInv, ReaderInv
<1>1. /\ UNCHANGED <<file, outcome, answer, read, sent, workers, name, source, stored>>
      /\ step[u] = "save" /\ step' = [step EXCEPT ![u] = "open"]
      /\ temp' = [temp EXCEPT ![name[u]] = u]
  BY DEF SaveTempFile, GoTo, readerVars
<1>2. IsExcel(u) /\ name[u] \in Stamps /\ source[u] = None
  BY <1>1, FileFields
  DEF ReadersAreSound, CSVReadsItsOwn, NamesAreOfExcel, IsCSV, IsExcel, TypeOK
<1>3. TypeOK'
  BY <1>1, <1>2 DEF TypeOK, Waiting
<1>4. ReadersAreSound'
  BY <1>1, <1>2 DEF ReadersAreSound, IsExcel, TypeOK
<1>5. NamesAreOfExcel'
  BY <1>1, <1>2 DEF NamesAreOfExcel, IsExcel, TypeOK
<1>6. CSVReadsItsOwn' /\ ColumnsAreChecked' /\ ExcelSucceedsAtEnd' /\ ExcelAwaitsBatches'
  BY <1>1, <1>2, WorkerFields
  DEF CSVReadsItsOwn, ColumnsAreChecked, ExcelSucceedsAtEnd, ExcelAwaitsBatches, IsCSV, IsExcel,
      Waiting, TypeOK
<1>7. BatchInv' /\ ConfirmedCSVHasItsEnd'
  BY <1>1, BatchesStay DEF ConfirmedCSVHasItsEnd, Answered
<1>8. QED
  BY <1>3, <1>4, <1>5, <1>6, <1>7

LEMMA SaveFailsStep ==
  ASSUME UploadInv, NEW u \in Uploads, SaveFails(u)
  PROVE  UploadInv'
<1> USE DEF UploadInv, ReaderInv
<1>1. /\ UNCHANGED <<file, outcome, read, sent, workers, name, source, stored>>
      /\ step[u] = "save" /\ step' = [step EXCEPT ![u] = "done"]
      /\ temp' \in {temp, [temp EXCEPT ![name[u]] = u]}
      /\ \E a \in {"ok", "error"} : answer' = [answer EXCEPT ![u] = a] /\ (a = "ok" => answer[u] = "ok")
  BY DEF SaveFails, GoTo, Settle, readerVars, TypeOK
<1>2. IsExcel(u) /\ name[u] \in Stamps /\ source[u] = None
  BY <1>1, FileFields
  DEF ReadersAreSound, CSVReadsItsOwn, NamesAreOfExcel, IsCSV, IsExcel, TypeOK
<1>3. answer' = [answer EXCEPT ![u] = "error"]
  BY <1>1, <1>2 DEF ExcelSucceedsAtEnd, Waiting
<1>4. TypeOK'
  BY <1>1, <1>2, <1>3 DEF TypeOK
<1>5. ReadersAreSound'
  BY <1>1, <1>2, <1>3 DEF ReadersAreSound, IsExcel, TypeOK
<1>6. NamesAreOfExcel'
  BY <1>1, <1>2 DEF NamesAreOfExcel, IsExcel, TypeOK
<1>7. CSVReadsItsOwn' /\ ColumnsAreChecked' /\ ExcelSucceedsAtEnd' /\ ExcelAwaitsBatches'
  BY <1>1, <1>2, <1>3, WorkerFields
  DEF CSVReadsItsOwn, ColumnsAreChecked, ExcelSucceedsAtEnd, ExcelAwaitsBatches, IsCSV, IsExcel,
      Waiting, TypeOK
<1>8. BatchInv'
  BY <1>1, BatchesStay
<1>9. ConfirmedCSVHasItsEnd'
  BY <1>1, <1>3, ConfirmedCSVStays DEF Answered, TypeOK
<1>10. QED
  BY <1>4, <1>5, <1>6, <1>7, <1>8, <1>9

LEMMA OpenStep ==
  ASSUME UploadInv, NEW u \in Uploads, OpenTempFile(u)
  PROVE  UploadInv'
<1> USE DEF UploadInv, ReaderInv
<1>1. /\ UNCHANGED <<file, answer, read, sent, workers, name, temp, stored>>
      /\ step[u] = "open" /\ temp[name[u]] # None
      /\ source' = [source EXCEPT ![u] = temp[name[u]]]
      /\ \/ /\ file[temp[name[u]]].valid /\ step' = [step EXCEPT ![u] = "read"]
            /\ outcome' = outcome
         \/ /\ step' = [step EXCEPT ![u] = "unlink"]
            /\ outcome' = [outcome EXCEPT ![u] = "error"]
  BY DEF OpenTempFile, GoTo, Leave, readerVars
<1>2. /\ IsExcel(u) /\ name[u] \in Stamps /\ source[u] = None
      /\ read[u] = 0 /\ sent[u] = 0 /\ outcome[u] = "none" /\ answer[u] = "none"
  <2>1. IsExcel(u)
    BY <1>1, FileFields DEF ReadersAreSound, CSVReadsItsOwn, IsCSV, IsExcel
  <2>2. name[u] \in Stamps
    BY <2>1 DEF NamesAreOfExcel, TypeOK
  <2>3. source[u] = None /\ read[u] = 0
    BY <1>1 DEF ReadersAreSound
  <2>4. sent[u] = 0
    BY <2>3, UploadAssumption DEF TypeOK
  <2>5. outcome[u] = "none" /\ answer[u] = "none"
    BY <1>1, <2>1 DEF ExcelSucceedsAtEnd, Waiting
  <2>6. QED
    BY <2>1, <2>2, <2>3, <2>4, <2>5
<1>3. /\ temp[name[u]] \in Uploads /\ IsExcel(temp[name[u]])
      /\ name[temp[name[u]]] = name[u]
  BY <1>1, <1>2 DEF NamesAreOfExcel, TypeOK
<1>4. TypeOK'
  BY <1>1, <1>3 DEF TypeOK, Waiting
<1>5. ReadersAreSound'
  <2>1. 0 % BatchSize = 0 /\ 0 <= file[temp[name[u]]].rows
    BY <1>3, FileFields, UploadAssumption DEF IsExcel
  <2>2. \A v \in Uploads \ {u} : /\ source'[v] = source[v] /\ step'[v] = step[v]
                                 /\ outcome'[v] = outcome[v]
    BY <1>1 DEF TypeOK
  <2>3. /\ source'[u] = temp[name[u]] /\ temp[name[u]] # None /\ file[temp[name[u]]] # None
        /\ file[u] # None /\ step'[u] \in {"read", "unlink"}
    BY <1>1, <1>2, <1>3 DEF TypeOK, IsExcel
  <2>4. ReadersAreSound
    OBVIOUS
  <2> HIDE DEF UploadInv, ReaderInv
  <2>5. QED
    BY <1>1, <1>2, <2>1, <2>2, <2>3, <2>4 DEF ReadersAreSound
<1>6. NamesAreOfExcel'
  BY <1>1, <1>3 DEF NamesAreOfExcel, IsExcel, TypeOK
<1>7. CSVReadsItsOwn' /\ ColumnsAreChecked' /\ ExcelSucceedsAtEnd'
  BY <1>1, <1>2
  DEF CSVReadsItsOwn, ColumnsAreChecked, ExcelSucceedsAtEnd, IsCSV, IsExcel, Waiting, TypeOK
<1>8. BatchInv'
  <2>1. \A v \in Uploads : sent[v] > 0 => source'[v] = source[v]
    BY <1>1, <1>2 DEF TypeOK
  <2>2. QED
    BY <1>1, <2>1, BatchesStay
<1>9. ExcelAwaitsBatches'
  <2>1. \A w \in workers : w.upload # u
    BY <1>2, WorkerFields DEF BatchInv, BatchesAreIntervals
  <2>2. QED
    BY <1>1, <2>1, WorkerFields DEF ExcelAwaitsBatches, IsExcel, TypeOK
<1>10. ConfirmedCSVHasItsEnd'
  BY <1>1 DEF ConfirmedCSVHasItsEnd, Answered
<1>11. QED
  BY <1>4, <1>5, <1>6, <1>7, <1>8, <1>9, <1>10
-----------------------------------------------------------------------------
(* Rows read and handed over.                                              *)

NewBatch(u, last) ==
    [upload |-> u, source |-> source[u], first |-> sent[u] + 1, last |-> last,
     status |-> "running"]

\* A batch joins the others at their end.
LEMMA HandOverBatches ==
  ASSUME TypeOK, BatchInv, NEW u \in Uploads, NEW last \in Nat,
         source[u] # None, sent[u] < last, last <= MaxRows, last - sent[u] <= BatchSize,
         sent[u] % BatchSize = 0, StartWorker(u, last), UNCHANGED <<source, stored>>
  PROVE  /\ BatchInv'
         /\ workers' = workers \cup {NewBatch(u, last)} /\ NewBatch(u, last) \in Worker
         /\ sent' = [sent EXCEPT ![u] = last]
<1> USE DEF BatchInv
<1> DEFINE b == NewBatch(u, last)
<1>1. workers' = workers \cup {b} /\ sent' = [sent EXCEPT ![u] = last]
  BY DEF StartWorker, NewBatch
<1>2. /\ b.upload = u /\ b.source = source[u] /\ b.first = sent[u] + 1 /\ b.last = last
      /\ b.status = "running"
  BY DEF NewBatch
<1>3. sent[u] \in Nat /\ source[u] \in Uploads
  BY DEF TypeOK
<1>4. b \in Worker
  BY <1>3, UploadAssumption DEF NewBatch, Worker, Rows
<1> HIDE DEF b
<1>5. /\ sent'[u] = last
      /\ \A v \in Uploads : sent[v] \in Nat /\ sent'[v] \in Nat /\ sent[v] <= sent'[v]
      /\ \A v \in Uploads : v # u => sent'[v] = sent[v]
  BY <1>1, <1>3 DEF TypeOK
<1>6. BatchesAreIntervals'
  <2>1. \A w \in workers : /\ w.first <= w.last /\ w.last <= sent'[w.upload]
                           /\ w.source = source'[w.upload]
                           /\ (w.first - 1) % BatchSize = 0 /\ w.last - w.first < BatchSize
    <3>1. \A w \in workers : w.last <= sent'[w.upload]
      BY <1>5, WorkerFields DEF BatchesAreIntervals
    <3>2. QED
      BY <3>1 DEF BatchesAreIntervals
  <2>2. b.first <= b.last /\ b.last <= sent'[b.upload] /\ b.source = source'[b.upload]
        /\ b.last - b.first < BatchSize
    BY <1>2, <1>3, <1>5, UploadAssumption
  <2>3. (b.first - 1) % BatchSize = 0
    <3>1. b.first - 1 = sent[u]
      BY <1>2, <1>3
    <3>2. QED
      BY <3>1
  <2>4. QED
    BY <1>1, <2>1, <2>2, <2>3 DEF BatchesAreIntervals
<1>7. BatchesAreDisjoint'
  <2>1. \A w \in workers : w.upload = u => w.last < b.first
    BY <1>2, <1>3, WorkerFields DEF BatchesAreIntervals
  <2>2. QED
    BY <1>1, <1>2, <2>1 DEF BatchesAreDisjoint
<1>8. BatchesAreAll'
  <2>1. SUFFICES ASSUME NEW v \in Uploads, NEW n \in 1..sent'[v]
                 PROVE  \E w \in workers' : w.upload = v /\ w.first <= n /\ n <= w.last
    BY DEF BatchesAreAll
  <2>2. CASE n <= sent[v]
    <3>1. n \in 1..sent[v]
      BY <1>5, <2>2
    <3>2. QED
      BY <1>1, <3>1 DEF BatchesAreAll
  <2>3. CASE ~(n <= sent[v])
    <3>1. v = u
      BY <1>5, <2>3
    <3>2. b.first <= n /\ n <= b.last
      BY <1>2, <1>3, <1>5, <2>3, <3>1
    <3>3. QED
      BY <1>1, <1>2, <3>1, <3>2
  <2>4. QED
    BY <2>2, <2>3
<1>9. StoredWereGiven'
  <2>1. \A s \in stored : s[1] \in Uploads /\ s[3] \in Nat
    BY UploadAssumption DEF TypeOK, Rows
  <2>2. QED
    BY <1>5, <2>1 DEF StoredWereGiven
<1>10. OkIsStored'
  BY <1>1, <1>2 DEF OkIsStored
<1>11. QED
  BY <1>1, <1>4, <1>6, <1>7, <1>8, <1>9, <1>10 DEF b

\* The reader goes on to row r, and hands over the rows up to it if h.
Reads(u, r, h) ==
    /\ step[u] = "read" /\ source[u] # None
    /\ read' = [read EXCEPT ![u] = r]
    /\ r \in Nat /\ read[u] <= r /\ r <= file[source[u]].rows /\ r - sent[u] <= BatchSize
    /\ IF h THEN /\ sent[u] < r /\ StartWorker(u, r)
                 /\ \/ IsExcel(u) /\ r - sent[u] = BatchSize
                       /\ step' = [step EXCEPT ![u] = "batch"]
                    \/ IsCSV(u) /\ r - sent[u] = BatchSize /\ step' = step
                    \/ r = file[source[u]].rows /\ step' = [step EXCEPT ![u] = "final"]
            ELSE r - sent[u] < BatchSize /\ UNCHANGED <<workers, sent, step>>
    /\ UNCHANGED <<file, outcome, answer, name, temp, source, stored>>

LEMMA ReadKinds ==
  ASSUME UploadInv, NEW u \in Uploads, ReadRow(u) \/ HandOverRest(u)
  PROVE  \E r \in Nat, h \in BOOLEAN : Reads(u, r, h)
<1> USE DEF UploadInv, ReaderInv
<1>1. /\ step[u] = "read" /\ source[u] # None /\ source[u] \in Uploads
      /\ file[u] # None /\ file[source[u]] # None
      /\ read[u] \in Nat /\ sent[u] \in Nat /\ sent[u] <= read[u]
      /\ read[u] - sent[u] < BatchSize /\ read[u] <= file[source[u]].rows
  BY UploadAssumption DEF ReadRow, HandOverRest, AtEnd, ReadersAreSound, TypeOK
<1>2. file[source[u]].rows \in Nat /\ file[u].kind \in {"csv", "excel"}
  BY <1>1, FileFields
<1>3. read[u] \in Nat /\ read[u] + 1 \in Nat /\ TRUE \in BOOLEAN /\ FALSE \in BOOLEAN
  BY <1>1
<1>4. CASE ReadRow(u)
  <2>1. /\ read' = [read EXCEPT ![u] = read[u] + 1] /\ read'[u] = read[u] + 1
        /\ read[u] < file[source[u]].rows
        /\ UNCHANGED <<file, outcome, answer, name, temp, source, stored>>
    BY <1>4 DEF ReadRow, tempVars, TypeOK
  <2>2. CASE read[u] + 1 - sent[u] >= BatchSize
    <3>1. sent[u] < read[u] + 1 /\ read[u] + 1 - sent[u] = BatchSize
      BY <1>1, <2>2, UploadAssumption
    <3>2. StartWorker(u, read[u] + 1) /\ \/ IsExcel(u) /\ step' = [step EXCEPT ![u] = "batch"]
                                         \/ IsCSV(u) /\ step' = step
      BY <1>1, <1>2, <1>4, <2>1, <2>2 DEF ReadRow, GoTo, IsExcel, IsCSV, TypeOK
    <3>3. Reads(u, read[u] + 1, TRUE)
      BY <1>1, <1>2, <2>1, <3>1, <3>2, UploadAssumption DEF Reads
    <3>4. QED
      BY <1>3, <3>3, Zenon
  <2>3. CASE ~(read[u] + 1 - sent[u] >= BatchSize)
    <3>1. Reads(u, read[u] + 1, FALSE)
      BY <1>1, <1>2, <1>4, <2>1, <2>3, UploadAssumption DEF ReadRow, Reads
    <3>2. QED
      BY <1>3, <3>1, Zenon
  <2>4. QED
    BY <2>2, <2>3
<1>5. CASE HandOverRest(u)
  <2>1. Reads(u, read[u], TRUE)
    BY <1>1, <1>2, <1>5, UploadAssumption DEF HandOverRest, AtEnd, GoTo, Reads, tempVars, TypeOK
  <2>2. QED
    BY <1>3, <2>1, Zenon
<1>6. QED
  BY <1>4, <1>5

LEMMA ReadsStep ==
  ASSUME UploadInv, NEW u \in Uploads, NEW r \in Nat, NEW h \in BOOLEAN, Reads(u, r, h)
  PROVE  UploadInv'
<1> USE DEF UploadInv, ReaderInv
<1>1. /\ UNCHANGED <<file, outcome, answer, name, temp, source, stored>>
      /\ step[u] = "read" /\ source[u] # None /\ read' = [read EXCEPT ![u] = r]
      /\ source[u] \in Uploads /\ file[u] # None /\ file[source[u]] # None
      /\ read[u] \in Nat /\ sent[u] \in Nat /\ sent[u] <= read[u] /\ read[u] <= r
      /\ sent[u] % BatchSize = 0 /\ r <= file[source[u]].rows /\ r - sent[u] <= BatchSize
  BY DEF Reads, ReadersAreSound, TypeOK
<1>2. r <= MaxRows
  BY <1>1, FileFields, UploadAssumption
<1>3. CASE ~h
  <2>1. UNCHANGED <<workers, sent, step>> /\ r - sent[u] < BatchSize
    BY <1>3 DEF Reads
  <2>2. TypeOK'
    BY <1>1, <1>2, <2>1, UploadAssumption DEF TypeOK
  <2>3. ReadersAreSound'
    BY <1>1, <2>1 DEF ReadersAreSound, TypeOK
  <2>4. CSVReadsItsOwn' /\ NamesAreOfExcel' /\ ColumnsAreChecked' /\ ExcelSucceedsAtEnd'
    BY <1>1, <2>1
    DEF CSVReadsItsOwn, NamesAreOfExcel, ColumnsAreChecked, ExcelSucceedsAtEnd, IsCSV, IsExcel, TypeOK
  <2>5. BatchInv' /\ ExcelAwaitsBatches' /\ ConfirmedCSVHasItsEnd'
    BY <1>1, <2>1, BatchesStay DEF ExcelAwaitsBatches, ConfirmedCSVHasItsEnd, IsExcel, Answered
  <2>6. QED
    BY <2>2, <2>3, <2>4, <2>5
<1>4. CASE h
  <2>1. /\ sent[u] < r /\ StartWorker(u, r)
        /\ \/ IsExcel(u) /\ r - sent[u] = BatchSize /\ step' = [step EXCEPT ![u] = "batch"]
           \/ IsCSV(u) /\ r - sent[u] = BatchSize /\ step' = step
           \/ r = file[source[u]].rows /\ step' = [step EXCEPT ![u] = "final"]
    BY <1>4 DEF Reads
  <2>2. /\ BatchInv' /\ workers' = workers \cup {NewBatch(u, r)} /\ NewBatch(u, r) \in Worker
        /\ sent' = [sent EXCEPT ![u] = r]
    BY <1>1, <1>2, <2>1, HandOverBatches
  <2>3. /\ NewBatch(u, r).upload = u /\ NewBatch(u, r).last = r
    BY DEF NewBatch
  <2>4. TypeOK'
    BY <1>1, <1>2, <2>1, <2>2, UploadAssumption DEF TypeOK, Waiting
  <2>5. ReadersAreSound'
    <3>1. r - sent[u] = BatchSize => r % BatchSize = 0
      <4>1. r - sent[u] = BatchSize => r = sent[u] + BatchSize
        BY <1>1, UploadAssumption
      <4>2. QED
        BY <1>1, <4>1, NextMultiple
    <3>2. \A v \in Uploads \ {u} : /\ read'[v] = read[v] /\ sent'[v] = sent[v]
                                   /\ step'[v] = step[v]
      BY <1>1, <2>1, <2>2 DEF TypeOK
    <3>3. /\ read'[u] = r /\ sent'[u] = r /\ r > 0
          /\ \/ step'[u] \in {"batch", "read"} /\ r - sent[u] = BatchSize
             \/ step'[u] = "final" /\ r = file[source[u]].rows
      BY <1>1, <2>1, <2>2 DEF TypeOK
    <3>4. ReadersAreSound
      OBVIOUS
    <3> HIDE DEF UploadInv, ReaderInv
    <3>5. QED
      BY <1>1, <3>1, <3>2, <3>3, <3>4 DEF ReadersAreSound
  <2>6. CSVReadsItsOwn' /\ NamesAreOfExcel' /\ ColumnsAreChecked' /\ ExcelSucceedsAtEnd'
    BY <1>1, <2>1, <2>2, FileFields
    DEF CSVReadsItsOwn, NamesAreOfExcel, ColumnsAreChecked, ExcelSucceedsAtEnd, IsCSV, IsExcel,
        Waiting, TypeOK
  <2>7. ExcelAwaitsBatches'
    <3>1. \A w \in workers : IsExcel(w.upload) /\ w.upload = u => w.status = "ok"
      BY <1>1 DEF ExcelAwaitsBatches
    <3>2. IsExcel(u) => step'[u] # "read" /\ outcome'[u] = "none" /\ sent'[u] = r
      BY <1>1, <2>1, <2>2 DEF ExcelSucceedsAtEnd, IsExcel, IsCSV, TypeOK
    <3>3. \A w \in workers : w.upload # u =>
              step'[w.upload] = step[w.upload] /\ sent'[w.upload] = sent[w.upload]
      BY <1>1, <2>1, <2>2, WorkerFields DEF TypeOK
    <3>4. QED
      BY <1>1, <2>2, <2>3, <3>1, <3>2, <3>3 DEF ExcelAwaitsBatches, IsExcel
  <2>8. ConfirmedCSVHasItsEnd'
    BY <1>1 DEF ConfirmedCSVHasItsEnd, Answered
  <2>9. QED
    BY <2>2, <2>4, <2>5, <2>6, <2>7, <2>8
<1>5. QED
  BY <1>3, <1>4
-----------------------------------------------------------------------------
(* The worker threads and the process: batches change their status only.   *)

SameBatch(v, w) ==
    v.upload = w.upload /\ v.source = w.source /\ v.first = w.first /\ v.last = w.last

LEMMA SameBatches ==
  ASSUME TypeOK, BatchesAreIntervals, BatchesAreAll, UNCHANGED <<sent, source>>,
         \A v \in workers' : \E w \in workers : SameBatch(v, w),
         \A w \in workers : \E v \in workers' : SameBatch(v, w)
  PROVE  BatchesAreIntervals' /\ BatchesAreAll'
  BY DEF BatchesAreIntervals, BatchesAreAll, SameBatch

LEMMA RunWorkerStep ==
  ASSUME UploadInv, NEW w \in workers, RunWorker(w)
  PROVE  UploadInv'
<1> USE DEF UploadInv, ReaderInv, BatchInv
<1>1. /\ UNCHANGED <<file, step, read, sent, outcome, answer, name, temp, source>>
      /\ w.status # "ok"
      /\ \E last \in (w.first - 1)..w.last, s \in {"ok", "failed"} :
            /\ s = "ok" => last = w.last
            /\ stored' = stored \cup RowsOf(w, last)
            /\ workers' = (workers \ {w}) \cup {[w EXCEPT !.status = s]}
  BY DEF RunWorker, tempVars
<1>2. PICK last \in (w.first - 1)..w.last, s \in {"ok", "failed"} :
            /\ s = "ok" => last = w.last
            /\ stored' = stored \cup RowsOf(w, last)
            /\ workers' = (workers \ {w}) \cup {[w EXCEPT !.status = s]}
  BY <1>1
<1> DEFINE x == [w EXCEPT !.status = s]
<1>3. /\ w.upload \in Uploads /\ w.source \in Uploads
      /\ w.first \in Nat \ {0} /\ w.last \in Nat \ {0} /\ w.last <= MaxRows
      /\ last \in Int /\ w.first - 1 <= last /\ last <= w.last
  BY WorkerFields
<1>4. x \in Worker /\ SameBatch(x, w) /\ x.status = s
  BY DEF Worker, TypeOK, SameBatch
<1> HIDE DEF x
<1>5. \A r \in RowsOf(w, last) :
          /\ r \in Uploads \X Uploads \X Rows /\ r[1] = w.upload /\ r[2] = w.source
          /\ r[3] <= w.last
  BY <1>3, UploadAssumption DEF RowsOf, Rows
<1>6. TypeOK'
  <2>1. workers' \subseteq Worker
    BY <1>2, <1>4 DEF TypeOK, x
  <2>2. stored' \subseteq Uploads \X Uploads \X Rows
    BY <1>2, <1>5 DEF TypeOK
  <2>3. QED
    BY <1>1, <2>1, <2>2 DEF TypeOK
<1>7. ReaderInv'
  BY <1>1
  DEF ReadersAreSound, CSVReadsItsOwn, NamesAreOfExcel, ColumnsAreChecked, ExcelSucceedsAtEnd, IsCSV,
      IsExcel
<1>8. workers' = (workers \ {w}) \cup {x}
  BY <1>2 DEF x
<1>9. BatchesAreIntervals' /\ BatchesAreAll'
  <2>1. \A v \in workers' : \E u \in workers : SameBatch(v, u)
    BY <1>4, <1>8 DEF SameBatch
  <2>2. \A u \in workers : \E v \in workers' : SameBatch(v, u)
    BY <1>4, <1>8 DEF SameBatch
  <2>3. QED
    BY <1>1, <2>1, <2>2, SameBatches
<1>10. BatchesAreDisjoint'
  BY <1>4, <1>8 DEF BatchesAreDisjoint, SameBatch
<1>11. StoredWereGiven'
  <2>1. w.source = source[w.upload] /\ w.last <= sent[w.upload] /\ sent[w.upload] \in Nat
    BY <1>3 DEF BatchesAreIntervals, TypeOK
  <2>2. \A r \in RowsOf(w, last) : r[3] \in Nat /\ r[3] <= sent[w.upload]
    BY <1>3, <1>5, <2>1, UploadAssumption DEF Rows
  <2>3. QED
    BY <1>1, <1>2, <1>5, <2>1, <2>2 DEF StoredWereGiven
<1>12. OkIsStored'
  <2>1. \A v \in workers : v.status = "ok" =>
            \A n \in v.first..v.last : <<v.upload, v.source, n>> \in stored'
    BY <1>2 DEF OkIsStored
  <2>2. x.status = "ok" => \A n \in x.first..x.last : <<x.upload, x.source, n>> \in stored'
    BY <1>2, <1>4 DEF RowsOf, SameBatch
  <2>3. QED
    BY <1>8, <2>1, <2>2 DEF OkIsStored
<1>13. ExcelAwaitsBatches'
  BY <1>1, <1>4, <1>8 DEF ExcelAwaitsBatches, SameBatch, IsExcel
<1>14. ConfirmedCSVHasItsEnd'
  <2>1. stored \subseteq stored'
    BY <1>2
  <2>2. QED
    BY <1>1, <2>1, ConfirmedCSVStays DEF Answered
<1>15. QED
  BY <1>6, <1>7, <1>9, <1>10, <1>11, <1>12, <1>13, <1>14

LEMMA ProcessEndsStep ==
  ASSUME UploadInv, ProcessEnds
  PROVE  UploadInv'
<1> USE DEF UploadInv, ReaderInv, BatchInv
<1> DEFINE After(w) == IF w.status = "running" THEN [w EXCEPT !.status = "orphan"] ELSE w
<1>1. /\ UNCHANGED <<file, read, sent, outcome, answer, name, temp, source, stored>>
      /\ step' = [u \in Uploads |-> IF step[u] \in Waiting THEN "lost" ELSE step[u]]
      /\ workers' = {After(w) : w \in workers}
  BY DEF ProcessEnds, tempVars
<1>2. \A w \in workers : /\ After(w) \in Worker /\ SameBatch(After(w), w)
                         /\ After(w).status = "ok" <=> w.status = "ok"
  BY DEF TypeOK, Worker, SameBatch
<1> HIDE DEF After
<1>3. \A v \in workers' : \E w \in workers :
          v = After(w) /\ v \in Worker /\ SameBatch(v, w) /\ (v.status = "ok" <=> w.status = "ok")
  BY <1>1, <1>2
<1>4. \A w \in workers : After(w) \in workers'
  BY <1>1
<1>5. \A u \in Uploads : step'[u] = step[u] \/ (step'[u] = "lost" /\ step[u] \in Waiting)
  BY <1>1
<1>6. TypeOK'
  <2>1. workers' \subseteq Worker
    BY <1>3
  <2>2. step' \in [Uploads -> Waiting \cup {"idle", "done", "lost"}]
    BY <1>1 DEF TypeOK
  <2>3. QED
    BY <1>1, <2>1, <2>2 DEF TypeOK
<1>7. ReaderInv'
  BY <1>1, <1>5
  DEF ReadersAreSound, CSVReadsItsOwn, NamesAreOfExcel, ColumnsAreChecked, ExcelSucceedsAtEnd, IsCSV,
      IsExcel, Waiting
<1>8. BatchesAreIntervals' /\ BatchesAreAll'
  <2>1. \A v \in workers' : \E w \in workers : SameBatch(v, w)
    BY <1>3
  <2>2. \A w \in workers : \E v \in workers' : SameBatch(v, w)
    BY <1>2, <1>4
  <2>3. QED
    BY <1>1, <2>1, <2>2, SameBatches
<1>9. BatchesAreDisjoint'
  <2>1. SUFFICES ASSUME NEW v \in workers', NEW w \in workers', v.upload = w.upload, v # w
                 PROVE  v.last < w.first \/ w.last < v.first
    BY DEF BatchesAreDisjoint
  <2>2. PICK a \in workers : v = After(a) /\ SameBatch(v, a)
    BY <1>3
  <2>3. PICK b \in workers : w = After(b) /\ SameBatch(w, b)
    BY <1>3
  <2>4. a # b
    BY <2>1, <2>2, <2>3
  <2>5. QED
    BY <2>1, <2>2, <2>3, <2>4 DEF BatchesAreDisjoint, SameBatch
<1>10. StoredWereGiven' /\ OkIsStored'
  BY <1>1, <1>3 DEF StoredWereGiven, OkIsStored, SameBatch
<1>11. ExcelAwaitsBatches'
  <2>1. SUFFICES ASSUME NEW v \in workers', IsExcel(v.upload)', v.status # "ok"
                 PROVE  /\ step'[v.upload] # "read" /\ outcome'[v.upload] # "ok"
                        /\ step'[v.upload] \in {"batch", "final"} => v.last = sent'[v.upload]
    BY DEF ExcelAwaitsBatches
  <2>2. PICK w \in workers : SameBatch(v, w) /\ (v.status = "ok" <=> w.status = "ok")
    BY <1>3
  <2>3. IsExcel(w.upload) /\ w.status # "ok" /\ w.upload = v.upload /\ w.last = v.last
    BY <1>1, <2>1, <2>2 DEF SameBatch, IsExcel
  <2>4. QED
    BY <1>1, <1>5, <2>3, WorkerFields DEF ExcelAwaitsBatches
<1>12. ConfirmedCSVHasItsEnd'
  BY <1>1, ConfirmedCSVStays DEF Answered
<1>13. QED
  BY <1>6, <1>7, <1>8, <1>9, <1>10, <1>11, <1>12
-----------------------------------------------------------------------------
(* The invariant, and the properties that follow from it.                  *)

LEMMA UploadNextInv == UploadInv /\ [Next]_vars => UploadInv'
<1> SUFFICES ASSUME UploadInv, [Next]_vars
             PROVE  UploadInv'
  OBVIOUS
<1>1. ASSUME NEW u \in Uploads, ReceiveCSV(u) \/ ReceiveExcel(u)
      PROVE  UploadInv'
  BY <1>1, ReceiveStep
<1>2. ASSUME NEW u \in Uploads, Handle(u) \/ SaveFails(u) \/ ReadError(u) \/ BatchRejected(u)
      PROVE  UploadInv'
  <2>1. CASE ReadRow(u) \/ HandOverRest(u)
    BY <2>1, ReadKinds, ReadsStep
  <2>2. CASE SaveTempFile(u) \/ SaveFails(u)
    BY <2>2, SaveStep, SaveFailsStep
  <2>3. CASE OpenTempFile(u)
    BY <2>3, OpenStep
  <2>4. CASE ReadError(u)
    <3>1. IsCSV(u) \/ IsExcel(u)
      BY <2>4, FileFields DEF ReadError, UploadInv, ReaderInv, ReadersAreSound, IsCSV, IsExcel
    <3>2. QED
      BY <2>4, <3>1, CSVTurns, ExcelTurns, TurnsStep
  <2>5. CASE BatchRejected(u) \/ EndCSV(u)
    BY <2>5, CSVTurns, TurnsStep
  <2>6. CASE OpenMissing(u) \/ ResumeExcel(u) \/ EndExcel(u) \/ Unlink(u)
    BY <2>6, ExcelTurns, TurnsStep
  <2>7. CASE UnhandledRejection(u)
    BY <2>7, ProcessEndsStep DEF UnhandledRejection
  <2>8. QED
    BY <1>2, <2>1, <2>2, <2>3, <2>4, <2>5, <2>6, <2>7 DEF Handle
<1>3. ASSUME NEW w \in workers, RunWorker(w)
      PROVE  UploadInv'
  BY <1>3, RunWorkerStep
<1>4. CASE Restart
  BY <1>4, ProcessEndsStep DEF Restart
<1>5. CASE UNCHANGED vars
  BY <1>5
  DEF vars, readerVars, tempVars, UploadInv, TypeOK, ReaderInv, BatchInv, ReadersAreSound,
      CSVReadsItsOwn, NamesAreOfExcel, ColumnsAreChecked, ExcelSucceedsAtEnd, BatchesAreIntervals,
      BatchesAreDisjoint, BatchesAreAll, StoredWereGiven, OkIsStored, ExcelAwaitsBatches,
      ConfirmedCSVHasItsEnd, IsCSV, IsExcel, Answered
<1>6. QED
  BY <1>1, <1>2, <1>3, <1>4, <1>5 DEF Next

\* The inductive invariant holds of every behaviour.
THEOREM UploadInvariant == Spec => []UploadInv
<1>1. Init => UploadInv
  BY UploadInitInv
<1>2. UploadInv /\ [Next]_vars => UploadInv'
  BY UploadNextInv
<1>3. QED
  BY <1>1, <1>2, PTL DEF Spec

\* The state of readers, temporary files and threads is well typed, and no
\* buffer holds a full batch.
THEOREM UploadTypeCorrect == Spec => []TypeOK
<1>1. UploadInv => TypeOK
  BY DEF UploadInv
<1>2. QED
  BY <1>1, UploadInvariant, PTL

\* Each row a reader has handed over is in one batch, for every batch size.
THEOREM RowsAreHandedOverOnce == Spec => []EveryRowHandedOverOnce
<1>1. UploadInv => EveryRowHandedOverOnce
  BY OnceEach DEF UploadInv, BatchInv
<1>2. QED
  BY <1>1, UploadInvariant, PTL

\* The rows after the last full batch of a confirmed CSV file are saved.
THEOREM EndOfCSVIsStored == Spec => []ConfirmedCSVHasItsEnd
<1>1. UploadInv => ConfirmedCSVHasItsEnd
  BY DEF UploadInv
<1>2. QED
  BY <1>1, UploadInvariant, PTL

\* The reader of a name of its own has opened its own file or none.
LEMMA OwnNameOwnFile ==
  ASSUME UploadInv, NEW u \in Uploads, IsExcel(u), OwnName(u)
  PROVE  source[u] \in {None, u}
  BY DEF UploadInv, ReaderInv, NamesAreOfExcel, OwnName, TypeOK

\* A confirmed Excel file with a name of its own is saved, all of it and
\* nothing else.
THEOREM ExcelIsStored == Spec => []ConfirmedExcelIsStored
<1>1. ASSUME UploadInv, NEW u \in Uploads, Answered(u, "excel", "ok"), OwnName(u)
      PROVE  SavedFor(u) = OwnRows(u)
  <2> USE DEF UploadInv, ReaderInv, BatchInv
  <2>1. IsExcel(u) /\ outcome[u] = "ok"
    BY <1>1 DEF Answered, IsExcel, ExcelSucceedsAtEnd
  <2>2. source[u] = u /\ sent[u] = file[u].rows /\ sent[u] \in Nat
    BY <1>1, <2>1, OwnNameOwnFile DEF ExcelSucceedsAtEnd, TypeOK
  <2>3. ASSUME NEW s \in stored, s[1] = u
        PROVE  s \in OwnRows(u)
    <3>1. /\ s = <<s[1], s[2], s[3]>> /\ s[3] \in Nat \ {0}
          /\ s[2] = u /\ s[3] <= sent[u]
      BY <1>1, <2>2, <2>3, UploadAssumption DEF TypeOK, Rows, StoredWereGiven
    <3>2. s[3] \in 1..file[u].rows
      BY <2>2, <3>1
    <3>3. QED
      BY <2>3, <3>1, <3>2 DEF OwnRows
  <2>4. ASSUME NEW n \in 1..file[u].rows
        PROVE  <<u, u, n>> \in stored
    <3>1. PICK w \in workers : w.upload = u /\ w.first <= n /\ n <= w.last
      BY <1>1, <2>2 DEF BatchesAreAll
    <3>2. w.status = "ok" /\ w.source = u /\ n \in w.first..w.last
      BY <1>1, <2>1, <2>2, <2>4, <3>1, WorkerFields DEF ExcelAwaitsBatches, BatchesAreIntervals
    <3>3. QED
      BY <1>1, <3>1, <3>2 DEF OkIsStored
  <2>5. QED
    BY <2>3, <2>4 DEF SavedFor, OwnRows
<1>2. UploadInv => ConfirmedExcelIsStored
  BY <1>1 DEF ConfirmedExcelIsStored
<1>3. QED
  BY <1>2, UploadInvariant, PTL

\* An Excel file with a name of its own and without the expected columns saves
\* no row.
THEOREM NothingOfWrongColumns == Spec => []WrongColumnsSaveNothing
<1>1. ASSUME UploadInv, NEW u \in Uploads, IsExcel(u), ~file[u].valid, OwnName(u)
      PROVE  SavedFor(u) = {}
  <2> USE DEF UploadInv, ReaderInv, BatchInv
  <2>1. source[u] \in {None, u}
    BY <1>1, OwnNameOwnFile
  <2>2. read[u] = 0
    BY <1>1, <2>1 DEF ColumnsAreChecked, ReadersAreSound
  <2>3. sent[u] = 0
    BY <1>1, <2>2, UploadAssumption DEF TypeOK
  <2>4. \A s \in stored : s[1] = u => s[3] \in Nat \ {0} /\ s[3] <= 0
    BY <1>1, <2>3, UploadAssumption DEF TypeOK, Rows, StoredWereGiven
  <2>5. QED
    BY <2>4 DEF SavedFor
<1>2. UploadInv => WrongColumnsSaveNothing
  BY <1>1 DEF WrongColumnsSaveNothing, IsExcel
<1>3. QED
  BY <1>2, UploadInvariant, PTL
=============================================================================
