--------------------------- MODULE LeadImportProofs ---------------------------
(***************************************************************************)
(* Theorems about LeadImport, for any rows, companies and sources, any     *)
(* number of requests at the same time and any number of crashes.          *)
(***************************************************************************)
EXTENDS LeadImport, TLAPS

-----------------------------------------------------------------------------
(* Types *)

Entry == [status: RowStatuses, company: Companies \union {NoCompany}, created: BOOLEAN]

\* A request that makes a call is a pending one.
LEMMA PendingType ==
  ASSUME TypeOK, NEW r \in Requests, request[r].call \in Calls
  PROVE  request[r] \in Pending
  <1>1. Idle.call = "none"
    BY DEF Idle
  <1> QED  BY <1>1 DEF TypeOK, Calls

\* Requests start from one that is pending.
LEMMA BlankType == Blank \in Pending
  <1>1. /\ (CHOOSE i \in Rows : TRUE) \in Rows
        /\ (CHOOSE c \in Companies : TRUE) \in Companies
        /\ (CHOOSE m \in Manifests : TRUE) \in Manifests
    BY ImportConstants
  <1> QED  BY <1>1 DEF Blank, Pending, Calls, BatchStatuses

\* Every request starts as a pending one.
LEMMA StartType ==
  ASSUME TypeOK, NEW r \in Requests, NEW p \in Pending, Start(r, p)
  PROVE  request' \in [Requests -> Pending \union {Idle}] /\ overlapped' \in BOOLEAN
  BY DEF Start, TypeOK

\* Going to the next call, or answering, keeps the type of the requests.
LEMMA RequestType ==
  ASSUME TypeOK, NEW r \in Requests
  PROVE  /\ Answer(r) => request' \in [Requests -> Pending \union {Idle}]
         /\ \A p \in Pending : request' = [request EXCEPT ![r] = p] =>
              request' \in [Requests -> Pending \union {Idle}]
         /\ \A call \in Calls : request[r] \in Pending /\ Goto(r, call) =>
              request' \in [Requests -> Pending \union {Idle}]
  <1>1. ASSUME NEW call \in Calls, request[r] \in Pending, Goto(r, call)
        PROVE  request' \in [Requests -> Pending \union {Idle}]
    <2>1. [request[r] EXCEPT !.call = call] \in Pending
      BY <1>1 DEF Pending
    <2> QED  BY <1>1, <2>1 DEF Goto, TypeOK
  <1> QED  BY <1>1 DEF Answer, TypeOK

\* A call that starts from what was read knows just that.
LEMMA ContinuesAs ==
  ASSUME TypeOK, NEW r \in Requests, NEW p, Continue(r, p)
  PROVE  request'[r] = p
  BY DEF Continue, TypeOK

\* The rows a request is told of, and their statuses, have their types.
LEMMA RowSets ==
  ASSUME TypeOK
  PROVE  /\ Staged \subseteq Rows
         /\ \A S : WithStatus(S) \subseteq Rows
         /\ Statuses \subseteq RowStatuses
         /\ \A i \in Rows : row[i] \in Entry
  BY DEF Staged, WithStatus, Statuses, TypeOK, Entry

\* What is written of a row is a row.
LEMMA EntryType ==
  ASSUME NEW e \in Entry
  PROVE  /\ \A status \in RowStatuses :
              /\ [e EXCEPT !.status = status] \in Entry
              /\ [e EXCEPT !.status = status, !.created = FALSE] \in Entry
              /\ [e EXCEPT !.status = status, !.created = TRUE] \in Entry
         /\ Failed(e) \in Entry
         /\ \A hasLead : Reconciled(e, hasLead) \in Entry
  <1>1. ASSUME NEW status \in RowStatuses
        PROVE  /\ [e EXCEPT !.status = status] \in Entry
               /\ [e EXCEPT !.status = status, !.created = FALSE] \in Entry
               /\ [e EXCEPT !.status = status, !.created = TRUE] \in Entry
    BY DEF Entry
  <1>2. {"IMPORT_ERROR", "IMPORTED", "POSSIBLE_EXISTING_DUPLICATE"} \subseteq RowStatuses
    BY DEF RowStatuses
  <1>3. Failed(e) \in Entry
    BY <1>1, <1>2 DEF Failed
  <1>4. \A hasLead : Reconciled(e, hasLead) \in Entry
    BY <1>1, <1>2 DEF Reconciled
  <1> QED  BY <1>1, <1>3, <1>4

\* The creation and the upload of a batch keep the types.
LEMMA UploadType ==
  ASSUME TypeOK, NEW r \in Requests, Create(r) \/ Upload(r)
  PROVE  TypeOK'
  <1>1. {"create", "stage", "receive", "record"} \subseteq Calls
          /\ {"DRAFT", "ROWS_RECEIVED"} \subseteq BatchStatuses /\ "RECEIVED" \in RowStatuses
    BY DEF Calls, BatchStatuses, RowStatuses
  <1>2. Blank \in Pending
    BY BlankType
  <1>3. ASSUME NEW m \in Manifests, ReadCreate(r, m) PROVE TypeOK'
    <2>1. [Blank EXCEPT !.call = "create", !.manifest = m] \in Pending
      BY <1>1, <1>2 DEF Pending
    <2> QED  BY <1>3, <2>1, StartType DEF ReadCreate, data, history, TypeOK
  <1>4. CASE CreateBatch(r)
    <2>1. request[r].manifest \in Manifests
      BY <1>1, <1>4, PendingType DEF CreateBatch, At, Pending
    <2>2. request' \in [Requests -> Pending \union {Idle}]
      BY <1>4, RequestType DEF CreateBatch
    <2> QED  BY <1>1, <1>4, <2>1, <2>2 DEF CreateBatch, TypeOK
  <1>5. ASSUME NEW i \in Rows, NEW c \in Companies, ReadUpload(r, i, c) PROVE TypeOK'
    <2>1. \A call \in Calls :
            [Blank EXCEPT !.seen = batch, !.at = i, !.company = c, !.call = call] \in Pending
      BY <1>2 DEF Pending, TypeOK
    <2>2. (IF i \in Staged THEN "receive" ELSE "stage") \in Calls
      BY <1>1
    <2> QED  BY <1>5, <2>1, <2>2, StartType DEF ReadUpload, data, history, TypeOK
  <1>6. CASE StageRow(r)
    <2>1. request[r] \in Pending
      BY <1>1, <1>6, PendingType DEF StageRow, At
    <2>2. [status |-> "RECEIVED", company |-> request[r].company, created |-> FALSE] \in Entry
      BY <1>1, <2>1 DEF Entry, Pending
    <2>3. row' \in [Rows -> Entry]
      BY <1>6, <2>2 DEF StageRow, TypeOK, Entry
    <2>4. request' \in [Requests -> Pending \union {Idle}]
      BY <1>1, <1>6, <2>1, RequestType DEF StageRow
    <2> QED  BY <1>6, <2>3, <2>4 DEF StageRow, history, TypeOK, Entry
  <1>7. CASE RetryUpload(r)
    <2>1. request[r] \in Pending
      BY <1>1, <1>7, PendingType DEF RetryUpload, At
    <2>2. [request[r] EXCEPT !.call = "receive", !.seen = batch] \in Pending
      BY <1>1, <2>1 DEF Pending, TypeOK
    <2>3. request' = [request EXCEPT ![r] = [request[r] EXCEPT !.call = "receive", !.seen = batch]]
            \/ Answer(r)
      BY <1>7 DEF RetryUpload, TypeOK
    <2>4. request' \in [Requests -> Pending \union {Idle}]
      BY <2>2, <2>3, RequestType
    <2> QED  BY <1>7, <2>4 DEF RetryUpload, data, history, TypeOK
  <1>8. CASE FinishUpload(r)
    <2>1. request' \in [Requests -> Pending \union {Idle}]
      BY <1>8, RequestType DEF FinishUpload
    <2> QED  BY <1>1, <1>8, <2>1 DEF FinishUpload, TypeOK
  <1>9. ASSUME NEW s \in Sources, ReadProvenance(r, s) PROVE TypeOK'
    <2>1. [Blank EXCEPT !.call = "record", !.source = s] \in Pending
      BY <1>1, <1>2 DEF Pending
    <2> QED  BY <1>9, <2>1, StartType DEF ReadProvenance, data, history, TypeOK
  <1>10. CASE RecordProvenance(r)
    <2>1. request[r].source \in Sources \union {NoSource}
      BY <1>1, <1>10, PendingType DEF RecordProvenance, At, Pending
    <2>2. request' \in [Requests -> Pending \union {Idle}]
      BY <1>10, RequestType DEF RecordProvenance
    <2> QED  BY <1>10, <2>1, <2>2 DEF RecordProvenance, TypeOK
  <1> QED
    BY <1>3, <1>4, <1>5, <1>6, <1>7, <1>8, <1>9, <1>10 DEF Create, Upload

\* The preview and the beginning of a submission keep the types.
LEMMA PreviewType ==
  ASSUME TypeOK, NEW r \in Requests, Preview(r) \/ ReadSubmit(r)
  PROVE  TypeOK'
  <1>1. {"previewRow", "approve"} \subseteq Calls
    BY DEF Calls
  <1>2. Blank \in Pending
    BY BlankType
  <1>3. CASE ReadPreview(r)
    <2>1. [Blank EXCEPT !.call = "previewRow", !.todo = Staged] \in Pending
      BY <1>1, <1>2, RowSets DEF Pending
    <2> QED  BY <1>3, <2>1, StartType DEF ReadPreview, data, history, TypeOK
  <1>4. CASE PreviewRow(r)
    <2>1. request[r] \in Pending
      BY <1>1, <1>4, PendingType DEF PreviewRow, At
    <2>2. PICK i \in request[r].todo :
            LET status == PreviewStatus(i, request[r].handled) IN
            /\ row' = [row EXCEPT ![i].status = status, ![i].created = FALSE]
            /\ valid' = IF status = "VALID" THEN valid \union {i} ELSE valid
            /\ request' = [request EXCEPT ![r].todo = @ \ {i}, ![r].found = @ \union {status},
                                           ![r].handled = @ \union {i}]
      BY <1>4 DEF PreviewRow
    <2> DEFINE status == PreviewStatus(i, request[r].handled)
    <2>3. i \in Rows /\ status \in RowStatuses
      BY <2>1, <2>2 DEF Pending, PreviewStatus, RowStatuses
    <2> HIDE DEF status
    <2>4. [row[i] EXCEPT !.status = status, !.created = FALSE] \in Entry
      BY <2>3, RowSets, EntryType
    <2>5. row' \in [Rows -> Entry]
      BY <2>2, <2>3, <2>4 DEF status, TypeOK, Entry
    <2>6. [request[r] EXCEPT !.todo = @ \ {i}, !.found = @ \union {status},
                             !.handled = @ \union {i}] \in Pending
      BY <2>1, <2>3 DEF Pending
    <2>7. request' \in [Requests -> Pending \union {Idle}]
      BY <2>2, <2>6 DEF status, TypeOK
    <2>8. valid' \subseteq Rows
      BY <2>2, <2>3 DEF TypeOK
    <2> QED  BY <1>4, <2>5, <2>7, <2>8 DEF PreviewRow, TypeOK, Entry
  <1>5. CASE FinishPreview(r)
    <2>1. request' \in [Requests -> Pending \union {Idle}]
      BY <1>5, RequestType DEF FinishPreview
    <2>2. batch' \in BatchStatuses
      BY <1>5 DEF FinishPreview, Recommended, BatchStatuses
    <2> QED  BY <1>5, <2>1, <2>2 DEF FinishPreview, history, TypeOK
  <1>6. CASE ReadSubmit(r)
    <2>1. [Blank EXCEPT !.call = "approve"] \in Pending
      BY <1>1, <1>2 DEF Pending
    <2> QED  BY <1>6, <2>1, StartType DEF ReadSubmit, data, history, TypeOK
  <1> QED  BY <1>3, <1>4, <1>5, <1>6 DEF Preview

\* What requests know of the rows: the rows they handle are staged, and a
\* staged row has a content.  Without it the types are not inductive: a Lead
\* might be created from a row that has no company.
StagedHaveContent == \A i \in Staged : row[i].company \in Companies

HandledAreStaged ==
  \A r \in Requests : /\ request[r] # Idle => request[r].todo \subseteq Staged
                      /\ request[r].call \in {"insert", "mark"} => request[r].at \in Staged

StagedInv == StagedHaveContent /\ HandledAreStaged

\* The submission keeps the types.
LEMMA ImportType ==
  ASSUME TypeOK, StagedInv, NEW r \in Requests, Import(r)
  PROVE  TypeOK'
  <1> DEFINE q == request[r]
  <1>1. {"approve", "load", "lookUp", "insert", "mark", "finalize", "reload", "reconcile", "settle"}
          \subseteq Calls
    BY DEF Calls
  <1>2. {"SUBMITTED", "RECONCILIATION_REQUIRED", "PARTIALLY_ACCEPTED", "COMPLETED"} \subseteq BatchStatuses
          /\ \A statuses : Final(statuses) \in BatchStatuses
    BY DEF BatchStatuses, Final
  <1>3. {"APPROVED", "IMPORTED", "POSSIBLE_EXISTING_DUPLICATE"} \subseteq RowStatuses
    BY DEF RowStatuses
  <1>4. \A i \in Rows : row[i] \in Entry
    BY RowSets
  <1>5. q \in Pending
    BY <1>1, PendingType
    DEF Import, ApproveBatch, LoadApproved, LookUpRow, InsertRow, FailRow, MarkRow,
        LoadFinal, FinalizeBatch,
        ReloadErrors, ReconcileRow, NothingReconciled, LoadReconciled, SettleBatch, At
  <1>6. q.todo \subseteq Rows /\ q.at \in Rows
    BY <1>5 DEF Pending
  <1>a. Blank \in Pending
    BY BlankType
  <1>7. CASE ApproveBatch(r)
    <2>1. \A i \in Rows : [row[i] EXCEPT !.status = "APPROVED"] \in Entry
      BY <1>3, <1>4, EntryType
    <2>2. row' \in [Rows -> Entry]
      BY <1>4, <1>7, <2>1 DEF ApproveBatch
    <2>3. request' \in [Requests -> Pending \union {Idle}]
      BY <1>1, <1>5, <1>7, RequestType DEF ApproveBatch
    <2> QED  BY <1>2, <1>7, <2>2, <2>3 DEF ApproveBatch, history, TypeOK, Entry
  <1>8. CASE LoadApproved(r)
    <2>1. [Blank EXCEPT !.call = "lookUp", !.todo = WithStatus({"APPROVED"})] \in Pending
      BY <1>1, <1>a, RowSets DEF Pending
    <2>2. request' \in [Requests -> Pending \union {Idle}]
      BY <1>8, <2>1, RequestType DEF LoadApproved, Continue
    <2> QED  BY <1>8, <2>2 DEF LoadApproved, data, history, TypeOK
  <1>9. CASE LookUpRow(r)
    <2>1. PICK i \in q.todo :
            /\ row' \in {row, [row EXCEPT ![i].status = "POSSIBLE_EXISTING_DUPLICATE"]}
            /\ \/ request' = [request EXCEPT ![r].todo = @ \ {i}]
               \/ request' = [request EXCEPT ![r].call = "mark", ![r].at = i]
               \/ request' = [request EXCEPT ![r].call = "insert", ![r].at = i]
      BY <1>9 DEF LookUpRow
    <2>2. [row[i] EXCEPT !.status = "POSSIBLE_EXISTING_DUPLICATE"] \in Entry
      BY <1>3, <1>4, <1>6, EntryType
    <2>3. row' \in [Rows -> Entry]
      BY <1>4, <1>6, <2>1, <2>2 DEF TypeOK, Entry
    <2>4. [q EXCEPT !.todo = @ \ {i}] \in Pending
      BY <1>5 DEF Pending
    <2>5. \A call \in Calls : [q EXCEPT !.call = call, !.at = i] \in Pending
      BY <1>5, <1>6 DEF Pending
    <2>6. PICK p \in Pending : request' = [request EXCEPT ![r] = p]
      <3>1. CASE request' = [request EXCEPT ![r].todo = @ \ {i}]
        BY <2>4, <3>1 DEF TypeOK
      <3>2. ASSUME NEW call \in {"insert", "mark"},
                   request' = [request EXCEPT ![r].call = call, ![r].at = i]
            PROVE  request' = [request EXCEPT ![r] = [q EXCEPT !.call = call, !.at = i]]
        BY <3>2 DEF TypeOK
      <3> QED  BY <1>1, <2>1, <2>5, <3>1, <3>2
    <2>7. request' \in [Requests -> Pending \union {Idle}]
      BY <2>6, RequestType
    <2> QED  BY <1>9, <2>3, <2>7 DEF LookUpRow, history, TypeOK, Entry
  <1>10. CASE InsertRow(r)
    <2>1. [row[q.at] EXCEPT !.status = "IMPORTED", !.created = TRUE] \in Entry
      BY <1>3, <1>4, <1>6, EntryType
    <2>2. row' \in [Rows -> Entry]
      BY <1>4, <1>6, <1>10, <2>1 DEF InsertRow, TypeOK, Entry
    <2>3. leads' \subseteq Companies /\ imported' \subseteq Rows
      BY <1>6, <1>10
      DEF InsertRow, At, StagedInv, HandledAreStaged, StagedHaveContent, TypeOK
    <2>4. [q EXCEPT !.call = "lookUp", !.todo = @ \ {q.at}] \in Pending
      BY <1>1, <1>5 DEF Pending
    <2>5. request' \in [Requests -> Pending \union {Idle}]
      <3>1. CASE Goto(r, "mark")
        BY <1>1, <1>5, <3>1, RequestType
      <3>2. CASE ~Goto(r, "mark")
        BY <1>10, <2>4, <3>2 DEF InsertRow, TypeOK
      <3> QED  BY <3>1, <3>2
    <2> QED  BY <1>10, <2>2, <2>3, <2>5 DEF InsertRow, TypeOK, Entry
  <1>b. CASE FailRow(r)
    <2>1. \A i \in q.todo : [q EXCEPT !.call = "mark", !.at = i] \in Pending
      BY <1>1, <1>5, <1>6 DEF Pending
    <2>2. request' \in [Requests -> Pending \union {Idle}]
      <3>1. CASE Goto(r, "mark")
        BY <1>1, <1>5, <3>1, RequestType
      <3>2. CASE ~Goto(r, "mark")
        BY <1>b, <2>1, <3>2 DEF FailRow, TypeOK
      <3> QED  BY <3>1, <3>2
    <2> QED  BY <1>b, <2>2 DEF FailRow, data, history, TypeOK
  <1>c. CASE MarkRow(r)
    <2>1. Failed(row[q.at]) \in Entry
      BY <1>4, <1>6, EntryType
    <2>2. row' \in [Rows -> Entry]
      BY <1>4, <1>6, <1>c, <2>1 DEF MarkRow, TypeOK, Entry
    <2>3. [q EXCEPT !.call = "lookUp", !.todo = @ \ {q.at}] \in Pending
      BY <1>1, <1>5 DEF Pending
    <2>4. request' \in [Requests -> Pending \union {Idle}]
      BY <1>c, <2>3 DEF MarkRow, TypeOK
    <2> QED  BY <1>c, <2>2, <2>4 DEF MarkRow, history, TypeOK, Entry
  <1>11. CASE LoadFinal(r)
    <2>1. [Blank EXCEPT !.call = "finalize", !.found = Statuses] \in Pending
      BY <1>1, <1>a, RowSets DEF Pending
    <2>2. request' \in [Requests -> Pending \union {Idle}]
      BY <1>11, <2>1, RequestType DEF LoadFinal, Continue
    <2> QED  BY <1>11, <2>2 DEF LoadFinal, data, history, TypeOK
  <1>12. CASE FinalizeBatch(r)
    <2>1. [Blank EXCEPT !.call = "reload"] \in Pending
      BY <1>1, <1>a DEF Pending
    <2>2. request' \in [Requests -> Pending \union {Idle}]
      BY <1>12, <2>1, RequestType DEF FinalizeBatch, Continue
    <2> QED  BY <1>2, <1>12, <2>2 DEF FinalizeBatch, history, TypeOK
  <1>13. CASE ReloadErrors(r)
    <2>1. WithStatus({"IMPORT_ERROR"}) \subseteq Rows
            /\ {i \in WithStatus({"IMPORT_ERROR"}) : row[i].created} \subseteq Rows
      BY RowSets
    <2>2. [Blank EXCEPT !.call = "reconcile", !.todo = WithStatus({"IMPORT_ERROR"}),
                        !.handled = {i \in WithStatus({"IMPORT_ERROR"}) : row[i].created}]
            \in Pending
      BY <1>1, <1>a, <2>1 DEF Pending
    <2>3. request' \in [Requests -> Pending \union {Idle}]
      BY <1>13, <2>2, RequestType DEF ReloadErrors, Continue
    <2> QED  BY <1>13, <2>3 DEF ReloadErrors, data, history, TypeOK
  <1>14. CASE ReconcileRow(r)
    <2>1. PICK i \in q.todo :
            /\ row' \in {row, [row EXCEPT ![i] = Reconciled(@, i \in q.handled)]}
            /\ \/ request' = [request EXCEPT ![r].todo = @ \ {i}]
               \/ /\ row' = [row EXCEPT ![i] = Reconciled(@, i \in q.handled)]
                  /\ request' = [request EXCEPT ![r].todo = @ \ {i},
                                                ![r].found = @ \union {row'[i].status}]
      BY <1>14 DEF ReconcileRow
    <2>2. Reconciled(row[i], i \in q.handled) \in Entry
      BY <1>4, <1>6, EntryType
    <2>3. row' \in [Rows -> Entry]
      BY <1>4, <1>6, <2>1, <2>2 DEF TypeOK, Entry
    <2>4. /\ [q EXCEPT !.todo = @ \ {i}] \in Pending
          /\ [q EXCEPT !.todo = @ \ {i}, !.found = @ \union {row'[i].status}] \in Pending
      BY <1>5, <1>6, <2>3 DEF Pending, Entry
    <2>5. request' \in [Requests -> Pending \union {Idle}]
      BY <2>1, <2>4 DEF TypeOK
    <2> QED  BY <1>14, <2>3, <2>5 DEF ReconcileRow, history, TypeOK, Entry
  <1>d. CASE NothingReconciled(r)
    BY <1>d, RequestType DEF NothingReconciled, data, history, TypeOK
  <1>15. CASE LoadReconciled(r)
    <2>1. [Blank EXCEPT !.call = "settle", !.found = Statuses] \in Pending
      BY <1>1, <1>a, RowSets DEF Pending
    <2>2. request' \in [Requests -> Pending \union {Idle}]
      BY <1>15, <2>1, RequestType DEF LoadReconciled, Continue
    <2> QED  BY <1>15, <2>2 DEF LoadReconciled, data, history, TypeOK
  <1>16. CASE SettleBatch(r)
    <2>1. request' \in [Requests -> Pending \union {Idle}]
      BY <1>16, RequestType DEF SettleBatch
    <2> QED  BY <1>2, <1>16, <2>1 DEF SettleBatch, history, TypeOK
  <1> QED
    BY <1>7, <1>8, <1>9, <1>10, <1>11, <1>12, <1>13, <1>14, <1>15, <1>16, <1>b, <1>c, <1>d
    DEF Import

\* Every step keeps the types.
LEMMA NextType ==
  ASSUME TypeOK, StagedInv, [Next]_vars
  PROVE  TypeOK'
  <1>1. ASSUME NEW r \in Requests, Crash(r) PROVE TypeOK'
    BY <1>1, RequestType, ImportConstants DEF Crash, data, TypeOK
  <1>2. ASSUME NEW c \in Companies, AdminImport(c) \/ Suppress(c) PROVE TypeOK'
    BY <1>2 DEF AdminImport, Suppress, history, TypeOK
  <1>3. CASE UNCHANGED vars
    BY <1>3 DEF vars, data, history, TypeOK
  <1> QED  BY <1>1, <1>2, <1>3, UploadType, PreviewType, ImportType DEF Next

-----------------------------------------------------------------------------
(* The rows of a batch *)

\* A step keeps the content of a row that is staged, and stages no row without
\* a content.
RowsEvolve ==
  \A i \in Rows : /\ i \in Staged => i \in Staged' /\ row'[i].company = row[i].company
                  /\ i \in Staged' => row'[i].company \in Companies

\* A step that writes one staged row, and keeps its content.
LEMMA OneRowEvolves ==
  ASSUME TypeOK, StagedInv, NEW i \in Staged, NEW e \in Entry,
         e.company = row[i].company, e.status # "ABSENT",
         row' = [row EXCEPT ![i] = e]
  PROVE  RowsEvolve
  BY DEF RowsEvolve, StagedInv, StagedHaveContent, Staged, TypeOK

LEMMA RowsStepwise ==
  ASSUME TypeOK, StagedInv, [Next]_vars
  PROVE  RowsEvolve
  <1>1. CASE row' = row
    BY <1>1 DEF RowsEvolve, StagedInv, StagedHaveContent, Staged
  <1>2. ASSUME NEW r \in Requests, StageRow(r) PROVE RowsEvolve
    <2>1. request[r].company \in Companies /\ request[r].at \in Rows
      BY <1>2, PendingType DEF StageRow, At, Pending, Calls
    <2> QED
      BY <1>2, <2>1 DEF StageRow, RowsEvolve, StagedInv, StagedHaveContent, Staged, TypeOK
  <1>3. ASSUME NEW r \in Requests, PreviewRow(r) PROVE RowsEvolve
    <2>1. PICK i \in request[r].todo :
            row' = [row EXCEPT ![i].status = PreviewStatus(i, request[r].handled),
                               ![i].created = FALSE]
      BY <1>3 DEF PreviewRow
    <2> DEFINE status == PreviewStatus(i, request[r].handled)
    <2>2. i \in Staged
      BY <1>3, <2>1 DEF PreviewRow, At, StagedInv, HandledAreStaged, Idle
    <2>3. status \in RowStatuses /\ status # "ABSENT"
      BY DEF PreviewStatus, RowStatuses
    <2> HIDE DEF status
    <2>4. row[i] \in Entry
      BY <2>2, RowSets
    <2>5. [row[i] EXCEPT !.status = status, !.created = FALSE] \in Entry
      BY <2>3, <2>4, EntryType
    <2>6. /\ [row[i] EXCEPT !.status = status, !.created = FALSE].company = row[i].company
          /\ [row[i] EXCEPT !.status = status, !.created = FALSE].status = status
      BY <2>4 DEF Entry
    <2>7. row' = [row EXCEPT ![i] = [row[i] EXCEPT !.status = status, !.created = FALSE]]
      BY <2>1, <2>2 DEF status, TypeOK, Staged
    <2> QED  BY <2>2, <2>3, <2>5, <2>6, <2>7, OneRowEvolves
  <1>4. ASSUME NEW r \in Requests, ApproveBatch(r) PROVE RowsEvolve
    BY <1>4
    DEF ApproveBatch, Promotable, RowsEvolve, StagedInv, StagedHaveContent, Staged, TypeOK
  <1>5. ASSUME NEW r \in Requests, LookUpRow(r) PROVE RowsEvolve
    <2>1. PICK i \in request[r].todo :
            row' = [row EXCEPT ![i].status = "POSSIBLE_EXISTING_DUPLICATE"] \/ row' = row
      BY <1>5 DEF LookUpRow
    <2>2. i \in Staged
      BY <1>5, <2>1 DEF LookUpRow, At, StagedInv, HandledAreStaged, Idle
    <2>3. row[i] \in Entry
      BY <2>2, RowSets
    <2> DEFINE e == [row[i] EXCEPT !.status = "POSSIBLE_EXISTING_DUPLICATE"]
    <2>4. e \in Entry /\ e.company = row[i].company /\ e.status # "ABSENT"
      BY <2>3 DEF Entry, RowStatuses
    <2>5. row' = [row EXCEPT ![i] = e] \/ row' = row
      BY <2>1, <2>2 DEF TypeOK, Staged
    <2> HIDE DEF e
    <2> QED  BY <1>1, <2>2, <2>4, <2>5, OneRowEvolves
  <1>6. ASSUME NEW r \in Requests, InsertRow(r) \/ MarkRow(r) PROVE RowsEvolve
    <2> DEFINE i == request[r].at
    <2>1. i \in Staged
      BY <1>6 DEF InsertRow, MarkRow, At, StagedInv, HandledAreStaged
    <2>2. row[i] \in Entry
      BY <2>1, RowSets
    <2>3. PICK e : /\ e \in {Failed(row[i]), [row[i] EXCEPT !.status = "IMPORTED", !.created = TRUE]}
                   /\ row' = [row EXCEPT ![i] = e]
      BY <1>6, <2>1 DEF InsertRow, MarkRow, TypeOK, Staged
    <2>4. e \in Entry /\ e.company = row[i].company /\ e.status # "ABSENT"
      BY <2>2, <2>3 DEF Entry, RowStatuses, Failed
    <2> HIDE DEF i
    <2> QED  BY <2>1, <2>3, <2>4, OneRowEvolves
  <1>7. ASSUME NEW r \in Requests, ReconcileRow(r) PROVE RowsEvolve
    <2>1. PICK i \in request[r].todo :
            row' = [row EXCEPT ![i] = Reconciled(@, i \in request[r].handled)] \/ row' = row
      BY <1>7 DEF ReconcileRow
    <2>2. i \in Staged
      BY <1>7, <2>1 DEF ReconcileRow, At, StagedInv, HandledAreStaged, Idle
    <2>3. row[i] \in Entry /\ row[i].status # "ABSENT"
      BY <2>2, RowSets DEF Staged
    <2> DEFINE e == Reconciled(row[i], i \in request[r].handled)
    <2>4. e \in Entry
      BY <2>3, EntryType
    <2>5. e.company = row[i].company /\ e.status # "ABSENT"
      BY <2>3 DEF Reconciled, Entry
    <2>6. row' = [row EXCEPT ![i] = e] \/ row' = row
      BY <2>1, <2>2 DEF TypeOK, Staged
    <2> HIDE DEF e
    <2> QED  BY <1>1, <2>2, <2>4, <2>5, <2>6, OneRowEvolves
  <1>8. CASE UNCHANGED vars
    BY <1>1, <1>8 DEF vars, data
  <1>9. ASSUME NEW r \in Requests,
               Create(r) \/ Upload(r) \/ Preview(r) \/ ReadSubmit(r) \/ Import(r) \/ Crash(r)
        PROVE  RowsEvolve
    <2>1. \/ row' = row
          \/ StageRow(r) \/ PreviewRow(r) \/ ApproveBatch(r) \/ LookUpRow(r) \/ InsertRow(r)
          \/ MarkRow(r) \/ ReconcileRow(r)
      BY <1>9
      DEF Create, CreateBatch, ReadCreate, Upload, ReadUpload, RetryUpload, FinishUpload,
          ReadProvenance, RecordProvenance, Preview, ReadPreview, FinishPreview, ReadSubmit,
          Import, LoadApproved, FailRow, LoadFinal, FinalizeBatch, ReloadErrors, NothingReconciled,
          LoadReconciled,
          SettleBatch, Crash, data
    <2> QED  BY <1>1, <1>2, <1>3, <1>4, <1>5, <1>6, <1>7, <2>1
  <1>10. ASSUME NEW c \in Companies, AdminImport(c) \/ Suppress(c) PROVE RowsEvolve
    BY <1>1, <1>10 DEF AdminImport, Suppress
  <1> QED  BY <1>8, <1>9, <1>10 DEF Next

\* What a request knows when its next call is written down.
LEMMA RequestKnows ==
  ASSUME TypeOK, StagedInv, RowsEvolve, NEW r \in Requests, NEW q \in Pending \union {Idle},
         q # Idle => q.todo \subseteq Staged',
         q.call \in {"insert", "mark"} => q.at \in Staged',
         request' = [request EXCEPT ![r] = q]
  PROVE  StagedInv'
  <1>1. Staged \subseteq Staged' /\ \A i \in Staged' : row'[i].company \in Companies
    BY DEF RowsEvolve, Staged
  <1> QED  BY <1>1 DEF StagedInv, StagedHaveContent, HandledAreStaged, At, TypeOK

LEMMA RequestsKnowTheSame ==
  ASSUME TypeOK, StagedInv, RowsEvolve, request' = request
  PROVE  StagedInv'
  <1>1. Staged \subseteq Staged' /\ \A i \in Staged' : row'[i].company \in Companies
    BY DEF RowsEvolve, Staged
  <1> QED  BY <1>1 DEF StagedInv, StagedHaveContent, HandledAreStaged, At

LEMMA StagedStepwise ==
  ASSUME TypeOK, StagedInv, [Next]_vars
  PROVE  StagedInv'
  <1>1. RowsEvolve /\ TypeOK'
    BY RowsStepwise, NextType
  <1>2. Staged \subseteq Staged'
    BY <1>1 DEF RowsEvolve, Staged
  <1>3. CASE request' = request
    BY <1>1, <1>3, RequestsKnowTheSame
  <1>4. ASSUME NEW r \in Requests,
               \/ request'[r] = Idle
               \/ /\ request'[r].todo \subseteq Staged'
                  /\ request'[r].call \in {"insert", "mark"} => request'[r].at \in Staged',
               request' = [request EXCEPT ![r] = request'[r]]
        PROVE  StagedInv'
    <2>1. request'[r] \in Pending \union {Idle}
      BY <1>1, <1>4 DEF TypeOK
    <2>2. Idle.call \notin {"insert", "mark"}
      BY DEF Idle
    <2> QED  BY <1>1, <1>4, <2>1, <2>2, RequestKnows DEF At
  <1>5. ASSUME NEW r \in Requests, Answer(r) PROVE StagedInv'
    BY <1>4, <1>5 DEF Answer, TypeOK
  <1>6. ASSUME NEW r \in Requests, NEW q, Start(r, q), q.call \notin {"insert", "mark"},
               q.todo \subseteq Staged
        PROVE  StagedInv'
    <2>1. request'[r] = q /\ request' = [request EXCEPT ![r] = request'[r]]
      BY <1>6 DEF Start, TypeOK
    <2> QED  BY <1>2, <1>4, <1>6, <2>1 DEF At
  <1>7. ASSUME NEW r \in Requests, NEW call \in Calls \ {"insert", "mark"}, request[r].call \in Calls,
               Goto(r, call)
        PROVE  StagedInv'
    <2>1. request[r] \in Pending /\ request[r].todo \subseteq Staged
      BY <1>7, PendingType DEF StagedInv, HandledAreStaged, Pending, Idle, Calls
    <2>2. request'[r] = [request[r] EXCEPT !.call = call]
            /\ request' = [request EXCEPT ![r] = request'[r]]
      BY <1>7 DEF Goto, TypeOK
    <2>3. request'[r].todo = request[r].todo /\ request'[r].call = call
      BY <2>1, <2>2 DEF Pending
    <2> QED  BY <1>2, <1>4, <1>7, <2>1, <2>2, <2>3 DEF At
  <1>8. ASSUME NEW r \in Requests, Create(r) \/ Upload(r) PROVE StagedInv'
    <2>1. ASSUME NEW m \in Manifests, ReadCreate(r, m) PROVE StagedInv'
      BY <1>6, <2>1 DEF ReadCreate, Blank
    <2>2. ASSUME NEW i \in Rows, NEW c \in Companies, ReadUpload(r, i, c) PROVE StagedInv'
      <3> DEFINE q == [Blank EXCEPT !.seen = batch, !.at = i, !.company = c,
                                    !.call = IF i \in Staged THEN "receive" ELSE "stage"]
      <3>1. q.call \notin {"insert", "mark"} /\ q.todo = {}
        BY DEF Blank
      <3>2. Start(r, q)
        BY <2>2 DEF ReadUpload
      <3> HIDE DEF q
      <3> QED  BY <1>6, <3>1, <3>2
    <2>3. ASSUME NEW s \in Sources, ReadProvenance(r, s) PROVE StagedInv'
      BY <1>6, <2>3 DEF ReadProvenance, Blank
    <2>4. CASE StageRow(r)
      BY <1>7, <2>4 DEF StageRow, At, Calls
    <2>5. CASE RetryUpload(r)
      <3>1. CASE Answer(r)
        BY <1>5, <3>1
      <3>2. CASE request' = [request EXCEPT ![r].call = "receive", ![r].seen = batch]
        <4>1. request[r] \in Pending /\ request[r].todo \subseteq Staged
          BY <2>5, PendingType DEF RetryUpload, At, StagedInv, HandledAreStaged, Idle, Calls
        <4>2. request'[r] = [request[r] EXCEPT !.call = "receive", !.seen = batch]
                /\ request' = [request EXCEPT ![r] = request'[r]]
          BY <3>2 DEF TypeOK
        <4>3. request'[r].todo = request[r].todo /\ request'[r].call = "receive"
          BY <4>1, <4>2 DEF Pending
        <4> QED  BY <1>2, <1>4, <4>1, <4>2, <4>3 DEF At
      <3> QED  BY <2>5, <3>1, <3>2 DEF RetryUpload
    <2> QED
      BY <1>5, <1>8, <2>1, <2>2, <2>3, <2>4, <2>5
      DEF Create, CreateBatch, Upload, FinishUpload, RecordProvenance
  <1>9. ASSUME NEW r \in Requests, Preview(r) \/ ReadSubmit(r) PROVE StagedInv'
    <2>1. CASE ReadPreview(r)
      BY <1>6, <2>1 DEF ReadPreview, Blank
    <2>2. CASE ReadSubmit(r)
      BY <1>6, <2>2 DEF ReadSubmit, Blank
    <2>3. CASE PreviewRow(r)
      <3>1. request[r] \in Pending /\ request[r].todo \subseteq Staged
        BY <2>3, PendingType DEF PreviewRow, At, StagedInv, HandledAreStaged, Idle, Calls
      <3>2. PICK i, status :
              request' = [request EXCEPT ![r].todo = @ \ {i}, ![r].found = @ \union {status},
                                         ![r].handled = @ \union {i}]
        BY <2>3 DEF PreviewRow
      <3>3. request'[r] = [request[r] EXCEPT !.todo = @ \ {i}, !.found = @ \union {status},
                                             !.handled = @ \union {i}]
              /\ request' = [request EXCEPT ![r] = request'[r]]
        BY <3>2 DEF TypeOK
      <3>4. request'[r].todo \subseteq request[r].todo /\ request'[r].call = request[r].call
        BY <3>1, <3>3 DEF Pending
      <3> QED  BY <1>2, <1>4, <2>3, <3>1, <3>3, <3>4 DEF At, PreviewRow
    <2> QED  BY <1>5, <1>9, <2>1, <2>2, <2>3 DEF Preview, FinishPreview
  <1>10. ASSUME NEW r \in Requests, Import(r) PROVE StagedInv'
    <2> DEFINE q == request[r]
    <2>a. q.call \in Calls
      BY <1>10
      DEF Import, ApproveBatch, LoadApproved, LookUpRow, InsertRow, FailRow, MarkRow,
          LoadFinal, FinalizeBatch,
          ReloadErrors, ReconcileRow, NothingReconciled, LoadReconciled, SettleBatch, At, Calls
    <2>b. q # Idle
      BY <2>a DEF Idle, Calls
    <2>1. q \in Pending /\ q.todo \subseteq Staged
      BY <2>a, <2>b, PendingType DEF StagedInv, HandledAreStaged
    <2>2. /\ WithStatus({"APPROVED"}) \subseteq Staged
          /\ WithStatus({"IMPORT_ERROR"}) \subseteq Staged
      BY DEF WithStatus, Staged
    <2>c. ASSUME NEW p, Continue(r, p), p.call \notin {"insert", "mark"}, p.todo \subseteq Staged
          PROVE  StagedInv'
      <3>1. request'[r] = p /\ request' = [request EXCEPT ![r] = request'[r]]
        BY <2>c DEF Continue, TypeOK
      <3> QED  BY <1>2, <1>4, <2>c, <3>1
    <2>3. CASE ApproveBatch(r)
      BY <1>7, <2>3 DEF ApproveBatch, At, Calls
    <2>4. CASE LoadApproved(r)
      BY <2>2, <2>4, <2>c DEF LoadApproved, Blank
    <2>d. ASSUME NEW i \in q.todo,
                 \/ request' = [request EXCEPT ![r].todo = @ \ {i}] /\ q.call \notin {"insert", "mark"}
                 \/ request' = [request EXCEPT ![r].call = "mark", ![r].at = i]
                 \/ request' = [request EXCEPT ![r].call = "insert", ![r].at = i]
          PROVE  StagedInv'
      <3>1. \/ request'[r] = [q EXCEPT !.todo = @ \ {i}] /\ q.call \notin {"insert", "mark"}
            \/ request'[r] = [q EXCEPT !.call = "mark", !.at = i]
            \/ request'[r] = [q EXCEPT !.call = "insert", !.at = i]
        BY <2>d DEF TypeOK
      <3>2. request' = [request EXCEPT ![r] = request'[r]]
        BY <2>d DEF TypeOK
      <3>3. request'[r].todo \subseteq q.todo
              /\ (request'[r].call \in {"insert", "mark"} => request'[r].at = i)
        BY <2>1, <3>1 DEF Pending
      <3> QED  BY <1>2, <1>4, <2>1, <2>d, <3>2, <3>3
    <2>5. CASE LookUpRow(r)
      BY <2>5, <2>d DEF LookUpRow, At
    <2>e. CASE Goto(r, "mark") /\ At(r, "insert")
      <3>1. request'[r] = [q EXCEPT !.call = "mark"] /\ request' = [request EXCEPT ![r] = request'[r]]
        BY <2>e DEF Goto, TypeOK
      <3>2. request'[r].todo = q.todo /\ request'[r].at = q.at
        BY <2>1, <3>1 DEF Pending
      <3>3. q.at \in Staged
        BY <2>e DEF At, StagedInv, HandledAreStaged
      <3> QED  BY <1>2, <1>4, <2>1, <3>1, <3>2, <3>3
    <2>f. CASE request' = [request EXCEPT ![r].call = "lookUp", ![r].todo = @ \ {q.at}]
      <3>1. request'[r] = [q EXCEPT !.call = "lookUp", !.todo = @ \ {q.at}]
              /\ request' = [request EXCEPT ![r] = request'[r]]
        BY <2>f DEF TypeOK
      <3>2. request'[r].todo \subseteq q.todo /\ request'[r].call = "lookUp"
        BY <2>1, <3>1 DEF Pending
      <3> QED  BY <1>2, <1>4, <2>1, <3>1, <3>2
    <2>6. CASE InsertRow(r) \/ FailRow(r) \/ MarkRow(r)
      BY <2>6, <2>d, <2>e, <2>f DEF InsertRow, FailRow, MarkRow
    <2>7. CASE LoadFinal(r) \/ FinalizeBatch(r) \/ LoadReconciled(r)
      BY <2>7, <2>c DEF LoadFinal, FinalizeBatch, LoadReconciled, Blank
    <2>8. CASE ReloadErrors(r)
      <3>1. CASE Answer(r)
        BY <1>5, <3>1
      <3>2. CASE ~Answer(r)
        BY <2>2, <2>8, <2>c, <3>2 DEF ReloadErrors, Blank
      <3> QED  BY <3>1, <3>2
    <2>9. CASE ReconcileRow(r)
      <3>1. PICK i, status :
              \/ request' = [request EXCEPT ![r].todo = @ \ {i}]
              \/ request' = [request EXCEPT ![r].todo = @ \ {i}, ![r].found = @ \union {status}]
        BY <2>9 DEF ReconcileRow
      <3>2. /\ \/ request'[r] = [q EXCEPT !.todo = @ \ {i}]
               \/ request'[r] = [q EXCEPT !.todo = @ \ {i}, !.found = @ \union {status}]
            /\ request' = [request EXCEPT ![r] = request'[r]]
        BY <3>1 DEF TypeOK
      <3>3. request'[r].todo \subseteq q.todo /\ request'[r].call = q.call
        BY <2>1, <3>2 DEF Pending
      <3> QED  BY <1>2, <1>4, <2>1, <2>9, <3>2, <3>3 DEF At, ReconcileRow
    <2> QED
      BY <1>5, <1>10, <2>3, <2>4, <2>5, <2>6, <2>7, <2>8, <2>9
      DEF Import, NothingReconciled, SettleBatch
  <1>11. ASSUME NEW r \in Requests, Crash(r) PROVE StagedInv'
    BY <1>5, <1>11 DEF Crash
  <1>12. ASSUME NEW c \in Companies, AdminImport(c) \/ Suppress(c) PROVE StagedInv'
    BY <1>3, <1>12 DEF AdminImport, Suppress
  <1>13. CASE UNCHANGED vars
    BY <1>3, <1>13 DEF vars
  <1> QED  BY <1>8, <1>9, <1>10, <1>11, <1>12, <1>13 DEF Next

\* TypeOK and StagedInv hold at the start.
LEMMA ImportStarts == Init => TypeOK /\ StagedInv
  <1> SUFFICES ASSUME Init PROVE TypeOK /\ StagedInv
    OBVIOUS
  <1>1. [status |-> "ABSENT", company |-> NoCompany, created |-> FALSE] \in Entry
    BY DEF Entry, RowStatuses
  <1>2. row \in [Rows -> Entry] /\ Staged = {}
    BY <1>1 DEF Init, Staged
  <1>3. request \in [Requests -> Pending \union {Idle}]
    BY DEF Init
  <1>4. TypeOK
    <2>1. crashes \in 0..MaxCrashes
      BY ImportConstants DEF Init
    <2>2. /\ batch \in BatchStatuses
          /\ manifest \in Manifests \union {NoManifest}
          /\ provenance \in Sources \union {NoSource}
          /\ leads \subseteq Companies /\ suppressed \subseteq Companies
          /\ valid \subseteq Rows /\ imported \subseteq Rows /\ overlapped \in BOOLEAN
      BY DEF Init, BatchStatuses
    <2> QED  BY <1>2, <1>3, <2>1, <2>2 DEF TypeOK, Entry
  <1>5. StagedInv
    BY <1>2 DEF Init, StagedInv, StagedHaveContent, HandledAreStaged, At, Idle
  <1> QED  BY <1>4, <1>5

LEMMA RowsAreStaged == Spec => [](TypeOK /\ StagedInv)
  <1>1. TypeOK /\ StagedInv /\ [Next]_vars => (TypeOK /\ StagedInv)'
    BY NextType, StagedStepwise
  <1> QED  BY <1>1, ImportStarts, PTL DEF Spec

\* The variables have their types in every reachable state.
THEOREM ImportTypeCorrect == Spec => []TypeOK
  BY RowsAreStaged, PTL

-----------------------------------------------------------------------------
(* What a request may be told, and what a submission leaves behind *)

\* A step of the requests: each serves one of them, and leaves the others alone.
Serve(r) == Create(r) \/ Upload(r) \/ Preview(r) \/ ReadSubmit(r) \/ Import(r) \/ Crash(r)

LEMMA OthersAreLeft ==
  ASSUME TypeOK, NEW r \in Requests, Serve(r), NEW p \in Requests, p # r
  PROVE  request'[p] = request[p]
  <1>1. CASE Create(r) \/ Upload(r)
    BY <1>1
    DEF Create, ReadCreate, CreateBatch, Upload, ReadUpload, StageRow, RetryUpload, FinishUpload,
        ReadProvenance, RecordProvenance, Start, Goto, Answer, data, TypeOK
  <1>2. CASE Preview(r) \/ ReadSubmit(r) \/ Crash(r)
    BY <1>2
    DEF Preview, ReadPreview, PreviewRow, FinishPreview, ReadSubmit, Crash, Start, Answer, TypeOK
  <1>3. CASE Import(r)
    BY <1>3
    DEF Import, ApproveBatch, LoadApproved, LookUpRow, InsertRow, FailRow, MarkRow,
        LoadFinal, FinalizeBatch,
        ReloadErrors, ReconcileRow, NothingReconciled, LoadReconciled, SettleBatch, Goto, Continue,
        Answer, TypeOK
  <1> QED  BY <1>1, <1>2, <1>3 DEF Serve

\* The calls of a submission before it has written what became of the batch.
Running(r) == request[r].call \in {"load", "lookUp", "insert", "mark", "finalize"}

\* A submission keeps running until it has finalised the batch or it dies.
LEMMA RunsToTheEnd ==
  ASSUME TypeOK, NEW p \in Requests, Running(p), [Next]_vars, crashes' = 0
  PROVE  Running(p)' \/ batch' # "SUBMITTED"
  <1>1. ASSUME NEW r \in Requests, Serve(r) PROVE Running(p)' \/ batch' # "SUBMITTED"
    <2>1. CASE p # r
      BY <1>1, <2>1, OthersAreLeft DEF Running
    <2>2. CASE p = r
      <3>1. request[p] # Idle /\ request[p] \in Pending
        BY PendingType DEF Running, Idle, Calls
      <3>2. ~Create(r) /\ ~Upload(r) /\ ~Preview(r) /\ ~ReadSubmit(r)
        BY <2>2, <3>1
        DEF Running, Create, ReadCreate, CreateBatch, Upload, ReadUpload, StageRow, RetryUpload,
            FinishUpload, ReadProvenance, RecordProvenance, Preview, ReadPreview, PreviewRow,
            FinishPreview, ReadSubmit, Start, At
      <3>3. ~Crash(r)
        BY <1>1 DEF Crash, TypeOK
      <3>4. CASE FinalizeBatch(r)
        BY <3>4 DEF FinalizeBatch, Final
      <3>5. CASE \/ LoadApproved(r) \/ LookUpRow(r) \/ InsertRow(r) \/ FailRow(r) \/ MarkRow(r)
                 \/ LoadFinal(r)
        <4>1. CASE LoadApproved(r) \/ LoadFinal(r)
          BY <2>2, <4>1 DEF LoadApproved, LoadFinal, Continue, Blank, Running, TypeOK
        <4>2. CASE LookUpRow(r)
          BY <2>2, <3>1, <4>2 DEF LookUpRow, At, Running, Pending, TypeOK
        <4>3. CASE InsertRow(r)
          BY <2>2, <3>1, <4>3 DEF InsertRow, Goto, Running, Pending, TypeOK
        <4>4. CASE FailRow(r)
          BY <2>2, <3>1, <4>4 DEF FailRow, Goto, Running, Pending, TypeOK
        <4>5. CASE MarkRow(r)
          BY <2>2, <3>1, <4>5 DEF MarkRow, Running, Pending, TypeOK
        <4> QED  BY <3>5, <4>1, <4>2, <4>3, <4>4, <4>5
      <3>6. \/ LoadApproved(r) \/ LookUpRow(r) \/ InsertRow(r) \/ FailRow(r) \/ MarkRow(r)
            \/ LoadFinal(r) \/ FinalizeBatch(r)
        BY <1>1, <2>2, <3>2, <3>3
        DEF Serve, Import, ApproveBatch, ReloadErrors, ReconcileRow, NothingReconciled,
            LoadReconciled, SettleBatch,
            Running, At
      <3> QED  BY <3>4, <3>5, <3>6
    <2> QED  BY <2>1, <2>2
  <1>2. ASSUME request' = request PROVE Running(p)'
    BY <1>2 DEF Running
  <1> QED  BY <1>1, <1>2 DEF Next, Serve, AdminImport, Suppress, vars

\* A batch becomes SUBMITTED only by a submission, which then runs.
LEMMA SubmittedByRunning ==
  ASSUME TypeOK, [Next]_vars, batch' = "SUBMITTED"
  PROVE  batch = "SUBMITTED" \/ \E r \in Requests : Running(r)'
  <1>1. ASSUME NEW r \in Requests, ApproveBatch(r) PROVE Running(r)'
    <2>1. request[r] \in Pending
      BY <1>1, PendingType DEF ApproveBatch, At, Calls
    <2> QED  BY <1>1, <2>1 DEF ApproveBatch, Goto, Running, Pending, TypeOK
  <1>2. ASSUME NEW r \in Requests, Serve(r), ~ApproveBatch(r) PROVE batch = "SUBMITTED"
    <2>1. /\ \A found : Recommended(found) # "SUBMITTED"
          /\ \A found : Final(found) # "SUBMITTED"
      BY DEF Recommended, Final
    <2>2. ~Create(r)
            => batch' = batch \/ FinishUpload(r) \/ FinishPreview(r) \/ FinalizeBatch(r) \/ SettleBatch(r)
      BY <1>2
      DEF Serve, Upload, ReadUpload, StageRow, RetryUpload, ReadProvenance, RecordProvenance,
          Preview, ReadPreview, PreviewRow, ReadSubmit, Import, LoadApproved, LookUpRow,
          InsertRow, FailRow, MarkRow,
          LoadFinal, ReloadErrors, ReconcileRow, NothingReconciled, LoadReconciled, Crash, data
    <2>3. CASE Create(r)
      BY <2>3 DEF Create, ReadCreate, CreateBatch, data
    <2> QED
      BY <2>1, <2>2, <2>3 DEF FinishUpload, FinishPreview, FinalizeBatch, SettleBatch
  <1> QED  BY <1>1, <1>2 DEF Next, Serve, AdminImport, Suppress, vars, data

\* Unless a function dies, a batch is SUBMITTED only while a submission of it
\* runs, with any number of them at the same time.
THEOREM SubmissionsEnd == Spec => []SubmittedIsRunning
  <1>1. Init => SubmittedIsRunning
    BY DEF Init, SubmittedIsRunning
  <1>2. ASSUME TypeOK, TypeOK', SubmittedIsRunning, [Next]_vars PROVE SubmittedIsRunning'
    <2> SUFFICES ASSUME batch' = "SUBMITTED", crashes' = 0 PROVE \E r \in Requests : Running(r)'
      BY DEF SubmittedIsRunning, Running
    <2>1. crashes = 0
      <3>1. crashes' = crashes \/ crashes' = crashes + 1
        BY <1>2
        DEF Next, Create, ReadCreate, CreateBatch, Upload, ReadUpload, StageRow, RetryUpload,
            FinishUpload, ReadProvenance, RecordProvenance, Preview, ReadPreview, PreviewRow,
            FinishPreview, ReadSubmit, Import, ApproveBatch, LoadApproved, LookUpRow, InsertRow, FailRow, MarkRow,
            LoadFinal, FinalizeBatch, ReloadErrors, ReconcileRow, NothingReconciled,
            LoadReconciled, SettleBatch,
            Crash, AdminImport, Suppress, history, vars
      <3> QED  BY <1>2, <3>1, ImportConstants DEF TypeOK
    <2>2. CASE batch # "SUBMITTED"
      BY <1>2, <2>2, SubmittedByRunning
    <2>3. CASE batch = "SUBMITTED"
      <3>1. PICK r \in Requests : Running(r)
        BY <1>2, <2>1, <2>3 DEF SubmittedIsRunning, Running
      <3> QED  BY <1>2, <3>1, RunsToTheEnd
    <2> QED  BY <2>2, <2>3
  <1> QED  BY <1>1, <1>2, ImportTypeCorrect, PTL DEF Spec

-----------------------------------------------------------------------------
(* Leads come from valid rows *)

Found == {"VALID", "APPROVED"}

Importing(q) == q.call \in {"lookUp", "insert", "mark"}

\* The rows that may still become Leads: those that wait for it, those that a
\* submission has read, and the one that it has looked up, are rows that a
\* preview found valid.
ValidInv ==
  /\ \A i \in Rows : row[i].status \in Found => i \in valid
  /\ \A r \in Requests : /\ Importing(request[r]) => request[r].todo \subseteq valid
                         /\ At(r, "insert") => request[r].at \in valid
  /\ imported \subseteq valid

\* A row waits for its Lead only if it did before, or a preview found it valid.
LEMMA FoundByPreview ==
  ASSUME TypeOK, [Next]_vars, NEW i \in Rows, row'[i].status \in Found
  PROVE  row[i].status \in Found \/ i \in valid'
  <1>1. CASE row' = row
    BY <1>1
  <1>2. ASSUME NEW r \in Requests, StageRow(r) PROVE row[i].status \in Found \/ i \in valid'
    BY <1>2 DEF StageRow, TypeOK, Found
  <1>3. ASSUME NEW r \in Requests, PreviewRow(r) PROVE row[i].status \in Found \/ i \in valid'
    <2>1. PICK k \in request[r].todo :
            LET status == PreviewStatus(k, request[r].handled) IN
            /\ row' = [row EXCEPT ![k].status = status, ![k].created = FALSE]
            /\ valid' = IF status = "VALID" THEN valid \union {k} ELSE valid
      BY <1>3 DEF PreviewRow
    <2>2. CASE i # k
      BY <2>1, <2>2 DEF TypeOK
    <2>3. CASE i = k
      <3> DEFINE status == PreviewStatus(k, request[r].handled)
      <3>1. row[i] \in Entry
        BY RowSets
      <3>2. row'[i] = [row[i] EXCEPT !.status = status, !.created = FALSE]
        BY <2>1, <2>3 DEF TypeOK
      <3>3. status \notin Found \/ status = "VALID"
        BY DEF PreviewStatus, Found
      <3> HIDE DEF status
      <3>4. row'[i].status = status
        BY <3>1, <3>2 DEF Entry
      <3>5. status = "VALID"
        BY <3>3, <3>4
      <3> QED  BY <2>1, <2>3, <3>5 DEF status
    <2> QED  BY <2>2, <2>3
  <1>4. ASSUME NEW r \in Requests, ApproveBatch(r) PROVE row[i].status \in Found
    BY <1>4 DEF ApproveBatch, Promotable, Found
  <1>5. ASSUME NEW r \in Requests, LookUpRow(r) \/ InsertRow(r) \/ MarkRow(r)
        PROVE  row[i].status \in Found
    <2>1. PICK k : row' = row \/ \E status \in {"POSSIBLE_EXISTING_DUPLICATE", "IMPORT_ERROR"} :
                                    row' = [row EXCEPT ![k].status = status]
                              \/ row' = [row EXCEPT ![k].status = "IMPORTED", ![k].created = TRUE]
      BY <1>5 DEF LookUpRow, InsertRow, MarkRow, Failed
    <2>2. row[i] \in Entry
      BY RowSets
    <2> QED  BY <2>1, <2>2 DEF TypeOK, Entry, Found
  <1>6. ASSUME NEW r \in Requests, ReconcileRow(r) PROVE row[i].status \in Found
    <2>1. PICK k \in request[r].todo :
            row' = [row EXCEPT ![k] = Reconciled(@, k \in request[r].handled)] \/ row' = row
      BY <1>6 DEF ReconcileRow
    <2>2. row[i] \in Entry
      BY RowSets
    <2>3. \A h : Reconciled(row[i], h).status \in Found => row[i].status \in Found
      BY <2>2 DEF Reconciled, Entry, Found
    <2> QED  BY <2>1, <2>3 DEF TypeOK
  <1>7. ASSUME NEW r \in Requests, Serve(r)
        PROVE  \/ row' = row
               \/ StageRow(r) \/ PreviewRow(r) \/ ApproveBatch(r) \/ LookUpRow(r) \/ InsertRow(r)
               \/ MarkRow(r) \/ ReconcileRow(r)
    BY <1>7
    DEF Serve, Create, CreateBatch, ReadCreate, Upload, ReadUpload, RetryUpload, FinishUpload,
        ReadProvenance, RecordProvenance, Preview, ReadPreview, FinishPreview, ReadSubmit,
        Import, LoadApproved, FailRow, LoadFinal, FinalizeBatch, ReloadErrors, NothingReconciled,
        LoadReconciled,
        SettleBatch, Crash, data
  <1>8. row' = row \/ \E r \in Requests : Serve(r)
    BY DEF Next, Serve, AdminImport, Suppress, vars, data
  <1> QED  BY <1>1, <1>2, <1>3, <1>4, <1>5, <1>6, <1>7, <1>8

\* The history of the previews only grows.
LEMMA ValidGrows ==
  ASSUME [Next]_vars
  PROVE  valid \subseteq valid'
  <1>1. ASSUME NEW r \in Requests, PreviewRow(r) PROVE valid \subseteq valid'
    BY <1>1 DEF PreviewRow
  <1>2. valid' = valid \/ \E r \in Requests : PreviewRow(r)
    BY DEF Next, Create, ReadCreate, CreateBatch, Upload, ReadUpload, StageRow, RetryUpload,
           FinishUpload, ReadProvenance, RecordProvenance, Preview, ReadPreview,
           FinishPreview, ReadSubmit, Import, ApproveBatch, LoadApproved, LookUpRow, InsertRow, FailRow, MarkRow,
           LoadFinal, FinalizeBatch, ReloadErrors, ReconcileRow, NothingReconciled,
           LoadReconciled, SettleBatch,
           Crash, AdminImport, Suppress, history, vars
  <1> QED  BY <1>1, <1>2

\* A submission handles rows that a preview found valid.
LEMMA SubmitsValidRows ==
  ASSUME TypeOK, ValidInv, [Next]_vars, NEW p \in Requests, Importing(request[p])'
  PROVE  request'[p].todo \subseteq valid /\ (At(p, "insert")' => request'[p].at \in valid)
  <1> DEFINE Good == request'[p].todo \subseteq valid /\ (At(p, "insert")' => request'[p].at \in valid)
  <1>1. CASE request'[p] = request[p]
    BY <1>1 DEF ValidInv, Importing, At
  <1>2. ASSUME NEW r \in Requests, Serve(r), p = r PROVE Good
    <2>1. CASE request'[p] = Idle
      BY <2>1 DEF Importing, Idle
    <2>2. CASE Create(r) \/ Upload(r) \/ Preview(r) \/ ReadSubmit(r) \/ Crash(r)
      <3>1. CASE Create(r) \/ Crash(r)
        BY <1>2, <2>1, <3>1
        DEF Create, ReadCreate, CreateBatch, Crash, Start, Answer, Importing, Blank, TypeOK
      <3>2. CASE Upload(r)
        <4>1. ASSUME NEW i \in Rows, NEW c \in Companies, ReadUpload(r, i, c) PROVE FALSE
          <5>1. request'[r].call \in {"receive", "stage"}
            BY <4>1 DEF ReadUpload, Start, Blank, TypeOK
          <5> QED  BY <1>2, <5>1 DEF Importing
        <4>2. ASSUME NEW s \in Sources, ReadProvenance(r, s) PROVE FALSE
          BY <1>2, <4>2 DEF ReadProvenance, Start, Blank, TypeOK, Importing
        <4>3. CASE StageRow(r) \/ RetryUpload(r)
          <5>1. request[r] \in Pending
            BY <4>3, PendingType DEF StageRow, RetryUpload, At, Calls
          <5>2. request'[r] = Idle \/ request'[r].call = "receive"
            BY <4>3, <5>1 DEF StageRow, RetryUpload, Goto, Answer, Pending, TypeOK
          <5> QED  BY <1>2, <5>2 DEF Importing, Idle
        <4> QED
          BY <1>2, <2>1, <3>2, <4>1, <4>2, <4>3
          DEF Upload, FinishUpload, RecordProvenance, Answer, TypeOK
      <3>3. CASE Preview(r) \/ ReadSubmit(r)
        <4>1. CASE ReadPreview(r) \/ ReadSubmit(r)
          <5>1. request'[r].call \in {"previewRow", "approve"}
            BY <4>1 DEF ReadPreview, ReadSubmit, Start, Blank, TypeOK
          <5> QED  BY <1>2, <5>1 DEF Importing
        <4>2. CASE PreviewRow(r)
          <5>1. request[r] \in Pending
            BY <4>2, PendingType DEF PreviewRow, At, Calls
          <5>2. request'[r].call = "previewRow"
            BY <4>2, <5>1 DEF PreviewRow, At, Pending, TypeOK
          <5> QED  BY <1>2, <5>2 DEF Importing
        <4> QED
          BY <1>2, <2>1, <3>3, <4>1, <4>2 DEF Preview, FinishPreview, Answer, TypeOK
      <3> QED  BY <2>2, <3>1, <3>2, <3>3
    <2>3. CASE Import(r)
      <3>1. request[r] \in Pending
        <4>1. request[r].call \in Calls
          BY <2>3
          DEF Import, ApproveBatch, LoadApproved, LookUpRow, InsertRow, FailRow, MarkRow,
              LoadFinal, FinalizeBatch,
              ReloadErrors, ReconcileRow, NothingReconciled, LoadReconciled, SettleBatch, At, Calls
        <4> QED  BY <4>1, PendingType
      <3>2. CASE LoadApproved(r)
        <4>1. /\ request'[r].todo = WithStatus({"APPROVED"})
              /\ request'[r].call = "lookUp"
          BY <3>2 DEF LoadApproved, Continue, Blank, TypeOK
        <4> QED  BY <1>2, <4>1 DEF WithStatus, ValidInv, Found, At
      <3>3. CASE LookUpRow(r) \/ (FailRow(r) /\ At(r, "lookUp"))
        <4>1. PICK i \in request[r].todo :
                \/ request' = [request EXCEPT ![r].todo = @ \ {i}]
                \/ request' = [request EXCEPT ![r].call = "mark", ![r].at = i]
                \/ request' = [request EXCEPT ![r].call = "insert", ![r].at = i]
          BY <3>3 DEF LookUpRow, FailRow, At
        <4>2. /\ request'[r].todo \subseteq request[r].todo
              /\ request'[r].call = "insert" => request'[r].at = i
          BY <3>1, <3>3, <4>1 DEF LookUpRow, At, Pending, TypeOK
        <4> QED  BY <1>2, <3>3, <4>1, <4>2 DEF LookUpRow, ValidInv, Importing, At
      <3>4. CASE InsertRow(r) \/ MarkRow(r) \/ (FailRow(r) /\ At(r, "insert"))
        <4>1. \/ request' = [request EXCEPT ![r].call = "lookUp", ![r].todo = @ \ {request[r].at}]
              \/ request' = [request EXCEPT ![r].call = "mark"]
          BY <3>4 DEF InsertRow, MarkRow, FailRow, Goto, At
        <4>2. request'[r].todo \subseteq request[r].todo /\ request'[r].call # "insert"
          BY <3>1, <4>1 DEF Pending, TypeOK
        <4> QED  BY <1>2, <3>4, <4>2 DEF InsertRow, MarkRow, ValidInv, Importing, At
      <3>5. CASE ApproveBatch(r)
        BY <1>2, <3>1, <3>5 DEF ApproveBatch, Goto, Importing, Pending, TypeOK
      <3>6. CASE LoadFinal(r) \/ FinalizeBatch(r) \/ LoadReconciled(r)
        <4>1. request'[r].call \in {"finalize", "reload", "settle"}
          BY <3>6, ContinuesAs DEF LoadFinal, FinalizeBatch, LoadReconciled, Blank
        <4> QED  BY <1>2, <4>1 DEF Importing
      <3>7. CASE ReloadErrors(r)
        <4>1. CASE Answer(r)
          BY <1>2, <2>1, <4>1 DEF Answer, TypeOK
        <4>2. CASE ~Answer(r)
          <5>1. request'[r].call = "reconcile"
            BY <3>7, <4>2, ContinuesAs DEF ReloadErrors, Blank
          <5> QED  BY <1>2, <5>1 DEF Importing
        <4> QED  BY <4>1, <4>2
      <3>8. CASE NothingReconciled(r) \/ SettleBatch(r)
        BY <1>2, <2>1, <3>8 DEF NothingReconciled, SettleBatch, Answer, TypeOK
      <3>9. CASE ReconcileRow(r)
        <4>1. request'[r].call = "reconcile"
          BY <3>1, <3>9 DEF ReconcileRow, At, Pending, TypeOK
        <4> QED  BY <1>2, <4>1 DEF Importing
      <3> QED
        BY <2>3, <3>2, <3>3, <3>4, <3>5, <3>6, <3>7, <3>8, <3>9 DEF Import, FailRow
    <2> QED  BY <1>2, <2>2, <2>3 DEF Serve
  <1>3. ASSUME NEW r \in Requests, Serve(r), p # r PROVE Good
    BY <1>1, <1>3, OthersAreLeft
  <1>4. request' = request \/ \E r \in Requests : Serve(r)
    BY DEF Next, Serve, AdminImport, Suppress, vars
  <1> QED  BY <1>1, <1>2, <1>3, <1>4

\* A Lead is created only from a row that some preview found valid, with any
\* number of uploads, previews and submissions at the same time.
THEOREM OnlyValidRowsBecomeLeads == Spec => []LeadsComeFromValidRows
  <1>1. Init => ValidInv
    BY DEF Init, ValidInv, Found, Importing, At, Idle
  <1>2. ASSUME TypeOK, ValidInv, [Next]_vars PROVE ValidInv'
    <2>1. valid \subseteq valid'
      BY <1>2, ValidGrows
    <2>2. \A i \in Rows : row'[i].status \in Found => i \in valid'
      BY <1>2, <2>1, FoundByPreview DEF ValidInv
    <2>3. \A r \in Requests :
             /\ Importing(request[r])' => request'[r].todo \subseteq valid'
             /\ At(r, "insert")' => request'[r].at \in valid'
      BY <1>2, <2>1, SubmitsValidRows DEF Importing, At
    <2>4. imported' \subseteq valid
      <3>1. ASSUME NEW r \in Requests, InsertRow(r) PROVE imported' \subseteq valid
        BY <1>2, <3>1 DEF InsertRow, ValidInv
      <3>2. imported' = imported \/ \E r \in Requests : InsertRow(r)
        BY <1>2
        DEF Next, Create, ReadCreate, CreateBatch, Upload, ReadUpload, StageRow, RetryUpload,
            FinishUpload, ReadProvenance, RecordProvenance, Preview, ReadPreview, PreviewRow,
            FinishPreview, ReadSubmit, Import, ApproveBatch, LoadApproved, LookUpRow, FailRow,
            MarkRow, LoadFinal, FinalizeBatch, ReloadErrors, ReconcileRow, NothingReconciled,
            LoadReconciled, SettleBatch,
            Crash, AdminImport, Suppress, history, vars
      <3> QED  BY <1>2, <3>1, <3>2 DEF ValidInv
    <2> QED  BY <2>1, <2>2, <2>3, <2>4 DEF ValidInv, Importing, At
  <1>3. ValidInv => LeadsComeFromValidRows
    BY DEF ValidInv, LeadsComeFromValidRows
  <1> QED  BY <1>1, <1>2, <1>3, ImportTypeCorrect, PTL DEF Spec

-----------------------------------------------------------------------------
(* What a client is told is stored *)

\* A row that a request answers for is staged with the request's content; the
\* content of a staged row does not change.
AcceptedInv ==
  \A r \in Requests :
    At(r, "receive") => /\ request[r].at \in Staged
                        /\ row[request[r].at].company = request[r].company

\* A request reaches its answer by reading the row or by storing it.
LEMMA AcceptedHere ==
  ASSUME TypeOK, StagedInv, NEW r \in Requests, Serve(r), At(r, "receive")', ~At(r, "receive")
  PROVE  /\ request'[r].at \in Staged'
         /\ row'[request'[r].at].company = request'[r].company
  <1>1. Idle.call # "receive"
    BY DEF Idle
  <1>2. ASSUME NEW i \in Rows, NEW c \in Companies, ReadUpload(r, i, c)
        PROVE  /\ request'[r].at \in Staged'
               /\ row'[request'[r].at].company = request'[r].company
    <2> DEFINE q == [Blank EXCEPT !.seen = batch, !.at = i, !.company = c,
                                  !.call = IF i \in Staged THEN "receive" ELSE "stage"]
    <2>1. request'[r] = q
      BY <1>2 DEF ReadUpload, Start, TypeOK
    <2>2. q.at = i /\ q.company = c /\ (q.call = "receive" => i \in Staged)
      BY DEF Blank
    <2> HIDE DEF q
    <2>3. i \in Staged
      BY <2>1, <2>2 DEF At
    <2>4. row[i].company = c
      BY <1>2, <2>3, ImportConstants DEF ReadUpload, MayReplay, StagedInv, StagedHaveContent
    <2>5. row' = row
      BY <1>2 DEF ReadUpload, data
    <2> QED  BY <2>1, <2>2, <2>3, <2>4, <2>5 DEF Staged
  <1>3. CASE StageRow(r)
    <2>1. request[r] \in Pending
      BY <1>3, PendingType DEF StageRow, At, Calls
    <2>2. request'[r].at = request[r].at /\ request'[r].company = request[r].company
      BY <1>3, <2>1 DEF StageRow, Goto, Pending, TypeOK
    <2>3. row'[request[r].at] =
            [status |-> "RECEIVED", company |-> request[r].company, created |-> FALSE]
      BY <1>3, <2>1 DEF StageRow, Pending, TypeOK
    <2> QED  BY <2>1, <2>2, <2>3 DEF Staged, Pending
  <1>4. CASE RetryUpload(r)
    <2>1. request[r] \in Pending
      BY <1>4, PendingType DEF RetryUpload, At, Calls
    <2>2. request' # [request EXCEPT ![r] = Idle]
      BY <1>1 DEF At, TypeOK
    <2>3. /\ request' = [request EXCEPT ![r].call = "receive", ![r].seen = batch]
          /\ MayReplay(request[r].at, request[r].company)
      BY <1>4, <2>2 DEF RetryUpload, Answer
    <2>4. request'[r].at = request[r].at /\ request'[r].company = request[r].company
      BY <2>1, <2>3 DEF Pending, TypeOK
    <2>5. request[r].at \in Staged /\ row' = row
      BY <1>4 DEF RetryUpload, data
    <2>6. row[request[r].at].company = request[r].company
      BY <2>3, <2>5, ImportConstants DEF MayReplay, StagedInv, StagedHaveContent
    <2> QED  BY <2>4, <2>5, <2>6 DEF Staged
  <1>5. CASE Create(r) \/ FinishUpload(r) \/ RecordProvenance(r) \/ Crash(r)
    BY <1>1, <1>5
    DEF Create, ReadCreate, CreateBatch, FinishUpload, RecordProvenance, Crash, Start, Answer,
        Blank, At, TypeOK
  <1>6. ASSUME NEW s \in Sources, ReadProvenance(r, s) PROVE FALSE
    BY <1>6 DEF ReadProvenance, Start, Blank, At, TypeOK
  <1>7. CASE Preview(r) \/ ReadSubmit(r)
    <2>1. CASE ReadPreview(r)
      BY <2>1 DEF ReadPreview, Start, Blank, TypeOK, At
    <2>2. CASE ReadSubmit(r)
      BY <2>2 DEF ReadSubmit, Start, Blank, TypeOK, At
    <2>3. CASE PreviewRow(r)
      <3>1. request[r] \in Pending
        BY <2>3, PendingType DEF PreviewRow, At, Calls
      <3> QED  BY <2>3, <3>1 DEF PreviewRow, At, Pending, TypeOK
    <2>4. CASE FinishPreview(r)
      BY <1>1, <2>4 DEF FinishPreview, Answer, At, TypeOK
    <2> QED  BY <1>7, <2>1, <2>2, <2>3, <2>4 DEF Preview
  <1>8. CASE Import(r)
    <2>1. request[r].call \in Calls
      BY <1>8
      DEF Import, ApproveBatch, LoadApproved, LookUpRow, InsertRow, FailRow, MarkRow,
          LoadFinal, FinalizeBatch,
          ReloadErrors, ReconcileRow, NothingReconciled, LoadReconciled, SettleBatch, At, Calls
    <2>2. request[r] \in Pending
      BY <2>1, PendingType
    <2>3. CASE ApproveBatch(r)
      BY <2>2, <2>3 DEF ApproveBatch, Goto, At, Pending, TypeOK
    <2>4. CASE LoadApproved(r) \/ LoadFinal(r) \/ FinalizeBatch(r) \/ LoadReconciled(r)
      <3>1. request'[r].call \in {"lookUp", "finalize", "reload", "settle"}
        BY <2>4, ContinuesAs DEF LoadApproved, LoadFinal, FinalizeBatch, LoadReconciled, Blank
      <3> QED  BY <3>1 DEF At
    <2>5. CASE LookUpRow(r)
      BY <2>2, <2>5 DEF LookUpRow, At, Pending, TypeOK
    <2>6. CASE InsertRow(r) \/ FailRow(r) \/ MarkRow(r)
      BY <2>2, <2>6 DEF InsertRow, FailRow, MarkRow, Goto, At, Pending, TypeOK
    <2>7. CASE ReconcileRow(r)
      BY <2>2, <2>7 DEF ReconcileRow, At, Pending, TypeOK
    <2>8. CASE NothingReconciled(r) \/ SettleBatch(r)
      BY <1>1, <2>8 DEF NothingReconciled, SettleBatch, Answer, At, TypeOK
    <2>9. CASE ReloadErrors(r)
      <3>1. ~Answer(r)
        BY <1>1 DEF Answer, At, TypeOK
      <3> QED  BY <2>9, <3>1 DEF ReloadErrors, Continue, Blank, At, TypeOK
    <2> QED  BY <1>8, <2>3, <2>4, <2>5, <2>6, <2>7, <2>8, <2>9 DEF Import
  <1> QED
    BY <1>2, <1>3, <1>4, <1>5, <1>6, <1>7, <1>8 DEF Serve, Upload

\* A request that is about to say so holds its content until it has.
LEMMA AnswersAsRead ==
  ASSUME TypeOK, NEW r \in Requests, Serve(r), At(r, "receive"), At(r, "receive")'
  PROVE  request'[r] = request[r]
  <1>1. request[r] # Idle /\ Idle.call # "receive"
    BY DEF At, Idle
  <1>2. CASE Create(r) \/ Upload(r) \/ Crash(r)
    BY <1>1, <1>2
    DEF Create, ReadCreate, CreateBatch, Upload, ReadUpload, StageRow, RetryUpload, FinishUpload,
        ReadProvenance, RecordProvenance, Crash, Start, Answer, At, TypeOK
  <1>3. CASE Preview(r) \/ ReadSubmit(r)
    BY <1>1, <1>3
    DEF Preview, ReadPreview, PreviewRow, FinishPreview, ReadSubmit, Start, Answer, At, TypeOK
  <1>4. ~Import(r)
    BY DEF Import, ApproveBatch, LoadApproved, LookUpRow, InsertRow, FailRow, MarkRow,
           LoadFinal, FinalizeBatch,
           ReloadErrors, ReconcileRow, NothingReconciled, LoadReconciled, SettleBatch, At
  <1> QED  BY <1>2, <1>3, <1>4 DEF Serve

\* Repeated and racing uploads of a row only agree: whoever is told that the
\* row is stored sent the content that is stored.
THEOREM UploadsAgree == Spec => []AcceptedIsStored
  <1>1. Init => AcceptedInv
    BY DEF Init, AcceptedInv, At, Idle
  <1>2. ASSUME TypeOK, StagedInv, AcceptedInv, [Next]_vars PROVE AcceptedInv'
    <2> SUFFICES ASSUME NEW p \in Requests, At(p, "receive")'
                 PROVE  /\ request'[p].at \in Staged'
                        /\ row'[request'[p].at].company = request'[p].company
      BY DEF AcceptedInv
    <2>1. CASE request'[p] = request[p]
      <3>1. request[p].at \in Staged /\ row[request[p].at].company = request[p].company
        BY <1>2, <2>1 DEF AcceptedInv, At
      <3>2. RowsEvolve
        BY <1>2, RowsStepwise
      <3> QED  BY <2>1, <3>1, <3>2 DEF RowsEvolve, Staged
    <2>2. ASSUME NEW r \in Requests, Serve(r), p # r PROVE request'[p] = request[p]
      BY <1>2, <2>2, OthersAreLeft
    <2>3. ASSUME Serve(p), At(p, "receive") PROVE request'[p] = request[p]
      BY <1>2, <2>3, AnswersAsRead
    <2>4. CASE Serve(p) /\ ~At(p, "receive")
      BY <1>2, <2>4, AcceptedHere
    <2>5. request' = request \/ \E r \in Requests : Serve(r)
      BY <1>2 DEF Next, Serve, AdminImport, Suppress, vars
    <2> QED  BY <2>1, <2>2, <2>3, <2>4, <2>5
  <1>3. AcceptedInv => AcceptedIsStored
    BY DEF AcceptedInv, AcceptedIsStored
  <1> QED  BY <1>1, <1>2, <1>3, RowsAreStaged, PTL DEF Spec

-----------------------------------------------------------------------------
(* A client that does one thing at a time *)

StatusesIn(S) == \A i \in Staged : row[i].status \in S

\* The statuses of rows that were previewed, whose import ended well, and whose
\* import ended; the statuses of a batch that was submitted.
Previewed == {"VALID", "DUPLICATE_IN_BATCH", "SUPPRESSED", "POSSIBLE_EXISTING_DUPLICATE"}
Settled == {"IMPORTED", "DUPLICATE_IN_BATCH", "SUPPRESSED"}
Decided == Settled \union {"POSSIBLE_EXISTING_DUPLICATE", "IMPORT_ERROR"}
Ended == {"COMPLETED", "PARTIALLY_ACCEPTED", "RECONCILIATION_REQUIRED"}

\* The status of a batch bounds the statuses of its rows.
BatchFits ==
  /\ batch \in {"ABSENT", "DRAFT", "ROWS_RECEIVED"} => StatusesIn(Previewed \union {"RECEIVED"})
  /\ batch \in Submittable => StatusesIn(Previewed)
  /\ batch = "SUBMITTED" => StatusesIn(Decided \union {"APPROVED"})
  /\ batch \in Ended => StatusesIn(Decided)
  /\ batch = "COMPLETED" => StatusesIn(Settled)

\* A row that created its Lead knows it, and says so unless it is an error that
\* waits, with its batch, for the reconciliation.
Unreconciled(i) == row[i].created /\ row[i].status # "IMPORTED"

Erring == {"SUBMITTED", "RECONCILIATION_REQUIRED"}

CreatedSaysSo ==
  \A i \in Rows : /\ (i \in imported <=> row[i].created)
                  /\ row[i].status = "IMPORTED" => row[i].created
                  /\ Unreconciled(i) => row[i].status = "IMPORT_ERROR" /\ batch \in Erring

\* What a preview, a submission and the reconciliation after it have read is
\* still what is stored.
PreviewFits(q) ==
  /\ batch \in Submittable \union {"ROWS_RECEIVED"}
  /\ Staged \subseteq q.handled \union q.todo
  /\ \A i \in q.handled : row[i].status \in q.found
  /\ q.found \subseteq Previewed

SubmissionFits(q) ==
  /\ batch = "SUBMITTED"
  /\ q.call \in {"lookUp", "insert"} => q.todo = WithStatus({"APPROVED"})
  /\ q.call \in {"insert", "mark"} => q.at \in q.todo
  /\ q.call = "mark" => q.todo \ {q.at} = WithStatus({"APPROVED"}) \ {q.at}
  /\ q.call = "finalize" => q.found = Statuses /\ "APPROVED" \notin q.found

ReconciliationFits(q) ==
  /\ batch \in Ended
  /\ q.call = "reconcile" => /\ q.todo \subseteq WithStatus({"IMPORT_ERROR"})
                             /\ \A i \in q.todo : i \in q.handled <=> row[i].created
  /\ q.call = "settle" => q.found = Statuses

Fits(q) ==
  /\ q.call = "create" => batch = "ABSENT"
  /\ q.call \in {"stage", "receive", "record"} => batch \in {"DRAFT", "ROWS_RECEIVED"}
  /\ q.call = "previewRow" => PreviewFits(q)
  /\ q.call = "approve" => batch \in Submittable
  /\ q.call \in {"load", "lookUp", "insert", "mark", "finalize"} => SubmissionFits(q)
  /\ q.call \in {"reload", "reconcile", "settle"} => ReconciliationFits(q)

DataFits == BatchFits /\ CreatedSaysSo

AllFit == \A r \in Requests : Fits(request[r])

OneAtATime == \A p, r \in Requests : request[p] # Idle /\ request[r] # Idle => p = r

\* A submission will still reconcile the row: it has not read the errors yet, or
\* has read the row as one that has its Lead.
Awaits(q, i) ==
  \/ q.call \in {"load", "lookUp", "insert", "mark", "finalize", "reload"}
  \/ q.call = "reconcile" /\ i \in q.todo \intersect q.handled

AwaitedBy(q) == \A i \in Rows : Unreconciled(i) => Awaits(q, i)

AllAwaited ==
  crashes > 0 \/ \A i \in Rows : Unreconciled(i) => \E r \in Requests : Awaits(request[r], i)

SerialInv ==
  overlapped \/ (OneAtATime /\ DataFits /\ AllFit /\ AllAwaited)

LEMMA IdleFits ==
  ASSUME NEW r \in Requests, request'[r] = Idle
  PROVE  Fits(request[r])'
  BY DEF Fits, Idle

\* The creation and the upload of a batch.
LEMMA UploadFits ==
  ASSUME TypeOK, DataFits, NEW r \in Requests, Fits(request[r]), Create(r) \/ Upload(r)
  PROVE  DataFits' /\ Fits(request[r])'
  <1>1. ASSUME row' = row, imported' = imported, batch' = batch PROVE DataFits'
    BY <1>1 DEF DataFits, BatchFits, CreatedSaysSo, Unreconciled, StatusesIn, Staged
  <1>2. ASSUME NEW m \in Manifests, ReadCreate(r, m) PROVE DataFits' /\ Fits(request[r])'
    <2>1. request'[r].call = "create"
      BY <1>2 DEF ReadCreate, Start, Blank, TypeOK
    <2> QED  BY <1>1, <1>2, <2>1 DEF ReadCreate, data, history, Fits
  <1>3. CASE CreateBatch(r)
    <2>1. request'[r] = Idle
      BY <1>3 DEF CreateBatch, Answer, TypeOK
    <2>2. DataFits'
      BY <1>3
      DEF CreateBatch, DataFits, BatchFits, CreatedSaysSo, Unreconciled, Erring, StatusesIn, Staged,
          Submittable, Ended
    <2> QED  BY <2>1, <2>2, IdleFits
  <1>4. ASSUME NEW i \in Rows, NEW c \in Companies, ReadUpload(r, i, c)
        PROVE  DataFits' /\ Fits(request[r])'
    <2>1. request'[r].call \in {"stage", "receive"}
      BY <1>4 DEF ReadUpload, Start, Blank, TypeOK
    <2> QED  BY <1>1, <1>4, <2>1 DEF ReadUpload, data, history, Fits
  <1>5. CASE StageRow(r)
    <2>1. request[r] \in Pending
      BY <1>5, PendingType DEF StageRow, At, Calls
    <2>2. batch' \in {"DRAFT", "ROWS_RECEIVED"}
      BY <1>5 DEF StageRow, At, Fits
    <2>3. request'[r].call = "receive"
      BY <1>5, <2>1 DEF StageRow, Goto, Pending, TypeOK
    <2> DEFINE at == request[r].at
    <2>4. /\ row'[at].status = "RECEIVED" /\ ~row'[at].created
          /\ \A i \in Rows \ {at} : row'[i] = row[i]
          /\ row[at].status = "ABSENT" /\ batch' = batch /\ imported' = imported
      BY <1>5, <2>1 DEF StageRow, Pending, TypeOK, Staged, history
    <2> HIDE DEF at
    <2>5. BatchFits'
      BY <2>2, <2>4 DEF DataFits, BatchFits, StatusesIn, Staged, Submittable, Ended
    <2>6. CreatedSaysSo'
      BY <2>4 DEF DataFits, CreatedSaysSo, Unreconciled
    <2> QED  BY <2>2, <2>3, <2>5, <2>6 DEF DataFits, Fits
  <1>6. CASE RetryUpload(r)
    <2>1. DataFits'
      BY <1>1, <1>6 DEF RetryUpload, data, history
    <2>2. CASE Answer(r)
      <3>1. request'[r] = Idle
        BY <2>2 DEF Answer, TypeOK
      <3> QED  BY <2>1, <3>1, IdleFits
    <2>3. CASE ~Answer(r)
      <3>1. request[r] \in Pending
        BY <1>6, PendingType DEF RetryUpload, At, Calls
      <3>2. request'[r].call = "receive" /\ batch' \in {"DRAFT", "ROWS_RECEIVED"}
        BY <1>6, <2>3, <3>1 DEF RetryUpload, Pending, TypeOK, data
      <3> QED  BY <2>1, <3>2 DEF Fits
    <2> QED  BY <2>2, <2>3
  <1>7. CASE FinishUpload(r)
    <2>1. request'[r] = Idle
      BY <1>7 DEF FinishUpload, Answer, TypeOK
    <2>2. batch' \in {"DRAFT", "ROWS_RECEIVED"} /\ batch \in {"DRAFT", "ROWS_RECEIVED"}
      BY <1>7 DEF FinishUpload, At, Fits
    <2>3. DataFits'
      BY <1>7, <2>2
      DEF FinishUpload, DataFits, BatchFits, CreatedSaysSo, Unreconciled, Erring, StatusesIn, Staged,
          Submittable, Ended
    <2> QED  BY <2>1, <2>3, IdleFits
  <1>8. ASSUME NEW s \in Sources, ReadProvenance(r, s) PROVE DataFits' /\ Fits(request[r])'
    <2>1. request'[r].call = "record"
      BY <1>8 DEF ReadProvenance, Start, Blank, TypeOK
    <2> QED  BY <1>1, <1>8, <2>1 DEF ReadProvenance, data, history, Fits
  <1>9. CASE RecordProvenance(r)
    <2>1. request'[r] = Idle
      BY <1>9 DEF RecordProvenance, Answer, TypeOK
    <2> QED  BY <1>1, <1>9, <2>1, IdleFits DEF RecordProvenance
  <1> QED
    BY <1>2, <1>3, <1>4, <1>5, <1>6, <1>7, <1>8, <1>9 DEF Create, Upload

\* The preview of a batch, and the beginning of its submission.
LEMMA PreviewKeepsFit ==
  ASSUME TypeOK, StagedInv, DataFits, NEW r \in Requests, Fits(request[r]),
         Preview(r) \/ ReadSubmit(r)
  PROVE  DataFits' /\ Fits(request[r])'
  <1>1. ASSUME row' = row, imported' = imported, batch' = batch PROVE DataFits'
    BY <1>1 DEF DataFits, BatchFits, CreatedSaysSo, Unreconciled, StatusesIn, Staged
  <1>2. CASE ReadPreview(r)
    <2>1. request'[r] = [Blank EXCEPT !.call = "previewRow", !.todo = Staged]
      BY <1>2 DEF ReadPreview, Start, TypeOK
    <2>2. /\ request'[r].call = "previewRow" /\ request'[r].todo = Staged
          /\ request'[r].handled = {} /\ request'[r].found = {}
      BY <2>1 DEF Blank
    <2>3. batch' = batch /\ row' = row /\ imported' = imported
            /\ batch \in Submittable \union {"ROWS_RECEIVED"}
      BY <1>2 DEF ReadPreview, data, history, Submittable
    <2> QED  BY <1>1, <2>2, <2>3 DEF Fits, PreviewFits, Staged
  <1>3. CASE ReadSubmit(r)
    <2>1. request'[r].call = "approve"
      BY <1>3 DEF ReadSubmit, Start, Blank, TypeOK
    <2> QED  BY <1>1, <1>3, <2>1 DEF ReadSubmit, data, history, Fits
  <1>4. CASE PreviewRow(r)
    <2> DEFINE q == request[r]
    <2>1. q \in Pending
      BY <1>4, PendingType DEF PreviewRow, At, Calls
    <2>2. PICK i \in q.todo :
            LET status == PreviewStatus(i, q.handled) IN
            /\ row' = [row EXCEPT ![i].status = status, ![i].created = FALSE]
            /\ request' = [request EXCEPT ![r].todo = @ \ {i}, ![r].found = @ \union {status},
                                           ![r].handled = @ \union {i}]
      BY <1>4 DEF PreviewRow
    <2> DEFINE status == PreviewStatus(i, q.handled)
    <2>3. i \in Rows /\ status \in Previewed
      BY <2>1, <2>2 DEF Pending, PreviewStatus, Previewed
    <2> HIDE DEF status
    <2>4. row[i] \in Entry
      BY <2>3, RowSets
    <2>5. row'[i] = [row[i] EXCEPT !.status = status, !.created = FALSE]
            /\ \A k \in Rows \ {i} : row'[k] = row[k]
      BY <2>2, <2>3 DEF status, TypeOK
    <2>6. row'[i].status = status /\ ~row'[i].created
      BY <2>4, <2>5 DEF Entry
    <2>7. request'[r] = [q EXCEPT !.todo = @ \ {i}, !.found = @ \union {status},
                                  !.handled = @ \union {i}]
      BY <2>2 DEF status, TypeOK
    <2>8. /\ request'[r].call = "previewRow" /\ request'[r].todo = q.todo \ {i}
          /\ request'[r].found = q.found \union {status}
          /\ request'[r].handled = q.handled \union {i}
      BY <1>4, <2>1, <2>7 DEF Pending, PreviewRow, At
    <2>9. batch' = batch /\ imported' = imported /\ PreviewFits(q)
      BY <1>4 DEF PreviewRow, At, Fits
    <2>10. i \in Staged /\ q.handled \subseteq Rows
      BY <1>4, <2>1, <2>2 DEF PreviewRow, At, StagedInv, HandledAreStaged, Idle, Pending
    <2>11. ~row[i].created
      <3>1. row[i].status # "IMPORTED"
        BY <2>9, <2>10
        DEF PreviewFits, DataFits, BatchFits, StatusesIn, Submittable, Previewed
      <3>2. batch \notin Erring
        BY <2>9 DEF PreviewFits, Submittable, Erring
      <3> QED  BY <2>3, <3>1, <3>2 DEF DataFits, CreatedSaysSo, Unreconciled
    <2>12. Staged' = Staged
      BY <2>3, <2>5, <2>6, <2>10 DEF Staged, Previewed
    <2>13. BatchFits'
      BY <2>3, <2>5, <2>6, <2>9, <2>12
      DEF PreviewFits, DataFits, BatchFits, StatusesIn, Submittable, Ended, Staged
    <2>14. CreatedSaysSo'
      <3>1. i \notin imported' /\ row'[i].status # "IMPORTED"
        BY <2>3, <2>6, <2>9, <2>11 DEF DataFits, CreatedSaysSo, Previewed
      <3>2. \A k \in Rows \ {i} : Unreconciled(k)' <=> Unreconciled(k)
        BY <2>5 DEF Unreconciled
      <3>3. ~Unreconciled(i)'
        BY <2>6 DEF Unreconciled
      <3> QED  BY <2>5, <2>6, <2>9, <3>1, <3>2, <3>3 DEF DataFits, CreatedSaysSo
    <2>15. PreviewFits(request[r])'
      <3>1. Staged' \subseteq request'[r].handled \union request'[r].todo
        BY <2>8, <2>9, <2>12 DEF PreviewFits
      <3>2. \A k \in request'[r].handled : row'[k].status \in request'[r].found
        BY <2>5, <2>6, <2>8, <2>9, <2>10 DEF PreviewFits
      <3>3. request'[r].found \subseteq Previewed
        BY <2>3, <2>8, <2>9 DEF PreviewFits
      <3> QED  BY <2>9, <3>1, <3>2, <3>3 DEF PreviewFits
    <2> QED  BY <2>8, <2>13, <2>14, <2>15 DEF DataFits, Fits
  <1>5. CASE FinishPreview(r)
    <2> DEFINE q == request[r]
    <2>1. request'[r] = Idle
      BY <1>5 DEF FinishPreview, Answer, TypeOK
    <2>2. PreviewFits(q) /\ q.todo = {} /\ batch' = Recommended(q.found)
            /\ row' = row /\ imported' = imported
      BY <1>5 DEF FinishPreview, At, Fits, history
    <2>3. StatusesIn(q.found) /\ q.found \subseteq Previewed
      BY <2>2 DEF PreviewFits, StatusesIn
    <2>4. \/ batch' \in Submittable \union {"ROWS_RECEIVED"}
          \/ batch' = "COMPLETED" /\ q.found \subseteq Settled
      BY <2>2, <2>3 DEF Recommended, Previewed, Submittable, Settled
    <2>5. BatchFits'
      BY <2>2, <2>3, <2>4
      DEF BatchFits, StatusesIn, Staged, Submittable, Ended, Settled, Decided
    <2>6. CreatedSaysSo'
      BY <2>2 DEF PreviewFits, DataFits, CreatedSaysSo, Unreconciled, Erring, Submittable
    <2> QED  BY <2>1, <2>5, <2>6, IdleFits DEF DataFits
  <1> QED  BY <1>2, <1>3, <1>4, <1>5 DEF Preview

\* The submission, to the end of its reconciliation.
LEMMA SubmissionKeepsFit ==
  ASSUME TypeOK, StagedInv, DataFits, NEW r \in Requests, Fits(request[r]), Import(r)
  PROVE  DataFits' /\ Fits(request[r])'
  <1> DEFINE q == request[r]
  <1>1. ASSUME row' = row, imported' = imported, batch' = batch PROVE DataFits'
    BY <1>1 DEF DataFits, BatchFits, CreatedSaysSo, Unreconciled, StatusesIn, Staged
  <1>2. q \in Pending
    <2>1. q.call \in Calls
      BY DEF Import, ApproveBatch, LoadApproved, LookUpRow, InsertRow, FailRow, MarkRow,
             LoadFinal, FinalizeBatch,
             ReloadErrors, ReconcileRow, NothingReconciled, LoadReconciled, SettleBatch, At, Calls
    <2> QED  BY <2>1, PendingType
  <1>3. \A i \in Rows : row[i] \in Entry
    BY RowSets
  <1>4. CASE ApproveBatch(r)
    <2>1. request'[r].call = "load"
      BY <1>2, <1>4 DEF ApproveBatch, Goto, Pending, TypeOK
    <2>2. batch' = "SUBMITTED" /\ imported' = imported /\ StatusesIn(Previewed)
      BY <1>4 DEF ApproveBatch, At, Fits, DataFits, BatchFits, history
    <2>3. \A i \in Rows : /\ row[i].status = "VALID" => row'[i].status = "APPROVED"
                          /\ row[i].status # "VALID" => row'[i].status = row[i].status
                          /\ row'[i].created = row[i].created
      BY <1>3, <1>4 DEF ApproveBatch, Promotable, Entry
    <2>4. Staged' = Staged
      BY <2>3 DEF Staged
    <2>5. BatchFits'
      BY <2>2, <2>3, <2>4
      DEF BatchFits, StatusesIn, Staged, Previewed, Decided, Settled, Submittable, Ended
    <2>6. CreatedSaysSo'
      BY <2>2, <2>3 DEF DataFits, CreatedSaysSo, Unreconciled, Erring
    <2> QED  BY <2>1, <2>2, <2>5, <2>6 DEF DataFits, Fits, SubmissionFits
  <1>5. CASE LoadApproved(r)
    <2>1. request'[r].call = "lookUp" /\ request'[r].todo = WithStatus({"APPROVED"})
      BY <1>5, ContinuesAs DEF LoadApproved, Blank
    <2>2. row' = row /\ batch' = batch /\ imported' = imported /\ batch = "SUBMITTED"
      BY <1>5 DEF LoadApproved, At, Fits, SubmissionFits, data, history
    <2> QED  BY <1>1, <2>1, <2>2 DEF Fits, SubmissionFits, WithStatus
  <1>6. CASE LookUpRow(r)
    <2>1. SubmissionFits(q) /\ q.todo = WithStatus({"APPROVED"}) /\ q.call = "lookUp"
            /\ batch' = batch /\ imported' = imported
      BY <1>6 DEF LookUpRow, At, Fits, SubmissionFits, history
    <2>2. PICK i \in q.todo :
            \/ /\ row' = [row EXCEPT ![i].status = "POSSIBLE_EXISTING_DUPLICATE"]
               /\ \/ request' = [request EXCEPT ![r].todo = @ \ {i}]
                  \/ request' = [request EXCEPT ![r].call = "mark", ![r].at = i]
            \/ /\ request' = [request EXCEPT ![r].call = "insert", ![r].at = i]
               /\ row' = row
      BY <1>6 DEF LookUpRow
    <2>3. i \in Rows /\ row[i].status = "APPROVED"
      BY <2>1 DEF WithStatus
    <2>4. CASE /\ request' = [request EXCEPT ![r].call = "insert", ![r].at = i]
               /\ row' = row
      <3>1. request'[r].call = "insert" /\ request'[r].todo = q.todo /\ request'[r].at = i
        BY <1>2, <2>4 DEF Pending, TypeOK
      <3>2. SubmissionFits(request[r])'
        BY <2>1, <2>4, <3>1 DEF SubmissionFits, WithStatus
      <3> QED  BY <1>1, <2>1, <2>4, <3>1, <3>2 DEF Fits
    <2>5. CASE /\ row' = [row EXCEPT ![i].status = "POSSIBLE_EXISTING_DUPLICATE"]
               /\ \/ request' = [request EXCEPT ![r].todo = @ \ {i}]
                  \/ request' = [request EXCEPT ![r].call = "mark", ![r].at = i]
      <3>1. \/ request'[r].call = "lookUp" /\ request'[r].todo = q.todo \ {i}
            \/ request'[r].call = "mark" /\ request'[r].todo = q.todo /\ request'[r].at = i
        BY <1>2, <2>1, <2>5 DEF Pending, TypeOK
      <3>2. /\ row'[i].status = "POSSIBLE_EXISTING_DUPLICATE" /\ row'[i].created = row[i].created
            /\ \A k \in Rows \ {i} : row'[k] = row[k]
        BY <1>3, <2>3, <2>5 DEF Entry, TypeOK
      <3>3. Staged' = Staged
        BY <2>3, <3>2 DEF Staged
      <3>4. BatchFits'
        BY <2>1, <2>3, <3>2, <3>3
        DEF SubmissionFits, DataFits, BatchFits, StatusesIn, Staged, Decided, Submittable, Ended
      <3>5. CreatedSaysSo'
        BY <2>1, <2>3, <3>2 DEF DataFits, CreatedSaysSo, Unreconciled
      <3>6. SubmissionFits(request[r])'
        <4>1. WithStatus({"APPROVED"})' = q.todo \ {i}
          BY <2>1, <2>3, <3>2 DEF WithStatus
        <4> QED  BY <2>1, <3>1, <4>1 DEF SubmissionFits
      <3> QED  BY <3>1, <3>4, <3>5, <3>6 DEF DataFits, Fits
    <2> QED  BY <2>2, <2>4, <2>5
  <1>7. CASE InsertRow(r)
    <2> DEFINE at == q.at
    <2>1. SubmissionFits(q) /\ at \in q.todo /\ q.todo = WithStatus({"APPROVED"})
            /\ batch = "SUBMITTED" /\ batch' = batch
      BY <1>7 DEF InsertRow, At, Fits, SubmissionFits
    <2>2. at \in Rows /\ row[at].status = "APPROVED"
      BY <2>1 DEF WithStatus
    <2>3. /\ request'[r].call \in {"lookUp", "mark"}
          /\ request'[r].call = "lookUp" => request'[r].todo = q.todo \ {at}
          /\ request'[r].call = "mark" => request'[r].todo = q.todo /\ request'[r].at = at
      BY <1>2, <1>7 DEF InsertRow, Goto, Pending, TypeOK
    <2>4. /\ row'[at].status = "IMPORTED" /\ row'[at].created /\ imported' = imported \union {at}
          /\ \A k \in Rows \ {at} : row'[k] = row[k]
      <3>1. row' = [row EXCEPT ![at].status = "IMPORTED", ![at].created = TRUE]
              /\ imported' = imported \union {at}
        BY <1>7 DEF InsertRow
      <3>2. row'[at] = [row[at] EXCEPT !.status = "IMPORTED", !.created = TRUE]
              /\ \A k \in Rows \ {at} : row'[k] = row[k]
        BY <2>2, <3>1 DEF TypeOK
      <3>3. row'[at].status = "IMPORTED" /\ row'[at].created
        BY <1>3, <2>2, <3>2 DEF Entry
      <3> QED  BY <3>1, <3>2, <3>3
    <2> HIDE DEF at
    <2>5. Staged' = Staged
      BY <2>2, <2>4 DEF Staged
    <2>6. BatchFits'
      BY <2>1, <2>4, <2>5
      DEF DataFits, BatchFits, StatusesIn, Staged, Decided, Settled, Submittable, Ended
    <2>7. CreatedSaysSo'
      BY <2>1, <2>2, <2>4 DEF DataFits, CreatedSaysSo, Unreconciled
    <2>8. WithStatus({"APPROVED"})' = q.todo \ {at}
      BY <2>1, <2>2, <2>4 DEF WithStatus
    <2> QED  BY <2>1, <2>3, <2>6, <2>7, <2>8 DEF DataFits, Fits, SubmissionFits
  <1>a. CASE FailRow(r)
    <2>1. SubmissionFits(q) /\ q.todo = WithStatus({"APPROVED"}) /\ batch = "SUBMITTED"
            /\ row' = row /\ batch' = batch /\ imported' = imported
      BY <1>a DEF FailRow, At, Fits, SubmissionFits, data, history
    <2>2. /\ request'[r].call = "mark" /\ request'[r].todo = q.todo
          /\ request'[r].at \in q.todo
      <3>1. CASE At(r, "lookUp")
        <4>1. PICK i \in q.todo : request' = [request EXCEPT ![r].call = "mark", ![r].at = i]
          BY <1>a, <3>1 DEF FailRow, At
        <4> QED  BY <1>2, <4>1 DEF Pending, TypeOK
      <3>2. CASE At(r, "insert")
        <4>1. q.at \in q.todo /\ Goto(r, "mark")
          BY <1>a, <3>2 DEF FailRow, At, Fits, SubmissionFits
        <4> QED  BY <1>2, <4>1 DEF Goto, Pending, TypeOK
      <3> QED  BY <1>a, <3>1, <3>2 DEF FailRow
    <2>3. WithStatus({"APPROVED"})' = WithStatus({"APPROVED"})
      BY <2>1 DEF WithStatus
    <2> QED  BY <1>1, <2>1, <2>2, <2>3 DEF Fits, SubmissionFits
  <1>b. CASE MarkRow(r)
    <2> DEFINE at == q.at
    <2>1. /\ at \in q.todo /\ q.todo \ {at} = WithStatus({"APPROVED"}) \ {at}
          /\ batch = "SUBMITTED" /\ batch' = batch /\ imported' = imported
      BY <1>b DEF MarkRow, At, Fits, SubmissionFits, history
    <2>2. at \in Staged /\ at \in Rows
      BY <1>2, <1>b DEF MarkRow, At, StagedInv, HandledAreStaged, Pending
    <2>3. request'[r].call = "lookUp" /\ request'[r].todo = q.todo \ {at}
      BY <1>2, <1>b DEF MarkRow, Pending, TypeOK
    <2>4. /\ row'[at].status = "IMPORT_ERROR" /\ row'[at].created = row[at].created
          /\ \A k \in Rows \ {at} : row'[k] = row[k]
      <3>1. row'[at] = Failed(row[at]) /\ \A k \in Rows \ {at} : row'[k] = row[k]
        BY <1>b, <2>2 DEF MarkRow, TypeOK
      <3>2. Failed(row[at]).status = "IMPORT_ERROR" /\ Failed(row[at]).created = row[at].created
        BY <1>3, <2>2 DEF Failed, Entry
      <3> QED  BY <3>1, <3>2
    <2> HIDE DEF at
    <2>5. Staged' = Staged
      BY <2>2, <2>4 DEF Staged
    <2>6. BatchFits'
      BY <2>1, <2>4, <2>5
      DEF DataFits, BatchFits, StatusesIn, Staged, Decided, Settled, Submittable, Ended
    <2>7. CreatedSaysSo'
      BY <2>1, <2>2, <2>4 DEF DataFits, CreatedSaysSo, Unreconciled, Erring
    <2>8. WithStatus({"APPROVED"})' = q.todo \ {at}
      BY <2>1, <2>2, <2>4 DEF WithStatus
    <2> QED  BY <2>1, <2>3, <2>6, <2>7, <2>8 DEF DataFits, Fits, SubmissionFits
  <1>8. CASE LoadFinal(r)
    <2>1. request'[r].call = "finalize" /\ request'[r].found = Statuses
      BY <1>8, ContinuesAs DEF LoadFinal, Blank
    <2>2. row' = row /\ batch' = batch /\ imported' = imported
            /\ batch = "SUBMITTED" /\ WithStatus({"APPROVED"}) = {}
      BY <1>8 DEF LoadFinal, At, Fits, SubmissionFits, data, history
    <2>3. "APPROVED" \notin Statuses /\ Statuses' = Statuses
      BY <2>2 DEF WithStatus, Statuses, Staged
    <2> QED  BY <1>1, <2>1, <2>2, <2>3 DEF Fits, SubmissionFits
  <1>9. ASSUME batch' = Final(Statuses), row' = row, imported' = imported, StatusesIn(Decided)
        PROVE  DataFits' /\ batch' \in Ended
    <2>1. batch' \in Ended
      BY <1>9 DEF Final, Ended
    <2>2. batch' = "COMPLETED" => StatusesIn(Settled)
      BY <1>9 DEF Final, Statuses, StatusesIn, Decided, Settled
    <2>3. BatchFits'
      BY <1>9, <2>1, <2>2 DEF BatchFits, StatusesIn, Staged, Submittable, Ended
    <2>4. ASSUME NEW i \in Rows, row[i].status = "IMPORT_ERROR" PROVE batch' \in Erring
      <3>1. "IMPORT_ERROR" \in Statuses
        BY <2>4 DEF Statuses, Staged
      <3> QED  BY <1>9, <3>1 DEF Final, Erring
    <2>5. CreatedSaysSo'
      BY <1>9, <2>4 DEF DataFits, CreatedSaysSo, Unreconciled
    <2> QED  BY <2>1, <2>3, <2>5 DEF DataFits
  <1>10. CASE FinalizeBatch(r)
    <2>1. SubmissionFits(q) /\ q.found = Statuses /\ "APPROVED" \notin q.found
            /\ batch = "SUBMITTED" /\ batch' = Final(q.found) /\ row' = row /\ imported' = imported
      BY <1>10 DEF FinalizeBatch, At, Fits, SubmissionFits, history
    <2>2. StatusesIn(Decided)
      BY <2>1 DEF DataFits, BatchFits, StatusesIn, Statuses
    <2>3. request'[r].call = "reload"
      BY <1>10, ContinuesAs DEF FinalizeBatch, Blank
    <2> QED  BY <1>9, <2>1, <2>2, <2>3 DEF Fits, ReconciliationFits
  <1>11. CASE ReloadErrors(r)
    <2>1. row' = row /\ batch' = batch /\ imported' = imported /\ batch \in Ended
      BY <1>11 DEF ReloadErrors, At, Fits, ReconciliationFits, data, history
    <2>2. CASE Answer(r)
      <3>1. request'[r] = Idle
        BY <2>2 DEF Answer, TypeOK
      <3> QED  BY <1>1, <2>1, <3>1, IdleFits
    <2>3. CASE ~Answer(r)
      <3> DEFINE errors == WithStatus({"IMPORT_ERROR"})
      <3>1. /\ request'[r].call = "reconcile" /\ request'[r].todo = errors
            /\ request'[r].handled = {i \in errors : row[i].created}
        BY <1>11, <2>3, ContinuesAs DEF ReloadErrors, Blank
      <3>2. errors' = errors
        BY <2>1 DEF WithStatus
      <3> HIDE DEF errors
      <3>3. ReconciliationFits(request[r])'
        BY <2>1, <3>1, <3>2 DEF errors, ReconciliationFits
      <3> QED  BY <1>1, <2>1, <3>1, <3>3 DEF Fits
    <2> QED  BY <2>2, <2>3
  <1>12. CASE ReconcileRow(r)
    <2>1. /\ ReconciliationFits(q) /\ q.todo \subseteq WithStatus({"IMPORT_ERROR"})
          /\ \A i \in q.todo : i \in q.handled <=> row[i].created
          /\ batch \in Ended /\ batch' = batch /\ imported' = imported /\ q.call = "reconcile"
      BY <1>12 DEF ReconcileRow, At, Fits, ReconciliationFits, history
    <2>2. PICK i \in q.todo : \E status :
            /\ row' = row \/ row' = [row EXCEPT ![i] = Reconciled(@, i \in q.handled)]
            /\ \/ request' = [request EXCEPT ![r].todo = @ \ {i}]
               \/ request' = [request EXCEPT ![r].todo = @ \ {i}, ![r].found = @ \union {status}]
      BY <1>12 DEF ReconcileRow
    <2>3. i \in Rows /\ row[i].status = "IMPORT_ERROR" /\ (i \in q.handled <=> row[i].created)
      BY <2>1 DEF WithStatus
    <2>4. /\ row'[i] \in {row[i], Reconciled(row[i], i \in q.handled)}
          /\ \A k \in Rows \ {i} : row'[k] = row[k]
      BY <2>2, <2>3 DEF TypeOK
    <2>5. /\ row'[i].status \in {"IMPORT_ERROR", "POSSIBLE_EXISTING_DUPLICATE", "IMPORTED"}
          /\ row'[i].created = row[i].created
          /\ row'[i].status = "POSSIBLE_EXISTING_DUPLICATE" => ~row[i].created
          /\ row'[i].status = "IMPORTED" => row[i].created
      BY <1>3, <2>3, <2>4 DEF Reconciled, Entry
    <2>6. request'[r].call = "reconcile" /\ request'[r].todo = q.todo \ {i}
            /\ request'[r].handled = q.handled
      BY <1>2, <2>1, <2>2 DEF Pending, TypeOK
    <2>7. Staged' = Staged
      BY <2>3, <2>4, <2>5 DEF Staged
    <2>8. batch # "COMPLETED"
      BY <2>3 DEF DataFits, BatchFits, StatusesIn, Staged, Settled
    <2>9. BatchFits'
      BY <2>1, <2>4, <2>5, <2>7, <2>8
      DEF DataFits, BatchFits, StatusesIn, Staged, Decided, Settled, Submittable, Ended
    <2>10. CreatedSaysSo'
      BY <2>1, <2>3, <2>4, <2>5 DEF DataFits, CreatedSaysSo, Unreconciled
    <2>11. /\ request'[r].todo \subseteq WithStatus({"IMPORT_ERROR"})'
           /\ \A k \in request'[r].todo : k \in request'[r].handled <=> row'[k].created
      BY <2>1, <2>4, <2>6 DEF WithStatus
    <2> QED  BY <2>1, <2>6, <2>9, <2>10, <2>11 DEF DataFits, Fits, ReconciliationFits
  <1>c. CASE NothingReconciled(r)
    <2>1. request'[r] = Idle /\ row' = row /\ batch' = batch /\ imported' = imported
      BY <1>c DEF NothingReconciled, Answer, data, history, TypeOK
    <2> QED  BY <1>1, <2>1, IdleFits
  <1>13. CASE LoadReconciled(r)
    <2>1. request'[r].call = "settle" /\ request'[r].found = Statuses
      BY <1>13, ContinuesAs DEF LoadReconciled, Blank
    <2>2. row' = row /\ batch' = batch /\ imported' = imported /\ batch \in Ended
      BY <1>13 DEF LoadReconciled, At, Fits, ReconciliationFits, data, history
    <2> QED  BY <1>1, <2>1, <2>2 DEF Fits, ReconciliationFits, Statuses, Staged
  <1>14. CASE SettleBatch(r)
    <2>1. q.found = Statuses /\ batch \in Ended /\ batch' = Final(q.found)
            /\ row' = row /\ imported' = imported
      BY <1>14 DEF SettleBatch, At, Fits, ReconciliationFits, history
    <2>2. request'[r] = Idle
      BY <1>14 DEF SettleBatch, Answer, TypeOK
    <2>3. StatusesIn(Decided)
      BY <2>1 DEF DataFits, BatchFits
    <2> QED  BY <1>9, <2>1, <2>2, <2>3, IdleFits
  <1> QED
    BY <1>4, <1>5, <1>6, <1>7, <1>8, <1>10, <1>11, <1>12, <1>13, <1>14, <1>a, <1>b, <1>c
    DEF Import

\* No batch is submitted, and none waits for the reconciliation, after a step
\* before the submission.
LEMMA NotSubmittedYet ==
  ASSUME TypeOK, NEW r \in Requests, Fits(request[r]), Create(r) \/ Upload(r) \/ Preview(r) \/ ReadSubmit(r)
  PROVE  batch' \notin Erring
  <1>1. CASE Create(r) \/ Upload(r)
    BY <1>1
    DEF Create, ReadCreate, CreateBatch, Upload, ReadUpload, StageRow, RetryUpload, FinishUpload,
        ReadProvenance, RecordProvenance, At, Fits, Erring, data
  <1>2. CASE FinishPreview(r)
    <2>1. request[r].found \subseteq Previewed
      BY <1>2 DEF FinishPreview, At, Fits, PreviewFits
    <2> QED  BY <1>2, <2>1 DEF FinishPreview, Recommended, Previewed, Erring
  <1>3. CASE ReadPreview(r) \/ PreviewRow(r) \/ ReadSubmit(r)
    BY <1>3
    DEF ReadPreview, PreviewRow, ReadSubmit, At, Fits, PreviewFits, Submittable, Erring, data
  <1> QED  BY <1>1, <1>2, <1>3 DEF Preview

\* A submission awaits the rows it has to reconcile until it has.
LEMMA SubmissionAwaits ==
  ASSUME TypeOK, DataFits, NEW r \in Requests, Fits(request[r]), AwaitedBy(request[r]), Import(r)
  PROVE  AwaitedBy(request[r])'
  <1> DEFINE q == request[r]
  <1>1. ASSUME request'[r].call \in {"load", "lookUp", "insert", "mark", "finalize", "reload"}
        PROVE  AwaitedBy(request[r])'
    BY <1>1 DEF AwaitedBy, Awaits
  <1>2. ASSUME row' = row, \A i \in Rows : ~Unreconciled(i) PROVE AwaitedBy(request[r])'
    BY <1>2 DEF AwaitedBy, Unreconciled
  <1>3. q.call \in Calls /\ q \in Pending
    <2>1. q.call \in Calls
      BY DEF Import, ApproveBatch, LoadApproved, LookUpRow, InsertRow, FailRow, MarkRow, LoadFinal,
             FinalizeBatch, ReloadErrors, ReconcileRow, NothingReconciled, LoadReconciled,
             SettleBatch, At, Calls
    <2> QED  BY <2>1, PendingType
  <1>4. CASE ApproveBatch(r) \/ LookUpRow(r) \/ InsertRow(r) \/ FailRow(r) \/ MarkRow(r)
    BY <1>1, <1>3, <1>4
    DEF ApproveBatch, LookUpRow, InsertRow, FailRow, MarkRow, Goto, At, Pending, TypeOK
  <1>5. CASE LoadApproved(r) \/ LoadFinal(r) \/ FinalizeBatch(r)
    BY <1>1, <1>5, ContinuesAs DEF LoadApproved, LoadFinal, FinalizeBatch, Blank
  <1>6. CASE ReloadErrors(r)
    <2> DEFINE errors == WithStatus({"IMPORT_ERROR"})
    <2>1. row' = row /\ \A i \in Rows : Unreconciled(i) => i \in errors /\ row[i].created
      BY <1>6 DEF ReloadErrors, data, DataFits, CreatedSaysSo, Unreconciled, WithStatus
    <2>2. CASE errors = {}
      BY <1>2, <2>1, <2>2
    <2>3. CASE errors # {}
      <3>1. /\ request'[r].call = "reconcile" /\ request'[r].todo = errors
            /\ request'[r].handled = {i \in errors : row[i].created}
        BY <1>6, <2>3, ContinuesAs DEF ReloadErrors, Blank
      <3> HIDE DEF errors
      <3> QED  BY <2>1, <3>1 DEF AwaitedBy, Awaits, Unreconciled
    <2> QED  BY <2>2, <2>3
  <1>7. CASE ReconcileRow(r)
    <2>1. PICK i \in q.todo : \E status :
            /\ \/ row' = row /\ i \notin q.handled
               \/ row' = [row EXCEPT ![i] = Reconciled(@, i \in q.handled)]
            /\ \/ request' = [request EXCEPT ![r].todo = @ \ {i}]
               \/ request' = [request EXCEPT ![r].todo = @ \ {i}, ![r].found = @ \union {status}]
      BY <1>7 DEF ReconcileRow
    <2>2. /\ request'[r].call = "reconcile" /\ request'[r].todo = q.todo \ {i}
          /\ request'[r].handled = q.handled
      BY <1>3, <1>7, <2>1 DEF ReconcileRow, At, Pending, TypeOK
    <2>3. i \in Rows /\ \A k \in Rows \ {i} : row'[k] = row[k]
      BY <1>3, <2>1 DEF Pending, TypeOK
    <2>4. ~Unreconciled(i)'
      <3>1. row[i] \in Entry
        BY <2>3, RowSets
      <3>2. CASE row' = row /\ i \notin q.handled
        BY <1>7, <2>3, <3>2 DEF ReconcileRow, At, AwaitedBy, Awaits, Unreconciled
      <3>3. CASE row' = [row EXCEPT ![i] = Reconciled(@, i \in q.handled)]
        <4>1. row'[i] = Reconciled(row[i], i \in q.handled)
          BY <2>3, <3>3 DEF TypeOK
        <4> QED  BY <3>1, <4>1 DEF Reconciled, Unreconciled, Entry
      <3> QED  BY <2>1, <3>2, <3>3
    <2>5. \A k \in Rows \ {i} : Unreconciled(k)' => k \in q.todo /\ k \in q.handled
      BY <1>7, <2>3 DEF ReconcileRow, At, AwaitedBy, Awaits, Unreconciled
    <2> QED  BY <2>2, <2>3, <2>4, <2>5 DEF AwaitedBy, Awaits
  <1>8. CASE NothingReconciled(r) \/ LoadReconciled(r)
    <2>1. \A i \in Rows : ~Unreconciled(i)
      BY <1>8 DEF NothingReconciled, LoadReconciled, At, AwaitedBy, Awaits
    <2> QED  BY <1>2, <1>8, <2>1 DEF NothingReconciled, LoadReconciled, data
  <1>9. CASE SettleBatch(r)
    <2>1. \A i \in Rows : ~Unreconciled(i)
      BY <1>9 DEF SettleBatch, At, AwaitedBy, Awaits
    <2> QED  BY <1>2, <1>9, <2>1 DEF SettleBatch
  <1> QED  BY <1>4, <1>5, <1>6, <1>7, <1>8, <1>9 DEF Import

\* While requests do not overlap, the one that is served is alone.
LEMMA ServedAlone ==
  ASSUME TypeOK, NEW r \in Requests, Serve(r), ~overlapped'
  PROVE  ~overlapped /\ (request[r] = Idle => \A p \in Requests : request[p] = Idle)
  <1> DEFINE Alone == ~overlapped /\ (request[r] = Idle => \A p \in Requests : request[p] = Idle)
  <1>1. ASSUME NEW q, Start(r, q) PROVE Alone
    BY <1>1 DEF Start
  <1>2. ASSUME NEW call \in Calls, At(r, call), overlapped' = overlapped PROVE Alone
    <2>1. request[r] # Idle
      BY <1>2 DEF At, Idle, Calls
    <2> QED  BY <1>2, <2>1
  <1>3. CASE Create(r) \/ Upload(r)
    <2>1. \/ \E q : Start(r, q)
          \/ (\E call \in Calls : At(r, call)) /\ overlapped' = overlapped
      BY <1>3
      DEF Create, ReadCreate, CreateBatch, Upload, ReadUpload, StageRow, RetryUpload,
          FinishUpload, ReadProvenance, RecordProvenance, Calls
    <2> QED  BY <1>1, <1>2, <2>1
  <1>4. CASE Preview(r) \/ ReadSubmit(r)
    <2>1. \/ \E q : Start(r, q)
          \/ (\E call \in Calls : At(r, call)) /\ overlapped' = overlapped
      BY <1>4 DEF Preview, ReadPreview, PreviewRow, FinishPreview, ReadSubmit, Calls
    <2> QED  BY <1>1, <1>2, <2>1
  <1>5. CASE Import(r)
    <2>1. (\E call \in Calls : At(r, call)) /\ overlapped' = overlapped
      BY <1>5
      DEF Import, ApproveBatch, LoadApproved, LookUpRow, InsertRow, FailRow, MarkRow,
          LoadFinal, FinalizeBatch,
          ReloadErrors, ReconcileRow, NothingReconciled, LoadReconciled, SettleBatch, Calls
    <2> QED  BY <1>2, <2>1
  <1>6. CASE Crash(r)
    BY <1>6 DEF Crash
  <1> QED  BY <1>3, <1>4, <1>5, <1>6 DEF Serve

LEMMA SerialStepwise ==
  ASSUME TypeOK, StagedInv, SerialInv, [Next]_vars
  PROVE  SerialInv'
  <1> SUFFICES ASSUME ~overlapped' PROVE OneAtATime' /\ DataFits' /\ AllFit' /\ AllAwaited'
    BY DEF SerialInv
  <1>1. ASSUME NEW r \in Requests, Serve(r)
        PROVE  OneAtATime' /\ DataFits' /\ AllFit' /\ AllAwaited'
    <2>1. ~overlapped /\ (request[r] = Idle => \A p \in Requests : request[p] = Idle)
      BY <1>1, ServedAlone
    <2>2. OneAtATime /\ DataFits /\ Fits(request[r]) /\ AllAwaited
      BY <2>1 DEF SerialInv, AllFit
    <2>3. \A p \in Requests : p # r => request[p] = Idle /\ request'[p] = Idle
      BY <1>1, <2>1, <2>2, OthersAreLeft DEF OneAtATime
    <2>4. DataFits' /\ Fits(request[r])'
      <3>1. CASE Crash(r)
        <4>1. request'[r] = Idle
          BY <3>1 DEF Crash, Answer, TypeOK
        <4>2. DataFits'
          BY <2>2, <3>1
          DEF Crash, data, DataFits, BatchFits, CreatedSaysSo, Unreconciled, StatusesIn, Staged
        <4> QED  BY <4>1, <4>2, IdleFits
      <3> QED
        BY <1>1, <2>2, <3>1, UploadFits, PreviewKeepsFit, SubmissionKeepsFit DEF Serve
    <2>5. OneAtATime'
      BY <2>3 DEF OneAtATime
    <2>6. AllFit'
      BY <2>3, <2>4, IdleFits DEF AllFit
    <2>7. AllAwaited'
      <3>1. CASE Crash(r)
        BY <3>1, ImportConstants DEF Crash, TypeOK, AllAwaited
      <3>2. CASE Create(r) \/ Upload(r) \/ Preview(r) \/ ReadSubmit(r)
        <4>1. batch' \notin Erring
          BY <2>2, <3>2, NotSubmittedYet
        <4> QED  BY <2>4, <4>1 DEF AllAwaited, DataFits, CreatedSaysSo
      <3>3. CASE Import(r)
        <4>1. crashes' = crashes
          BY <3>3
          DEF Import, ApproveBatch, LoadApproved, LookUpRow, InsertRow, FailRow, MarkRow,
              LoadFinal, FinalizeBatch, ReloadErrors, ReconcileRow, NothingReconciled,
              LoadReconciled, SettleBatch, history
        <4>2. CASE crashes > 0
          BY <4>1, <4>2 DEF AllAwaited
        <4>3. CASE ~(crashes > 0)
          <5>1. \A i : ~Awaits(Idle, i)
            BY DEF Awaits, Idle
          <5>2. AwaitedBy(request[r])
            BY <2>2, <2>3, <4>3, <5>1 DEF AllAwaited, AwaitedBy
          <5>3. AwaitedBy(request[r])'
            BY <2>2, <3>3, <5>2, SubmissionAwaits
          <5> QED  BY <5>3 DEF AllAwaited, AwaitedBy
        <4> QED  BY <4>2, <4>3
      <3> QED  BY <1>1, <3>1, <3>2, <3>3 DEF Serve
    <2> QED  BY <2>4, <2>5, <2>6, <2>7
  <1>2. CASE row' = row /\ batch' = batch /\ imported' = imported /\ request' = request
               /\ crashes' = crashes /\ overlapped' = overlapped
    <2>1. OneAtATime /\ DataFits /\ AllFit /\ AllAwaited
      BY <1>2 DEF SerialInv
    <2>2. OneAtATime' /\ DataFits'
      BY <1>2, <2>1
      DEF OneAtATime, DataFits, BatchFits, CreatedSaysSo, Unreconciled, StatusesIn, Staged
    <2>3. AllFit'
      BY <1>2, <2>1
      DEF AllFit, Fits, PreviewFits, SubmissionFits, ReconciliationFits, Staged, WithStatus, Statuses
    <2>4. AllAwaited'
      BY <1>2, <2>1 DEF AllAwaited, Awaits, Unreconciled
    <2> QED  BY <2>2, <2>3, <2>4
  <1>3. \/ \E r \in Requests : Serve(r)
        \/ row' = row /\ batch' = batch /\ imported' = imported /\ request' = request
             /\ crashes' = crashes /\ overlapped' = overlapped
    BY DEF Next, Serve, AdminImport, Suppress, history, vars, data
  <1> QED  BY <1>1, <1>2, <1>3

\* While a client's requests do not overlap: only rows that created a Lead say
\* so; a row that created one and does not say so, because the answer to its
\* transaction was lost, knows its Lead and waits with its batch for the
\* reconciliation, which every submission that does not die completes; and a
\* completed batch has nothing left to do or to review.
THEOREM SerialBatchesSettle == Spec => []SerialBatchIsSettled
  <1>1. Init => SerialInv
    <2> SUFFICES ASSUME Init PROVE OneAtATime /\ DataFits /\ AllFit /\ AllAwaited
      BY DEF SerialInv
    <2>1. Staged = {} /\ DataFits
      BY DEF Init, Staged, DataFits, BatchFits, CreatedSaysSo, Unreconciled, StatusesIn
    <2>2. OneAtATime /\ AllFit
      BY DEF Init, OneAtATime, AllFit, Fits, Idle
    <2>3. AllAwaited
      BY DEF Init, AllAwaited, Unreconciled
    <2> QED  BY <2>1, <2>2, <2>3
  <1>2. TypeOK /\ StagedInv /\ SerialInv /\ [Next]_vars => SerialInv'
    BY SerialStepwise
  <1>3. TypeOK /\ SerialInv => SerialBatchIsSettled
    <2> SUFFICES ASSUME TypeOK, DataFits, AllAwaited PROVE SerialBatchIsSettled
      BY DEF SerialInv, SerialBatchIsSettled
    <2>1. WithStatus({"IMPORTED"}) \subseteq imported
      BY DEF DataFits, CreatedSaysSo, WithStatus
    <2>2. ASSUME NEW i \in imported \ WithStatus({"IMPORTED"})
          PROVE  /\ row[i].status = "IMPORT_ERROR" /\ row[i].created
                 /\ batch \in {"SUBMITTED", "RECONCILIATION_REQUIRED"}
                 /\ crashes > 0 \/ \E r \in Requests : Submitting(r)
      <3>1. i \in Rows /\ Unreconciled(i)
        BY <2>2 DEF TypeOK, DataFits, CreatedSaysSo, Unreconciled, WithStatus
      <3>2. row[i].status = "IMPORT_ERROR" /\ row[i].created /\ batch \in Erring
        BY <3>1 DEF DataFits, CreatedSaysSo, Unreconciled
      <3>3. crashes > 0 \/ \E r \in Requests : Awaits(request[r], i)
        BY <3>1 DEF AllAwaited
      <3> QED  BY <3>2, <3>3 DEF Erring, Awaits, Submitting
    <2>3. batch = "COMPLETED" => Staged = WithStatus({"IMPORTED", "DUPLICATE_IN_BATCH", "SUPPRESSED"})
      BY DEF DataFits, BatchFits, StatusesIn, Settled, Staged, WithStatus
    <2> QED  BY <2>1, <2>2, <2>3 DEF SerialBatchIsSettled
  <1> QED  BY <1>1, <1>2, <1>3, RowsAreStaged, PTL DEF Spec

=============================================================================
