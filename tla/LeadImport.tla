----------------------------- MODULE LeadImport -----------------------------
(***************************************************************************)
(* One batch of the signed Lead import API: its rows are uploaded, they    *)
(* are previewed against the Leads and the suppressions, and a submission  *)
(* with a recorded approval turns the valid ones into Leads for review.    *)
(* The client may repeat and overlap its requests, and an admin's own      *)
(* import or a suppression may come between any two calls of them.         *)
(***************************************************************************)
EXTENDS FiniteSets, Integers

CONSTANTS
  Manifests,  \* the immutable metadata a client may create the batch with
  NoManifest, \* the metadata of a batch that does not exist
  Rows,       \* row numbers; each has one idempotency key
  Companies,  \* contents of a row, told apart by their dedupe key
  NoCompany,  \* the content of a row that is not staged
  Sources,    \* owner acquisition records
  NoSource,   \* no acquisition record
  Requests,   \* slots for requests served at the same time
  MaxCrashes, \* bound on the functions that die
  MaxSuppressed \* bound on the companies suppressed

ASSUME ImportConstants ==
  /\ Rows \subseteq Nat /\ Rows # {}
  /\ IsFiniteSet(Rows)
  /\ Manifests # {} /\ Companies # {}
  /\ NoManifest \notin Manifests
  /\ NoCompany \notin Companies
  /\ NoSource \notin Sources
  /\ MaxCrashes \in Nat
  /\ MaxSuppressed \in Nat

VARIABLES
  batch,       \* LeadImportBatch.status
  manifest,    \* its metadata
  row,         \* the LeadImportRow rows
  provenance,  \* OwnerLeadAcquisitionProvenance of the batch
  leads,       \* dedupe keys of the Leads; the database keeps them unique
  suppressed,  \* companies with an active suppression
  request,     \* the requests in flight
  crashes,     \* functions that died (history)
  valid,       \* rows that a preview found valid (history)
  imported,    \* rows that a Lead was created from (history)
  overlapped   \* two requests were in flight at a time (history)

data == <<batch, manifest, row, provenance, leads, suppressed>>
history == <<crashes, valid, imported>>
vars == <<data, request, history, overlapped>>

BatchStatuses ==
  {"ABSENT", "DRAFT", "ROWS_RECEIVED", "PREVIEWED", "REVIEW_REQUIRED",
   "APPROVED_FOR_SUBMISSION", "SUBMITTED", "PARTIALLY_ACCEPTED", "COMPLETED",
   "FAILED", "RECONCILIATION_REQUIRED"}

\* RECEIVED to IMPORT_ERROR: the statuses the import writes
RowStatuses ==
  {"ABSENT", "RECEIVED", "VALID", "DUPLICATE_IN_BATCH", "SUPPRESSED", "APPROVED",
   "POSSIBLE_EXISTING_DUPLICATE", "IMPORTED", "IMPORT_ERROR"}

\* The next call of a request
Calls == {"create", "stage", "receive", "record", "previewRow", "conclude", "approve",
          "load", "lookUp", "insert", "mark", "finalize", "reload", "reconcile", "settle"}

Idle == [call |-> "none"]

\* todo: rows of the batch as it was read, still to be handled; at: the row
\* being handled; handled, found: the others that were read, and their statuses
Pending == [call: Calls, seen: BatchStatuses, todo: SUBSET Rows, at: Rows,
            company: Companies, source: Sources \union {NoSource},
            manifest: Manifests, handled: SUBSET Rows, found: SUBSET RowStatuses]

TypeOK ==
  /\ batch \in BatchStatuses
  /\ row \in [Rows -> [status: RowStatuses, company: Companies \union {NoCompany},
                       created: BOOLEAN]]
  /\ manifest \in Manifests \union {NoManifest}
  /\ provenance \in Sources \union {NoSource}
  /\ leads \subseteq Companies
  /\ suppressed \subseteq Companies
  /\ request \in [Requests -> Pending \union {Idle}]
  /\ crashes \in 0..MaxCrashes
  /\ valid \subseteq Rows
  /\ imported \subseteq Rows
  /\ overlapped \in BOOLEAN

Init ==
  /\ batch = "ABSENT"
  /\ manifest = NoManifest
  /\ row = [i \in Rows |-> [status |-> "ABSENT", company |-> NoCompany, created |-> FALSE]]
  /\ provenance = NoSource
  /\ leads = {}
  /\ suppressed = {}
  /\ request = [r \in Requests |-> Idle]
  /\ crashes = 0
  /\ valid = {}
  /\ imported = {}
  /\ overlapped = FALSE

-----------------------------------------------------------------------------
(* Requests *)

Staged == {i \in Rows : row[i].status # "ABSENT"}

WithStatus(S) == {i \in Rows : row[i].status \in S}

Blank == [call |-> "stage", seen |-> "ABSENT", todo |-> {},
          at |-> CHOOSE i \in Rows : TRUE, company |-> CHOOSE c \in Companies : TRUE,
          source |-> NoSource, manifest |-> CHOOSE m \in Manifests : TRUE,
          handled |-> {}, found |-> {}]

Start(r, pending) ==
  /\ request[r] = Idle
  /\ request' = [request EXCEPT ![r] = pending]
  /\ overlapped' = (overlapped \/ \E p \in Requests : request[p] # Idle)

At(r, call) == request[r].call = call

Goto(r, call) == request' = [request EXCEPT ![r].call = call]

\* The next call knows what was read for it, and nothing of what was read before.
Continue(r, pending) == request' = [request EXCEPT ![r] = pending]

Answer(r) == request' = [request EXCEPT ![r] = Idle]

\* The function dies, or a call of it fails that nothing catches.
Crash(r) ==
  /\ request[r] # Idle
  /\ crashes < MaxCrashes
  /\ crashes' = crashes + 1
  /\ Answer(r)
  /\ UNCHANGED <<data, valid, imported, overlapped>>

-----------------------------------------------------------------------------
(* createLeadImportBatch, with the recovery from a lost insert race *)

ReadCreate(r, m) ==
  /\ batch = "ABSENT"
  /\ Start(r, [Blank EXCEPT !.call = "create", !.manifest = m])
  /\ UNCHANGED <<data, history>>

\* The insert fails on the unique run id if the batch exists by now; the batch
\* is returned if it was created with the same metadata.
CreateBatch(r) ==
  LET m == request[r].manifest IN
  /\ At(r, "create")
  /\ IF batch = "ABSENT" THEN batch' = "DRAFT" /\ manifest' = m
                         ELSE UNCHANGED <<batch, manifest>>
  /\ Answer(r)
  /\ UNCHANGED <<row, provenance, leads, suppressed, crashes, valid, imported, overlapped>>

-----------------------------------------------------------------------------
(* uploadLeadImportRows, with the retry of a lost insert race *)

\* Mutant: a row that was staged under the same key is taken for a replay.
ReplayOfKey(i, c) == TRUE

\* assertImmutableLeadImportReplay
MayReplay(i, c) == row[i].company \in {c, NoCompany}

ReadUpload(r, i, c) ==
  /\ batch \in {"DRAFT", "ROWS_RECEIVED"}
  /\ MayReplay(i, c)
  /\ Start(r, [Blank EXCEPT !.seen = batch, !.at = i, !.company = c,
                            !.call = IF i \in Staged THEN "receive" ELSE "stage"])
  /\ UNCHANGED <<data, history>>

StageRow(r) ==
  LET q == request[r] IN
  /\ At(r, "stage")
  /\ q.at \notin Staged
  /\ row' = [row EXCEPT ![q.at] =
               [status |-> "RECEIVED", company |-> q.company, created |-> FALSE]]
  /\ Goto(r, "receive")
  /\ UNCHANGED <<batch, manifest, provenance, leads, suppressed, history, overlapped>>

\* The row was staged by another request: the upload is run again, and now
\* reads that row.
RetryUpload(r) ==
  LET q == request[r] IN
  /\ At(r, "stage")
  /\ q.at \in Staged
  /\ IF batch \in {"DRAFT", "ROWS_RECEIVED"} /\ MayReplay(q.at, q.company)
     THEN request' = [request EXCEPT ![r].call = "receive", ![r].seen = batch]
     ELSE Answer(r)
  /\ UNCHANGED <<data, history, overlapped>>

FinishUpload(r) ==
  LET q == request[r] IN
  /\ At(r, "receive")
  /\ batch' = IF q.seen = "DRAFT" THEN "ROWS_RECEIVED" ELSE batch
  /\ Answer(r)
  /\ UNCHANGED <<manifest, row, provenance, leads, suppressed, crashes, valid, imported, overlapped>>

-----------------------------------------------------------------------------
(* recordOwnerLeadAcquisitionProvenance *)

\* A repeated record is answered at once, a different one is refused.
ReadProvenance(r, s) ==
  /\ provenance = NoSource
  /\ batch = "DRAFT"
  /\ Start(r, [Blank EXCEPT !.call = "record", !.source = s])
  /\ UNCHANGED <<data, history>>

\* The insert fails on the unique batch id if the record exists by now.
RecordProvenance(r) ==
  LET s == request[r].source IN
  /\ At(r, "record")
  /\ provenance' = IF provenance = NoSource THEN s ELSE provenance
  /\ Answer(r)
  /\ UNCHANGED <<batch, manifest, row, leads, suppressed, crashes, valid, imported, overlapped>>

-----------------------------------------------------------------------------
(* previewLeadImportBatch *)

ReadPreview(r) ==
  /\ batch \in {"ROWS_RECEIVED", "PREVIEWED", "REVIEW_REQUIRED"}
  /\ Start(r, [Blank EXCEPT !.call = "previewRow", !.todo = Staged])
  /\ UNCHANGED <<data, history>>

\* The content of a staged row never changes.
DuplicateInBatch(i, handled) ==
  \E j \in handled : row[j].company = row[i].company

PreviewStatus(i, handled) ==
  IF DuplicateInBatch(i, handled) THEN "DUPLICATE_IN_BATCH"
  ELSE IF row[i].company \in leads THEN "POSSIBLE_EXISTING_DUPLICATE"
  ELSE IF row[i].company \in suppressed THEN "SUPPRESSED"
  ELSE "VALID"

\* One row, in the order of the row numbers; it is written by id.
PreviewRow(r) ==
  LET q == request[r] IN
  /\ At(r, "previewRow")
  /\ \E i \in q.todo :
       LET status == PreviewStatus(i, q.handled) IN
       /\ \A j \in q.todo : i <= j
       /\ row' = [row EXCEPT ![i].status = status, ![i].created = FALSE]
       /\ valid' = IF status = "VALID" THEN valid \union {i} ELSE valid
       /\ request' = [request EXCEPT ![r].todo = @ \ {i}, ![r].found = @ \union {status},
                                      ![r].handled = @ \union {i}]
  /\ UNCHANGED <<batch, manifest, provenance, leads, suppressed, crashes, imported, overlapped>>

NeedsReview == {"POSSIBLE_EXISTING_DUPLICATE", "IMPORT_ERROR"}

\* recommendLeadImportBatchStatus
Recommended(found) ==
  CASE found = {}                                             -> "ROWS_RECEIVED"
    [] "IMPORT_ERROR" \in found                               -> "RECONCILIATION_REQUIRED"
    [] found \intersect NeedsReview # {}                      -> "REVIEW_REQUIRED"
    [] found \subseteq {"DUPLICATE_IN_BATCH", "SUPPRESSED"}   -> "COMPLETED"
    [] OTHER                                                  -> "PREVIEWED"

FinishPreview(r) ==
  /\ At(r, "previewRow")
  /\ request[r].todo = {}
  /\ batch' = Recommended(request[r].found)
  /\ Answer(r)
  /\ UNCHANGED <<manifest, row, provenance, leads, suppressed, history, overlapped>>

-----------------------------------------------------------------------------
(* submitLeadImportBatch and reconcileConcurrentSubmitOutcomes *)

\* batchTransitions: from which statuses a batch may be approved
Submittable == {"PREVIEWED", "REVIEW_REQUIRED"}

ReadSubmit(r) ==
  /\ batch \in Submittable
  /\ Start(r, [Blank EXCEPT !.call = "approve"])
  /\ UNCHANGED <<data, history>>

\* Mutant: the approval promotes the rows that were received.
PromotableReceived == {"VALID", "RECEIVED"}

Promotable == {"VALID"}

\* One transaction: the approval is recorded, the valid rows are promoted.
ApproveBatch(r) ==
  /\ At(r, "approve")
  /\ batch' = "SUBMITTED"
  /\ row' = [i \in Rows |-> IF row[i].status \in Promotable
                            THEN [row[i] EXCEPT !.status = "APPROVED"] ELSE row[i]]
  /\ Goto(r, "load")
  /\ UNCHANGED <<manifest, provenance, leads, suppressed, history, overlapped>>

LoadApproved(r) ==
  /\ At(r, "load")
  /\ Continue(r, [Blank EXCEPT !.call = "lookUp", !.todo = WithStatus({"APPROVED"})])
  /\ UNCHANGED <<data, history, overlapped>>

\* A row's transaction looks for a Lead with its key, and is done if there is
\* one: it marks the row, but the answer to its commit may be lost ...
LookUpRow(r) ==
  LET q == request[r] IN
  /\ At(r, "lookUp")
  /\ \E i \in q.todo :
       \/ /\ row[i].company \in leads
          /\ row' = [row EXCEPT ![i].status = "POSSIBLE_EXISTING_DUPLICATE"]
          /\ \/ request' = [request EXCEPT ![r].todo = @ \ {i}]
             \/ request' = [request EXCEPT ![r].call = "mark", ![r].at = i]
       \/ /\ row[i].company \notin leads
          /\ request' = [request EXCEPT ![r].call = "insert", ![r].at = i]
          /\ UNCHANGED row
  /\ UNCHANGED <<batch, manifest, provenance, leads, suppressed, history, overlapped>>

\* ... and creates the Lead, unless its key is taken by now; here, too, the
\* answer to the commit may be lost.
InsertRow(r) ==
  LET q == request[r] IN
  /\ At(r, "insert")
  /\ row[q.at].company \notin leads
  /\ row' = [row EXCEPT ![q.at].status = "IMPORTED", ![q.at].created = TRUE]
  /\ leads' = leads \union {row[q.at].company}
  /\ imported' = imported \union {q.at}
  /\ \/ request' = [request EXCEPT ![r].call = "lookUp", ![r].todo = @ \ {q.at}]
     \/ Goto(r, "mark")
  /\ UNCHANGED <<batch, manifest, provenance, suppressed, crashes, valid, overlapped>>

\* The transaction of a row fails and is rolled back: its key is taken, or
\* anything else goes wrong with it.
FailRow(r) ==
  /\ \/ At(r, "lookUp") /\ \E i \in request[r].todo :
          request' = [request EXCEPT ![r].call = "mark", ![r].at = i]
     \/ At(r, "insert") /\ Goto(r, "mark")
  /\ UNCHANGED <<data, history, overlapped>>

\* Mutant: the row gets the status of a row that failed its validation.
FailedAsInvalid(entry) == [entry EXCEPT !.status = "REJECTED"]

Failed(entry) == [entry EXCEPT !.status = "IMPORT_ERROR"]

\* The catch block: it cannot know whether the transaction was committed.
MarkRow(r) ==
  LET q == request[r] IN
  /\ At(r, "mark")
  /\ row' = [row EXCEPT ![q.at] = Failed(@)]
  /\ request' = [request EXCEPT ![r].call = "lookUp", ![r].todo = @ \ {q.at}]
  /\ UNCHANGED <<batch, manifest, provenance, leads, suppressed, history, overlapped>>

\* finalBatchStatus, and the same rule at the end of the submission
Final(statuses) ==
  IF "IMPORT_ERROR" \in statuses THEN "RECONCILIATION_REQUIRED"
  ELSE IF "POSSIBLE_EXISTING_DUPLICATE" \in statuses THEN "PARTIALLY_ACCEPTED"
  ELSE "COMPLETED"

Statuses == {row[i].status : i \in Staged}

\* Mutant: a submission that imports nothing answers at once.
LoadFinalIfImported(r) ==
  /\ At(r, "lookUp")
  /\ request[r].todo = {}
  /\ IF "IMPORTED" \in Statuses
     THEN request' = [request EXCEPT ![r].call = "finalize", ![r].found = Statuses]
     ELSE Answer(r)
  /\ UNCHANGED <<data, history, overlapped>>

\* The rows are read, and then the batch is finalised with what they say.
LoadFinal(r) ==
  /\ At(r, "lookUp")
  /\ request[r].todo = {}
  /\ Continue(r, [Blank EXCEPT !.call = "finalize", !.found = Statuses])
  /\ UNCHANGED <<data, history, overlapped>>

FinalizeBatch(r) ==
  /\ At(r, "finalize")
  /\ batch' = Final(request[r].found)
  /\ Continue(r, [Blank EXCEPT !.call = "reload"])
  /\ UNCHANGED <<manifest, row, provenance, leads, suppressed, history, overlapped>>

ReloadErrors(r) ==
  /\ At(r, "reload")
  /\ LET errors == WithStatus({"IMPORT_ERROR"}) IN
     IF errors = {} THEN Answer(r)
     ELSE Continue(r, [Blank EXCEPT !.call = "reconcile", !.todo = errors,
                                    !.handled = {i \in errors : row[i].created}])
  /\ UNCHANGED <<data, history, overlapped>>

\* Mutant: the key is looked for first, and finds the row's own Lead.
ReconciledByKey(entry, hasLead) ==
  [entry EXCEPT !.status = "POSSIBLE_EXISTING_DUPLICATE", !.created = FALSE]

\* A row that was read with its Lead is imported after all; one whose key
\* another Lead has is a duplicate.
Reconciled(entry, hasLead) ==
  IF hasLead THEN [entry EXCEPT !.status = "IMPORTED"]
  ELSE [entry EXCEPT !.status = "POSSIBLE_EXISTING_DUPLICATE", !.created = FALSE]

\* A row that has no Lead, and whose key none has, stays an error.
ReconcileRow(r) ==
  /\ At(r, "reconcile")
  /\ \E i \in request[r].todo :
       LET hasLead == i \in request[r].handled IN
       \/ /\ hasLead \/ row[i].company \in leads
          /\ row' = [row EXCEPT ![i] = Reconciled(@, hasLead)]
          /\ request' = [request EXCEPT ![r].todo = @ \ {i},
                                         ![r].found = @ \union {row'[i].status}]
       \/ /\ ~hasLead /\ row[i].company \notin leads
          /\ request' = [request EXCEPT ![r].todo = @ \ {i}]
          /\ UNCHANGED row
  /\ UNCHANGED <<batch, manifest, provenance, leads, suppressed, history, overlapped>>

\* No row was reconciled: the batch stays as the submission left it.
NothingReconciled(r) ==
  /\ At(r, "reconcile")
  /\ request[r].todo = {} /\ request[r].found = {}
  /\ Answer(r)
  /\ UNCHANGED <<data, history, overlapped>>

LoadReconciled(r) ==
  /\ At(r, "reconcile")
  /\ request[r].todo = {} /\ request[r].found # {}
  /\ Continue(r, [Blank EXCEPT !.call = "settle", !.found = Statuses])
  /\ UNCHANGED <<data, history, overlapped>>

SettleBatch(r) ==
  /\ At(r, "settle")
  /\ batch' = Final(request[r].found)
  /\ Answer(r)
  /\ UNCHANGED <<manifest, row, provenance, leads, suppressed, history, overlapped>>

-----------------------------------------------------------------------------
(* Other writers of what the import reads *)

\* commitLeadImport, on the admin's import page, creates a Lead of the company.
AdminImport(c) ==
  /\ c \notin leads \union suppressed
  /\ leads' = leads \union {c}
  /\ UNCHANGED <<batch, manifest, row, provenance, suppressed, request, history, overlapped>>

\* Someone asks not to be contacted.
Suppress(c) ==
  /\ c \notin suppressed
  /\ Cardinality(suppressed) < MaxSuppressed
  /\ suppressed' = suppressed \union {c}
  /\ UNCHANGED <<batch, manifest, row, provenance, leads, request, history, overlapped>>

-----------------------------------------------------------------------------

Create(r) == CreateBatch(r) \/ \E m \in Manifests : ReadCreate(r, m)

Upload(r) ==
  \/ \E i \in Rows, c \in Companies : ReadUpload(r, i, c)
  \/ StageRow(r) \/ RetryUpload(r) \/ FinishUpload(r)
  \/ \E s \in Sources : ReadProvenance(r, s)
  \/ RecordProvenance(r)

Preview(r) == ReadPreview(r) \/ PreviewRow(r) \/ FinishPreview(r)

Import(r) ==
  \/ ApproveBatch(r) \/ LoadApproved(r)
  \/ LookUpRow(r) \/ InsertRow(r) \/ FailRow(r) \/ MarkRow(r)
  \/ LoadFinal(r) \/ FinalizeBatch(r) \/ ReloadErrors(r) \/ ReconcileRow(r)
  \/ NothingReconciled(r) \/ LoadReconciled(r) \/ SettleBatch(r)

Next ==
  \/ \E r \in Requests : Create(r) \/ Upload(r) \/ Preview(r) \/ ReadSubmit(r) \/ Import(r) \/ Crash(r)
  \/ \E c \in Companies : AdminImport(c) \/ Suppress(c)

Spec == Init /\ [][Next]_vars

-----------------------------------------------------------------------------
(* Properties *)

\* A Lead is created only from a row that some preview found valid, however
\* uploads, previews and submissions of the batch interleave.
LeadsComeFromValidRows == imported \subseteq valid

\* A request that is about to tell its client that a row is stored holds the
\* content that is stored: repeated and racing uploads of a key only agree.
AcceptedIsStored ==
  \A r \in Requests : At(r, "receive") => row[request[r].at].company = request[r].company

\* The calls of a submission, up to its answer.
Submitting(r) ==
  request[r].call \in {"load", "lookUp", "insert", "mark", "finalize", "reload", "reconcile",
                      "settle"}

\* While the client's requests do not overlap, whatever admins import or
\* suppress meanwhile, whichever transactions fail or lose their answers, and
\* wherever a request dies: only a row that created a Lead says so.  One that
\* does not say so knows its Lead, is marked for reconciliation together with
\* its batch, and is left that way only by a function that died.  A completed
\* batch has nothing left to do or to review.
SerialBatchIsSettled ==
  overlapped \/
  /\ WithStatus({"IMPORTED"}) \subseteq imported
  /\ \A i \in imported \ WithStatus({"IMPORTED"}) :
       /\ row[i].status = "IMPORT_ERROR" /\ row[i].created
       /\ batch \in {"SUBMITTED", "RECONCILIATION_REQUIRED"}
       /\ crashes > 0 \/ \E r \in Requests : Submitting(r)
  /\ batch = "COMPLETED" =>
       Staged = WithStatus({"IMPORTED", "DUPLICATE_IN_BATCH", "SUPPRESSED"})

\* Unless a function dies, a batch is SUBMITTED only while a submission of it
\* runs, so that it leaves SUBMITTED, however many of them overlap.
SubmittedIsRunning ==
  batch = "SUBMITTED" /\ crashes = 0 =>
    \E r \in Requests : request[r].call \in {"load", "lookUp", "insert", "mark", "finalize"}
=============================================================================
