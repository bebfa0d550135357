------------------------------ MODULE Ingestion ------------------------------
(***************************************************************************)
(* The knowledge base of one tenant: uploads and websites                  *)
(* (ingestion/routes.py), the Celery task that parses, embeds and stores   *)
(* them (ingestion/tasks.py), and their removal.                           *)
(*                                                                         *)
(* Nothing here runs in a transaction: every action is one SQL statement,  *)
(* one storage call, or one call of the embedding provider.  Each document *)
(* has at most one run, made by the request that made the document.        *)
(*                                                                         *)
(* Celery acknowledges late: the message of a worker that dies is          *)
(* delivered again, and so is one held longer than the broker's visibility *)
(* timeout, while its first worker is still at it.  An exception that is   *)
(* not an LLMError ends the task and acknowledges the message.             *)
(***************************************************************************)
EXTENDS Naturals, FiniteSets

CONSTANTS
  Docs,        \* doc ids, one per upload request
  Workers,     \* Celery processes
  Contents,    \* what a file or a page may hold
  Bad,         \* the contents no parser takes
  Size,        \* the number of chunks a content is cut into
  MaxChunks,   \* bound of the model: the longest of them
  NoDoc,       \* an idle worker's document
  NoContent,   \* no file, no chunk
  MaxRetries,  \* max_retries of ingest_document
  FaultBound   \* bound of the model: crashes, errors and early redeliveries

ASSUME IngestionAssumption ==
  /\ Bad \subseteq Contents
  /\ MaxChunks \in Nat
  /\ Size \in [Contents -> 0 .. MaxChunks]
  /\ NoDoc \notin Docs
  /\ NoContent \notin Contents
  /\ MaxRetries \in Nat
  /\ FaultBound \in Nat

VARIABLES
  doc,      \* knowledge_docs.status
  source,   \* knowledge_docs.source, from the request on
  run,      \* ingestion_runs.status
  chunks,   \* knowledge_chunks: the content each chunk number was cut from
  raw,      \* storage: {tenant}/{doc}/{filename}
  parsed,   \* storage: {tenant}/{doc}/parsed.txt
  upload,   \* where the request that makes the document is
  remover,  \* where the request that deletes it is
  queued,   \* waiting messages, by document and retries already made
  worker,   \* what each Celery process is doing
  again,    \* history: documents whose message was delivered a second time
  doubled,  \* history: those of them whose first worker was still running
  raised,   \* history: documents one of whose deliveries ended in an exception
  crossed,  \* history: documents deleted across a request or worker of theirs
  faults    \* how many faults have happened

rows == <<doc, source, run, chunks>>
files == <<raw, parsed>>
history == <<again, doubled, raised, crossed>>
vars == <<rows, files, upload, remover, queued, worker, history, faults>>

-----------------------------------------------------------------------------
Chunk == 1 .. MaxChunks
Stored(c) == [i \in Chunk |-> IF i <= Size[c] THEN c ELSE NoContent]
Nothing == [i \in Chunk |-> NoContent]

Exists(d) == doc[d] \in {"pending", "parsed", "failed"}
RunExists(d) == run[d] \notin {"none", "gone"}
WorkerState ==
  [pc : {"idle", "start", "load", "read", "store", "embed", "clear", "insert", "run", "doc", "ack"},
   doc : Docs \union {NoDoc}, content : (Contents \ Bad) \union {NoContent}, at : Nat,
   retries : 0 .. MaxRetries, verdict : {"none", "succeeded", "failed"}]
Idle == [pc |-> "idle", doc |-> NoDoc, content |-> NoContent, at |-> 0, retries |-> 0,
         verdict |-> "none"]
Holds(w, d) == worker[w].doc = d
Held(d) == \E w \in Workers : Holds(w, d)
Uploading(d) == upload[d] \in {"checked", "stored", "inserted", "logged"}
Removing(d) == remover[d] \in {"chunks", "runs", "doc", "raw", "parsed"}

Init ==
  /\ doc = [d \in Docs |-> "none"]
  /\ source = [d \in Docs |-> "none"]
  /\ run = [d \in Docs |-> "none"]
  /\ chunks = [d \in Docs |-> Nothing]
  /\ raw = [d \in Docs |-> NoContent]
  /\ parsed = [d \in Docs |-> NoContent]
  /\ upload = [d \in Docs |-> "none"]
  /\ remover = [d \in Docs |-> "none"]
  /\ queued = [d \in Docs |-> [n \in 0 .. MaxRetries |-> 0]]
  /\ worker = [w \in Workers |-> Idle]
  /\ again = {}
  /\ doubled = {}
  /\ raised = {}
  /\ crossed = {}
  /\ faults = 0

-----------------------------------------------------------------------------
(* A request uploads a file or adds a website.  All requests of one kind     *)
(* bring the same bytes or the same URL, hence one content hash.             *)

SameHash(d, kind) == {e \in Docs \ {d} : Exists(e) /\ source[e] = kind}

CheckHash(d, kind) ==
  /\ upload[d] = "none"
  /\ upload' = [upload EXCEPT ![d] = IF SameHash(d, kind) # {} THEN "done" ELSE "checked"]
  /\ source' = [source EXCEPT ![d] = IF SameHash(d, kind) # {} THEN "none" ELSE kind]
  /\ UNCHANGED <<doc, run, chunks, files, remover, queued, worker, history, faults>>

(* An upload stores its bytes before the row; a website has none yet.        *)
StoreRaw(d, c) ==
  /\ upload[d] = "checked" /\ source[d] = "upload"
  /\ \A e \in Docs : source[e] = "upload" => raw[e] \in {c, NoContent}
  /\ raw' = [raw EXCEPT ![d] = c]
  /\ upload' = [upload EXCEPT ![d] = "stored"]
  /\ UNCHANGED <<rows, parsed, remover, queued, worker, history, faults>>

(* create_doc: the unique content hash refuses the second of two requests    *)
(* that both found nothing; the bytes it stored stay.                        *)
CreateDoc(d) ==
  /\ upload[d] = IF source[d] = "url" THEN "checked" ELSE "stored"
  /\ IF SameHash(d, source[d]) = {}
     THEN /\ doc' = [doc EXCEPT ![d] = "pending"]
          /\ upload' = [upload EXCEPT ![d] = "inserted"]
          /\ UNCHANGED source
     ELSE /\ upload' = [upload EXCEPT ![d] = "done"]
          /\ source' = [source EXCEPT ![d] = "none"]
          /\ UNCHANGED doc
  /\ UNCHANGED <<run, chunks, files, remover, queued, worker, history, faults>>

CreateRun(d) ==
  /\ upload[d] = "inserted"
  /\ run' = [run EXCEPT ![d] = "queued"]
  /\ upload' = [upload EXCEPT ![d] = "logged"]
  /\ UNCHANGED <<doc, source, chunks, files, remover, queued, worker, history, faults>>

PublishTask(d) ==
  /\ upload[d] = "logged"
  /\ queued' = [queued EXCEPT ![d][0] = @ + 1]
  /\ upload' = [upload EXCEPT ![d] = "done"]
  /\ UNCHANGED <<rows, files, remover, worker, history, faults>>

-----------------------------------------------------------------------------
(* ingest_document in worker w.                                              *)

TakeTask(w, d, n) ==
  /\ worker[w].pc = "idle"
  /\ queued[d][n] > 0
  /\ queued' = [queued EXCEPT ![d][n] = @ - 1]
  /\ worker' = [worker EXCEPT ![w] =
       [pc |-> "start", doc |-> d, content |-> NoContent, at |-> 0, retries |-> n,
        verdict |-> "none"]]
  /\ crossed' = IF Removing(d) THEN crossed \union {d} ELSE crossed
  /\ UNCHANGED <<rows, files, upload, remover, again, doubled, raised, faults>>

(* The body raises something other than an LLMError: the task has failed for *)
(* Celery and its message is gone.                                           *)
Raise(w) ==
  /\ worker' = [worker EXCEPT ![w] = Idle]
  /\ raised' = raised \union {worker[w].doc}

Go(w, pc) == worker' = [worker EXCEPT ![w].pc = pc]

(* Steps 1 and 2: update_run and get_doc raise when their row is gone.       *)
MarkRunning(w) ==
  LET d == worker[w].doc IN
  /\ worker[w].pc = "start"
  /\ IF RunExists(d)
     THEN run' = [run EXCEPT ![d] = "running"] /\ Go(w, "load") /\ UNCHANGED raised
     ELSE Raise(w) /\ UNCHANGED run
  /\ UNCHANGED <<doc, source, chunks, files, upload, remover, queued, again, doubled, crossed, faults>>

LoadDoc(w) ==
  /\ worker[w].pc = "load"
  /\ IF Exists(worker[w].doc) THEN Go(w, "read") /\ UNCHANGED raised ELSE Raise(w)
  /\ UNCHANGED <<rows, files, upload, remover, queued, again, doubled, crossed, faults>>

(* Steps 3 and 4.  A page is fetched anew by every delivery and stored; an   *)
(* upload's file may have been deleted meanwhile.  What no parser takes, and *)
(* a page that cannot be fetched, fail the run.                              *)
ReadSource(w, c) ==
  LET d == worker[w].doc
      web == source[d] = "url"
      got == IF web THEN c ELSE raw[d]
      failing == [worker[w] EXCEPT !.pc = "run", !.verdict = "failed"] IN
  /\ worker[w].pc = "read"
  /\ ~web => c = NoContent
  /\ raw' = IF web /\ got # NoContent THEN [raw EXCEPT ![d] = got] ELSE raw
  /\ IF got = NoContent /\ ~web
     THEN Raise(w)
     ELSE /\ worker' = [worker EXCEPT ![w] =
               IF got \in Bad \union {NoContent} THEN failing
               ELSE [@ EXCEPT !.pc = "store", !.content = got]]
          /\ UNCHANGED raised
  /\ UNCHANGED <<rows, parsed, upload, remover, queued, again, doubled, crossed, faults>>

StoreParsed(w) ==
  /\ worker[w].pc = "store"
  /\ parsed' = [parsed EXCEPT ![worker[w].doc] = worker[w].content]
  /\ Go(w, "embed")
  /\ UNCHANGED <<rows, raw, upload, remover, queued, history, faults>>

(* Steps 6 to 9.  Without an embedding model, or with vectors of the wrong   *)
(* dimension, the run fails; an empty text succeeds before the model is      *)
(* asked, and before any chunk is replaced.                                  *)
AfterEmbedding(c) ==
  IF Size[c] = 0 THEN [pc |-> "run", verdict |-> "succeeded"]
  ELSE [pc |-> "clear", verdict |-> "none"]

Embed(w, ok) ==
  LET next == AfterEmbedding(worker[w].content) IN
  /\ worker[w].pc = "embed"
  /\ worker' = [worker EXCEPT
       ![w].pc = IF ok THEN next.pc ELSE "run",
       ![w].verdict = IF ok THEN next.verdict ELSE "failed"]
  /\ UNCHANGED <<rows, files, upload, remover, queued, history, faults>>

(* LLMError: Celery publishes the next try, or the last try fails the run.   *)
EmbedErrorNeverCaught(w) ==
  LET d == worker[w].doc
      n == worker[w].retries IN
  /\ worker[w].pc = "embed" /\ Size[worker[w].content] > 0
  /\ queued' = IF n < MaxRetries THEN [queued EXCEPT ![d][n + 1] = @ + 1] ELSE queued
  /\ worker' = [worker EXCEPT ![w] = Idle]
  /\ UNCHANGED <<rows, files, upload, remover, history, faults>>

EmbedError(w) ==
  LET d == worker[w].doc
      n == worker[w].retries IN
  /\ worker[w].pc = "embed" /\ Size[worker[w].content] > 0
  /\ IF n < MaxRetries
     THEN /\ queued' = [queued EXCEPT ![d][n + 1] = @ + 1]
          /\ worker' = [worker EXCEPT ![w] = Idle]
     ELSE /\ worker' = [worker EXCEPT ![w].pc = "run", ![w].verdict = "failed"]
          /\ UNCHANGED queued
  /\ UNCHANGED <<rows, files, upload, remover, history, faults>>

(* Step 10, replace_chunks: one DELETE, then one INSERT per chunk, which the *)
(* foreign key refuses without the document and the primary key refuses when *)
(* another delivery has inserted that number.                                *)
Cleared(d) == [chunks EXCEPT ![d] = Nothing]

ClearChunks(w) ==
  /\ worker[w].pc = "clear"
  /\ chunks' = Cleared(worker[w].doc)
  /\ worker' = [worker EXCEPT ![w].pc = "insert", ![w].at = 1]
  /\ UNCHANGED <<doc, source, run, files, upload, remover, queued, history, faults>>

LastChunkOffByOne(w) == worker[w].at + 1 >= Size[worker[w].content]
LastChunk(w) == worker[w].at >= Size[worker[w].content]

InsertChunk(w) ==
  LET d == worker[w].doc
      i == worker[w].at IN
  /\ worker[w].pc = "insert"
  /\ IF Exists(d) /\ chunks[d][i] = NoContent
     THEN /\ chunks' = [chunks EXCEPT ![d][i] = worker[w].content]
          /\ worker' = [worker EXCEPT ![w] =
               IF LastChunk(w) THEN [@ EXCEPT !.pc = "run", !.at = 0, !.verdict = "succeeded"]
               ELSE [@ EXCEPT !.at = i + 1]]
          /\ UNCHANGED raised
     ELSE Raise(w) /\ UNCHANGED chunks
  /\ UNCHANGED <<doc, source, run, files, upload, remover, queued, again, doubled, crossed, faults>>

(* Every verdict is two statements, the run's and then the document's.       *)
FinishRun(w) ==
  LET d == worker[w].doc IN
  /\ worker[w].pc = "run"
  /\ IF RunExists(d)
     THEN run' = [run EXCEPT ![d] = worker[w].verdict] /\ Go(w, "doc") /\ UNCHANGED raised
     ELSE Raise(w) /\ UNCHANGED run
  /\ UNCHANGED <<doc, source, chunks, files, upload, remover, queued, again, doubled, crossed, faults>>

DocVerdict(w) == IF worker[w].verdict = "succeeded" THEN "parsed" ELSE "failed"

FinishDoc(w) ==
  LET d == worker[w].doc IN
  /\ worker[w].pc = "doc"
  /\ IF Exists(d)
     THEN /\ doc' = [doc EXCEPT ![d] = DocVerdict(w)]
          /\ worker' = [worker EXCEPT ![w] =
               [pc |-> "ack", doc |-> d, content |-> NoContent, at |-> 0,
                retries |-> worker[w].retries, verdict |-> "none"]]
          /\ UNCHANGED raised
     ELSE Raise(w) /\ UNCHANGED doc
  /\ UNCHANGED <<source, run, chunks, files, upload, remover, queued, again, doubled, crossed, faults>>

Acknowledge(w) ==
  /\ worker[w].pc = "ack"
  /\ worker' = [worker EXCEPT ![w] = Idle]
  /\ UNCHANGED <<rows, files, upload, remover, queued, history, faults>>

-----------------------------------------------------------------------------
(* An administrator deletes a document: three DELETEs, then the two files,   *)
(* whose removal may fail without failing the request.                       *)

BeginRemove(d) ==
  /\ remover[d] = "none"
  /\ Exists(d)
  /\ remover' = [remover EXCEPT ![d] = "chunks"]
  /\ crossed' = IF Held(d) \/ Uploading(d) THEN crossed \union {d} ELSE crossed
  /\ UNCHANGED <<rows, files, upload, queued, worker, again, doubled, raised, faults>>

RemoveChunks(d) ==
  /\ remover[d] = "chunks"
  /\ chunks' = Cleared(d)
  /\ remover' = [remover EXCEPT ![d] = "runs"]
  /\ UNCHANGED <<doc, source, run, files, upload, queued, worker, history, faults>>

RunRemovedNot(d) == run
RunRemoved(d) == IF RunExists(d) THEN [run EXCEPT ![d] = "gone"] ELSE run

RemoveRuns(d) ==
  /\ remover[d] = "runs"
  /\ run' = RunRemoved(d)
  /\ remover' = [remover EXCEPT ![d] = "doc"]
  /\ UNCHANGED <<doc, source, chunks, files, upload, queued, worker, history, faults>>

(* The row takes the chunks inserted meanwhile with it (ON DELETE CASCADE).  *)
RemoveDoc(d) ==
  /\ remover[d] = "doc"
  /\ doc' = [doc EXCEPT ![d] = "gone"]
  /\ chunks' = Cleared(d)
  /\ remover' = [remover EXCEPT ![d] = "raw"]
  /\ UNCHANGED <<source, run, files, upload, queued, worker, history, faults>>

RemoveRaw(d) ==
  /\ remover[d] = "raw"
  /\ raw' = [raw EXCEPT ![d] = NoContent]
  /\ remover' = [remover EXCEPT ![d] = "parsed"]
  /\ UNCHANGED <<rows, parsed, upload, queued, worker, history, faults>>

RemoveParsed(d) ==
  /\ remover[d] = "parsed"
  /\ parsed' = [parsed EXCEPT ![d] = NoContent]
  /\ remover' = [remover EXCEPT ![d] = "done"]
  /\ UNCHANGED <<rows, raw, upload, queued, worker, history, faults>>

-----------------------------------------------------------------------------
(* Faults.                                                                   *)

Fault == faults < FaultBound /\ faults' = faults + 1

(* The worker dies: the broker delivers its message again.                   *)
LoseWorker(w) ==
  LET d == worker[w].doc IN
  /\ Fault
  /\ worker[w].pc # "idle"
  /\ worker' = [worker EXCEPT ![w] = Idle]
  /\ queued' = [queued EXCEPT ![d][worker[w].retries] = @ + 1]
  /\ again' = again \union {d}
  /\ UNCHANGED <<rows, files, upload, remover, doubled, raised, crossed>>

(* The visibility timeout passes while the worker is still busy.             *)
Redeliver(w) ==
  LET d == worker[w].doc IN
  /\ Fault
  /\ worker[w].pc # "idle"
  /\ queued' = [queued EXCEPT ![d][worker[w].retries] = @ + 1]
  /\ again' = again \union {d}
  /\ doubled' = doubled \union {d}
  /\ UNCHANGED <<rows, files, upload, remover, worker, raised, crossed>>

(* A statement or a storage call of the task fails.                          *)
TaskFault(w) ==
  /\ Fault
  /\ worker[w].pc \notin {"idle", "ack"}
  /\ Raise(w)
  /\ UNCHANGED <<rows, files, upload, remover, queued, again, doubled, crossed>>

(* The request dies, or a statement, the storage or the broker refuses it.   *)
UploadFault(d) ==
  /\ Fault
  /\ Uploading(d)
  /\ upload' = [upload EXCEPT ![d] = "dead"]
  /\ UNCHANGED <<rows, files, remover, queued, worker, history>>

(* A deletion that stopped before the row was gone can be asked for again.   *)
RemoveFault(d) ==
  /\ Fault
  /\ Removing(d)
  /\ remover' = [remover EXCEPT ![d] = IF Exists(d) THEN "none" ELSE "done"]
  /\ crossed' = crossed \union {d}
  /\ UNCHANGED <<rows, files, upload, queued, worker, again, doubled, raised>>

(* Both removals of files are caught, and the request goes on.               *)
StorageFault(d) ==
  /\ Fault
  /\ remover[d] \in {"raw", "parsed"}
  /\ remover' = [remover EXCEPT ![d] = IF @ = "raw" THEN "parsed" ELSE "done"]
  /\ crossed' = crossed \union {d}
  /\ UNCHANGED <<rows, files, upload, queued, worker, again, doubled, raised>>

-----------------------------------------------------------------------------
UploadStep(d) ==
  \/ \E kind \in {"upload", "url"} : CheckHash(d, kind)
  \/ \E c \in Contents : StoreRaw(d, c)
  \/ CreateDoc(d)
  \/ CreateRun(d)
  \/ PublishTask(d)

RemoveStep(d) ==
  \/ RemoveChunks(d)
  \/ RemoveRuns(d)
  \/ RemoveDoc(d)
  \/ RemoveRaw(d)
  \/ RemoveParsed(d)

WorkStep(w) ==
  \/ MarkRunning(w)
  \/ LoadDoc(w)
  \/ \E c \in Contents \union {NoContent} : ReadSource(w, c)
  \/ StoreParsed(w)
  \/ \E ok \in BOOLEAN : Embed(w, ok)
  \/ EmbedError(w)
  \/ ClearChunks(w)
  \/ InsertChunk(w)
  \/ FinishRun(w)
  \/ FinishDoc(w)
  \/ Acknowledge(w)

Take(d) == \E w \in Workers, n \in 0 .. MaxRetries : TakeTask(w, d, n)

FaultStep ==
  \/ \E w \in Workers : LoseWorker(w) \/ Redeliver(w) \/ TaskFault(w)
  \/ \E d \in Docs : UploadFault(d) \/ RemoveFault(d) \/ StorageFault(d)

Next ==
  \/ \E d \in Docs : UploadStep(d) \/ BeginRemove(d) \/ RemoveStep(d) \/ Take(d)
  \/ \E w \in Workers : WorkStep(w)
  \/ FaultStep

(* A request that has begun goes on, Celery hands out waiting messages and   *)
(* its workers run: as each of them takes finitely many steps, it is enough  *)
(* that they do not all stand still.                                         *)
Progress ==
  \/ \E d \in Docs : (UploadStep(d) /\ upload[d] # "none") \/ Take(d)
  \/ \E w \in Workers : WorkStep(w)

Fairness == WF_vars(Progress)

Spec == Init /\ [][Next]_vars
FairSpec == Spec /\ Fairness

-----------------------------------------------------------------------------
(* Properties.                                                               *)

TypeOK ==
  /\ doc \in [Docs -> {"none", "pending", "parsed", "failed", "gone"}]
  /\ source \in [Docs -> {"none", "upload", "url"}]
  /\ run \in [Docs -> {"none", "queued", "running", "succeeded", "failed", "gone"}]
  /\ chunks \in [Docs -> [Chunk -> Contents \union {NoContent}]]
  /\ raw \in [Docs -> Contents \union {NoContent}]
  /\ parsed \in [Docs -> (Contents \ Bad) \union {NoContent}]
  /\ upload \in [Docs -> {"none", "checked", "stored", "inserted", "logged", "done", "dead"}]
  /\ remover \in [Docs -> {"none", "chunks", "runs", "doc", "raw", "parsed", "done"}]
  /\ queued \in [Docs -> [0 .. MaxRetries -> Nat]]
  /\ worker \in [Workers -> WorkerState]
  /\ again \subseteq Docs
  /\ doubled \subseteq again
  /\ raised \subseteq Docs
  /\ crossed \subseteq Docs
  /\ faults \in 0 .. FaultBound

(* What a worker past a given step has in hand.                              *)
InHand(r) ==
  /\ r.pc # "idle" => r.doc \in Docs
  /\ r.pc = "idle" => r.doc = NoDoc
  /\ r.pc \in {"store", "embed", "clear", "insert"} => r.content \in Contents \ Bad
  /\ r.pc \in {"clear", "insert"} => Size[r.content] > 0
  /\ r.pc = "insert" => r.at \in 1 .. Size[r.content]
  /\ r.pc \in {"run", "doc"} => r.verdict # "none"

WorkerOK == \A w \in Workers : InHand(worker[w])

Quiet(d) == ~Held(d) /\ (\A n \in 0 .. MaxRetries : queued[d][n] = 0)

(* What the rows say of a document is true, until its deletion begins.  Of a *)
(* parsed one retrieval serves the whole of the text last parsed, whatever   *)
(* was retried after an LLMError, unless its message was delivered a second  *)
(* time.  When nobody is at it and no delivery ended in an exception, run    *)
(* and document tell one story, also after a crash between their two         *)
(* statements; only two deliveries at once may cross them.                   *)
ServedWhole(d) ==
  doc[d] = "parsed" /\ d \notin again =>
    parsed[d] # NoContent /\ chunks[d] = Stored(parsed[d])

OneStory(d) ==
  Quiet(d) /\ d \notin raised \union doubled =>
    /\ run[d] = "succeeded" <=> doc[d] = "parsed"
    /\ run[d] = "failed" <=> doc[d] = "failed"

VerdictIsTrue ==
  \A d \in Docs :
    Exists(d) /\ remover[d] = "none" /\ d \notin crossed => ServedWhole(d) /\ OneStory(d)

(* A deleted document leaves no row and no file behind, not even through a   *)
(* message still waiting when it was deleted, unless a worker or its own     *)
(* upload was at it meanwhile, or a removal failed.                          *)
GoneLeavesNothing ==
  \A d \in Docs :
    remover[d] = "done" /\ d \notin crossed =>
      /\ ~Exists(d) /\ ~RunExists(d)
      /\ chunks[d] = Nothing
      /\ raw[d] = NoContent /\ parsed[d] = NoContent

(* An accepted document is parsed or failed in the end, or deleted, unless   *)
(* its request died before it was published, or a delivery ended in an       *)
(* exception that is not an LLMError.                                        *)
DocumentSettles ==
  \A d \in Docs : doc[d] = "pending" ~> doc[d] # "pending" \/ upload[d] = "dead" \/ d \in raised
=============================================================================
