--------------------------- MODULE IngestionProofs ---------------------------
(***************************************************************************)
(* Proofs about Ingestion for any number of documents and workers.         *)
(***************************************************************************)
EXTENDS Ingestion, TLAPS

Typed == TypeOK /\ WorkerOK

-----------------------------------------------------------------------------
(* Types.  A step writes the record of one worker, or none.                  *)

LEMMA IdleType == Idle \in WorkerState /\ InHand(Idle)
  BY IngestionAssumption DEF Idle, WorkerState, InHand

LEMMA NothingType == Nothing \in [Chunk -> Contents \union {NoContent}]
  BY DEF Nothing

LEMMA RecordUpdate ==
  ASSUME worker \in [Workers -> WorkerState], WorkerOK,
         NEW w \in Workers, NEW r, r \in WorkerState, InHand(r),
         worker' = [worker EXCEPT ![w] = r]
  PROVE  worker' \in [Workers -> WorkerState] /\ WorkerOK'
<1>1. worker' \in [Workers -> WorkerState]
  OBVIOUS
<1>2. ASSUME NEW v \in Workers PROVE InHand(worker'[v])
  <2>1. worker'[v] = IF v = w THEN r ELSE worker[v]
    OBVIOUS
  <2> QED
    BY <2>1 DEF WorkerOK
<1>3. WorkerOK'
  BY <1>2 DEF WorkerOK, InHand
<1> QED
  BY <1>1, <1>3

LEMMA ToIdle ==
  ASSUME TypeOK, WorkerOK, NEW w \in Workers, worker' = [worker EXCEPT ![w] = Idle]
  PROVE  worker' \in [Workers -> WorkerState] /\ WorkerOK'
  BY IdleType, RecordUpdate DEF TypeOK

Pcs == {"idle", "start", "load", "read", "store", "embed", "clear", "insert", "run", "doc", "ack"}

(* The ways a step rewrites a record, field by field.                        *)
LEMMA Fields ==
  ASSUME NEW r \in WorkerState
  PROVE  /\ r.pc \in Pcs /\ r.doc \in Docs \union {NoDoc}
         /\ r.content \in (Contents \ Bad) \union {NoContent} /\ r.at \in Nat
         /\ r.retries \in 0 .. MaxRetries /\ r.verdict \in {"none", "succeeded", "failed"}
  BY DEF WorkerState, Pcs

LEMMA SetPc ==
  ASSUME NEW r \in WorkerState, NEW q \in Pcs, NEW s, s = [r EXCEPT !.pc = q]
  PROVE  /\ s \in WorkerState /\ s.pc = q /\ s.doc = r.doc /\ s.content = r.content
         /\ s.at = r.at /\ s.verdict = r.verdict
  BY DEF WorkerState, Pcs

LEMMA NextAt ==
  ASSUME NEW r \in WorkerState, NEW n \in Nat, NEW s, s = [r EXCEPT !.at = n]
  PROVE  /\ s \in WorkerState /\ s.pc = r.pc /\ s.doc = r.doc /\ s.content = r.content /\ s.at = n
  BY DEF WorkerState

LEMMA Requeued ==
  ASSUME TypeOK, NEW d \in Docs, NEW n \in 0 .. MaxRetries, NEW k \in Nat,
         queued' = [queued EXCEPT ![d][n] = k]
  PROVE  queued' \in [Docs -> [0 .. MaxRetries -> Nat]]
<1> DEFINE f == [queued[d] EXCEPT ![n] = k]
<1>1. queued \in [Docs -> [0 .. MaxRetries -> Nat]] /\ f \in [0 .. MaxRetries -> Nat]
  BY DEF TypeOK
<1>2. queued' = [queued EXCEPT ![d] = f]
  OBVIOUS
<1> HIDE DEF f
<1> QED
  BY <1>1, <1>2

LEMMA OneMore ==
  ASSUME TypeOK, NEW d \in Docs, NEW n \in 0 .. MaxRetries,
         queued' = [queued EXCEPT ![d][n] = @ + 1]
  PROVE  queued' \in [Docs -> [0 .. MaxRetries -> Nat]]
<1>0. queued[d][n] \in Nat
  BY DEF TypeOK
<1>1. queued[d][n] + 1 \in Nat
  BY <1>0
<1>2. queued' = [queued EXCEPT ![d][n] = queued[d][n] + 1]
  OBVIOUS
<1> QED
  BY <1>1, <1>2, Requeued

LEMMA OneLess ==
  ASSUME TypeOK, NEW d \in Docs, NEW n \in 0 .. MaxRetries, queued[d][n] > 0,
         queued' = [queued EXCEPT ![d][n] = @ - 1]
  PROVE  queued' \in [Docs -> [0 .. MaxRetries -> Nat]]
<1>0. queued[d][n] \in Nat
  BY DEF TypeOK
<1>1. queued[d][n] - 1 \in Nat
  BY <1>0
<1>2. queued' = [queued EXCEPT ![d][n] = queued[d][n] - 1]
  OBVIOUS
<1> QED
  BY <1>1, <1>2, Requeued

LEMMA RecordsSame ==
  ASSUME TypeOK, WorkerOK, worker' = worker
  PROVE  worker' \in [Workers -> WorkerState] /\ WorkerOK'
  BY DEF TypeOK, WorkerOK, InHand

LEMMA TypedInit == Init => Typed
  BY IngestionAssumption, IdleType, NothingType DEF Init, Typed, TypeOK, WorkerOK, InHand, Idle

LEMMA TypedNext == Typed /\ [Next]_vars => Typed'
<1> SUFFICES ASSUME Typed, [Next]_vars PROVE Typed'
  OBVIOUS
<1> USE IngestionAssumption, NothingType DEF Typed
<1>1. ASSUME NEW d \in Docs, NEW kind \in {"upload", "url"}, CheckHash(d, kind) PROVE Typed'
  <2>1. worker' \in [Workers -> WorkerState] /\ WorkerOK'
    BY <1>1, RecordsSame DEF CheckHash
  <2> QED
    BY <1>1, <2>1 DEF CheckHash, TypeOK, WorkerOK, InHand, Cleared, RunRemoved, rows, files, history, Fault
<1>2. ASSUME NEW d \in Docs, NEW c \in Contents, StoreRaw(d, c) PROVE Typed'
  <2>1. worker' \in [Workers -> WorkerState] /\ WorkerOK'
    BY <1>2, RecordsSame DEF StoreRaw
  <2> QED
    BY <1>2, <2>1 DEF StoreRaw, TypeOK, WorkerOK, InHand, Cleared, RunRemoved, rows, files, history, Fault
<1>3. ASSUME NEW d \in Docs, CreateDoc(d) PROVE Typed'
  <2>1. worker' \in [Workers -> WorkerState] /\ WorkerOK'
    BY <1>3, RecordsSame DEF CreateDoc
  <2> QED
    BY <1>3, <2>1 DEF CreateDoc, TypeOK, WorkerOK, InHand, Cleared, RunRemoved, rows, files, history, Fault
<1>4. ASSUME NEW d \in Docs, CreateRun(d) PROVE Typed'
  <2>1. worker' \in [Workers -> WorkerState] /\ WorkerOK'
    BY <1>4, RecordsSame DEF CreateRun
  <2> QED
    BY <1>4, <2>1 DEF CreateRun, TypeOK, WorkerOK, InHand, Cleared, RunRemoved, rows, files, history, Fault
<1>5. ASSUME NEW d \in Docs, PublishTask(d) PROVE Typed'
  <2>1. worker' \in [Workers -> WorkerState] /\ WorkerOK'
    BY <1>5, RecordsSame DEF PublishTask
  <2> QED
    BY <1>5, <2>1 DEF PublishTask, TypeOK, WorkerOK, InHand, Cleared, RunRemoved, rows, files, history, Fault
<1>6. ASSUME NEW d \in Docs, BeginRemove(d) PROVE Typed'
  <2>1. worker' \in [Workers -> WorkerState] /\ WorkerOK'
    BY <1>6, RecordsSame DEF BeginRemove
  <2> QED
    BY <1>6, <2>1 DEF BeginRemove, TypeOK, WorkerOK, InHand, Cleared, RunRemoved, rows, files, history, Fault
<1>7. ASSUME NEW d \in Docs, RemoveChunks(d) PROVE Typed'
  <2>1. worker' \in [Workers -> WorkerState] /\ WorkerOK'
    BY <1>7, RecordsSame DEF RemoveChunks
  <2> QED
    BY <1>7, <2>1 DEF RemoveChunks, TypeOK, WorkerOK, InHand, Cleared, RunRemoved, rows, files, history, Fault
<1>8. ASSUME NEW d \in Docs, RemoveRuns(d) PROVE Typed'
  <2>1. worker' \in [Workers -> WorkerState] /\ WorkerOK'
    BY <1>8, RecordsSame DEF RemoveRuns
  <2> QED
    BY <1>8, <2>1 DEF RemoveRuns, TypeOK, WorkerOK, InHand, Cleared, RunRemoved, rows, files, history, Fault
<1>9. ASSUME NEW d \in Docs, RemoveDoc(d) PROVE Typed'
  <2>1. worker' \in [Workers -> WorkerState] /\ WorkerOK'
    BY <1>9, RecordsSame DEF RemoveDoc
  <2> QED
    BY <1>9, <2>1 DEF RemoveDoc, TypeOK, WorkerOK, InHand, Cleared, RunRemoved, rows, files, history, Fault
<1>10. ASSUME NEW d \in Docs, RemoveRaw(d) PROVE Typed'
  <2>1. worker' \in [Workers -> WorkerState] /\ WorkerOK'
    BY <1>10, RecordsSame DEF RemoveRaw
  <2> QED
    BY <1>10, <2>1 DEF RemoveRaw, TypeOK, WorkerOK, InHand, Cleared, RunRemoved, rows, files, history, Fault
<1>11. ASSUME NEW d \in Docs, RemoveParsed(d) PROVE Typed'
  <2>1. worker' \in [Workers -> WorkerState] /\ WorkerOK'
    BY <1>11, RecordsSame DEF RemoveParsed
  <2> QED
    BY <1>11, <2>1 DEF RemoveParsed, TypeOK, WorkerOK, InHand, Cleared, RunRemoved, rows, files, history, Fault
<1>12. ASSUME NEW d \in Docs, NEW w \in Workers, NEW n \in 0 .. MaxRetries, TakeTask(w, d, n) PROVE Typed'
  <2> DEFINE r == [pc |-> "start", doc |-> d, content |-> NoContent, at |-> 0, retries |-> n,
                   verdict |-> "none"]
  <2>1. r \in WorkerState /\ InHand(r)
    BY <1>12 DEF WorkerState, InHand
  <2>2. worker' = [worker EXCEPT ![w] = r]
    BY <1>12 DEF TakeTask
  <2> HIDE DEF r
  <2>3. worker' \in [Workers -> WorkerState] /\ WorkerOK'
    BY <2>1, <2>2, RecordUpdate DEF TypeOK
  <2>4. queued' \in [Docs -> [0 .. MaxRetries -> Nat]]
    BY <1>12, OneLess DEF TakeTask
  <2> QED
    BY <1>12, <2>3, <2>4 DEF TakeTask, TypeOK, rows, files, history, Fault
<1>13. ASSUME NEW w \in Workers, MarkRunning(w) PROVE Typed'
  <2>1. worker[w] \in WorkerState /\ InHand(worker[w]) /\ worker[w].doc \in Docs
    BY <1>13 DEF MarkRunning, TypeOK, WorkerOK, InHand
  <2>2. CASE RunExists(worker[w].doc)
    <3> DEFINE r == [worker[w] EXCEPT !.pc = "load"]
    <3>1. r \in WorkerState /\ InHand(r)
      BY <1>13, <2>1, SetPc DEF MarkRunning, InHand, Pcs
    <3>2. worker' = [worker EXCEPT ![w] = r]
      BY <1>13, <2>2 DEF MarkRunning, Go
    <3> HIDE DEF r
    <3>3. worker' \in [Workers -> WorkerState] /\ WorkerOK'
      BY <3>1, <3>2, RecordUpdate DEF TypeOK
    <3> QED
      BY <1>13, <2>1, <2>2, <3>3 DEF MarkRunning, Go, TypeOK, rows, files, history, Fault
  <2>3. CASE ~(RunExists(worker[w].doc))
    <3>1. worker' \in [Workers -> WorkerState] /\ WorkerOK'
      BY <1>13, <2>3, ToIdle DEF MarkRunning, Raise
    <3> QED
      BY <1>13, <2>1, <2>3, <3>1 DEF MarkRunning, Raise, TypeOK, rows, files, history, Fault
  <2> QED
    BY <2>2, <2>3
<1>14. ASSUME NEW w \in Workers, LoadDoc(w) PROVE Typed'
  <2>1. worker[w] \in WorkerState /\ InHand(worker[w]) /\ worker[w].doc \in Docs
    BY <1>14 DEF LoadDoc, TypeOK, WorkerOK, InHand
  <2>2. CASE Exists(worker[w].doc)
    <3> DEFINE r == [worker[w] EXCEPT !.pc = "read"]
    <3>1. r \in WorkerState /\ InHand(r)
      BY <1>14, <2>1, SetPc DEF LoadDoc, InHand, Pcs
    <3>2. worker' = [worker EXCEPT ![w] = r]
      BY <1>14, <2>2 DEF LoadDoc, Go
    <3> HIDE DEF r
    <3>3. worker' \in [Workers -> WorkerState] /\ WorkerOK'
      BY <3>1, <3>2, RecordUpdate DEF TypeOK
    <3> QED
      BY <1>14, <2>1, <2>2, <3>3 DEF LoadDoc, Go, TypeOK, rows, files, history, Fault
  <2>3. CASE ~(Exists(worker[w].doc))
    <3>1. worker' \in [Workers -> WorkerState] /\ WorkerOK'
      BY <1>14, <2>3, ToIdle DEF LoadDoc, Raise
    <3> QED
      BY <1>14, <2>1, <2>3, <3>1 DEF LoadDoc, Raise, TypeOK, rows, files, history, Fault
  <2> QED
    BY <2>2, <2>3
<1>15. ASSUME NEW w \in Workers, NEW c \in Contents \union {NoContent}, ReadSource(w, c) PROVE Typed'
  <2> DEFINE d == worker[w].doc
             web == source[d] = "url"
             got == IF web THEN c ELSE raw[d]
  <2>1. worker[w] \in WorkerState /\ InHand(worker[w]) /\ d \in Docs
    BY <1>15 DEF ReadSource, TypeOK, WorkerOK, InHand
  <2>2. got \in Contents \union {NoContent} /\ raw' \in [Docs -> Contents \union {NoContent}]
    BY <1>15, <2>1 DEF ReadSource, TypeOK
  <2>3. CASE got = NoContent /\ ~web
    <3>1. worker' \in [Workers -> WorkerState] /\ WorkerOK'
      BY <1>15, <2>3, ToIdle DEF ReadSource, Raise
    <3> QED
      BY <1>15, <2>1, <2>2, <2>3, <3>1 DEF ReadSource, Raise, TypeOK, rows, files, history, Fault
  <2>4. CASE ~(got = NoContent /\ ~web)
    <3> DEFINE r == IF got \in Bad \union {NoContent}
                    THEN [worker[w] EXCEPT !.pc = "run", !.verdict = "failed"]
                    ELSE [worker[w] EXCEPT !.pc = "store", !.content = got]
    <3> HIDE DEF got
    <3>1. r \in WorkerState /\ InHand(r)
      <4>1. CASE got \in Bad \union {NoContent}
        <5>1. /\ r \in WorkerState /\ r.pc = "run" /\ r.doc = worker[w].doc /\ r.verdict = "failed"
          BY <2>1, <4>1 DEF WorkerState
        <5> HIDE DEF r
        <5> QED
          BY <2>1, <5>1 DEF InHand
      <4>2. CASE got \notin Bad \union {NoContent}
        <5>1. got \in Contents \ Bad
          BY <2>2, <4>2
        <5>2. /\ r \in WorkerState /\ r.pc = "store" /\ r.doc = worker[w].doc /\ r.content = got
          BY <2>1, <4>2, <5>1 DEF WorkerState
        <5> HIDE DEF r
        <5> QED
          BY <2>1, <5>1, <5>2 DEF InHand
      <4> QED
        BY <4>1, <4>2
    <3>2. worker' = [worker EXCEPT ![w] = r]
      BY <1>15, <2>4 DEF ReadSource, got, TypeOK
    <3> HIDE DEF r
    <3>3. worker' \in [Workers -> WorkerState] /\ WorkerOK'
      BY <3>1, <3>2, RecordUpdate DEF TypeOK
    <3> QED
      BY <1>15, <2>1, <2>2, <2>4, <3>3 DEF ReadSource, got, TypeOK, rows, files, history, Fault
  <2> QED
    BY <2>3, <2>4
<1>16. ASSUME NEW w \in Workers, StoreParsed(w) PROVE Typed'
  <2>1. worker[w] \in WorkerState /\ InHand(worker[w])
    BY <1>16 DEF TypeOK, WorkerOK
  <2> DEFINE r == [worker[w] EXCEPT !.pc = "embed"]
  <2>2. r \in WorkerState /\ InHand(r)
    BY <1>16, <2>1, SetPc DEF StoreParsed, InHand, Pcs
  <2>3. worker' = [worker EXCEPT ![w] = r]
    BY <1>16 DEF StoreParsed, Go
  <2> HIDE DEF r
  <2>4. worker' \in [Workers -> WorkerState] /\ WorkerOK'
    BY <2>2, <2>3, RecordUpdate DEF TypeOK
  <2> QED
    BY <1>16, <2>1, <2>4 DEF StoreParsed, InHand, TypeOK, rows, files, history, Fault
<1>17. ASSUME NEW w \in Workers, NEW ok \in BOOLEAN, Embed(w, ok) PROVE Typed'
  <2> DEFINE q == IF ok THEN AfterEmbedding(worker[w].content).pc ELSE "run"
             v == IF ok THEN AfterEmbedding(worker[w].content).verdict ELSE "failed"
             r == [worker[w] EXCEPT !.pc = q, !.verdict = v]
  <2>1. worker[w] \in WorkerState /\ InHand(worker[w])
    BY DEF TypeOK, WorkerOK
  <2>2. worker' = [worker EXCEPT ![w] = r]
    BY <1>17 DEF Embed, TypeOK
  <2>3. worker[w].pc = "embed" /\ worker[w].content \in Contents \ Bad /\ worker[w].doc \in Docs
    BY <1>17, <2>1 DEF Embed, InHand
  <2>4. \/ q = "run" /\ v \in {"succeeded", "failed"}
        \/ q = "clear" /\ v = "none" /\ Size[worker[w].content] > 0
    BY <2>3 DEF AfterEmbedding
  <2> HIDE DEF q, v
  <2>5. r \in WorkerState /\ InHand(r)
    <3>1. /\ r \in WorkerState /\ r.pc = q /\ r.doc = worker[w].doc /\ r.verdict = v
          /\ r.content = worker[w].content
      BY <2>1, <2>4 DEF WorkerState
    <3> HIDE DEF r
    <3> QED
      BY <2>3, <2>4, <3>1 DEF InHand
  <2> HIDE DEF r
  <2>6. worker' \in [Workers -> WorkerState] /\ WorkerOK'
    BY <2>2, <2>5, RecordUpdate DEF TypeOK
  <2> QED
    BY <1>17, <2>6 DEF Embed, TypeOK, rows, files, history, Fault
<1>18. ASSUME NEW w \in Workers, EmbedError(w) PROVE Typed'
  <2>1. worker[w] \in WorkerState /\ InHand(worker[w])
    BY DEF TypeOK, WorkerOK
  <2>2. worker[w].doc \in Docs /\ worker[w].retries \in 0 .. MaxRetries
    BY <1>18, <2>1, Fields DEF EmbedError, InHand
  <2>3. CASE worker[w].retries < MaxRetries
    <3>1. worker[w].retries + 1 \in 0 .. MaxRetries
      BY <2>2, <2>3
    <3>2. queued' \in [Docs -> [0 .. MaxRetries -> Nat]]
      BY <1>18, <2>2, <2>3, <3>1, OneMore DEF EmbedError
    <3>3. worker' \in [Workers -> WorkerState] /\ WorkerOK'
      BY <1>18, <2>3, ToIdle DEF EmbedError
    <3> QED
      BY <1>18, <3>2, <3>3 DEF EmbedError, TypeOK, rows, files, history, Fault
  <2>4. CASE ~(worker[w].retries < MaxRetries)
    <3> DEFINE r == [worker[w] EXCEPT !.pc = "run", !.verdict = "failed"]
    <3>1. r \in WorkerState /\ InHand(r)
      <4>1. /\ r \in WorkerState /\ r.pc = "run" /\ r.doc = worker[w].doc /\ r.verdict = "failed"
        BY <2>1 DEF WorkerState
      <4> HIDE DEF r
      <4> QED
        BY <2>2, <4>1 DEF InHand
    <3>2. worker' = [worker EXCEPT ![w] = r] /\ queued' = queued
      BY <1>18, <2>4 DEF EmbedError, TypeOK
    <3> HIDE DEF r
    <3>3. worker' \in [Workers -> WorkerState] /\ WorkerOK'
      BY <3>1, <3>2, RecordUpdate DEF TypeOK
    <3> QED
      BY <1>18, <3>2, <3>3 DEF EmbedError, TypeOK, rows, files, history, Fault
  <2> QED
    BY <2>3, <2>4
<1>19. ASSUME NEW w \in Workers, ClearChunks(w) PROVE Typed'
  <2> DEFINE r == [worker[w] EXCEPT !.pc = "insert", !.at = 1]
  <2>1. worker[w] \in WorkerState /\ InHand(worker[w])
    BY DEF TypeOK, WorkerOK
  <2>2. worker[w].content \in Contents \ Bad /\ Size[worker[w].content] > 0 /\ worker[w].doc \in Docs
    BY <1>19, <2>1 DEF ClearChunks, InHand
  <2>3. 1 \in 1 .. Size[worker[w].content]
    BY <2>2
  <2>4. r \in WorkerState /\ InHand(r)
    <3>1. /\ r \in WorkerState /\ r.pc = "insert" /\ r.doc = worker[w].doc /\ r.at = 1
          /\ r.content = worker[w].content
      BY <2>1 DEF WorkerState
    <3> HIDE DEF r
    <3> QED
      BY <2>2, <2>3, <3>1 DEF InHand
  <2>5. worker' = [worker EXCEPT ![w] = r]
    BY <1>19 DEF ClearChunks, TypeOK
  <2> HIDE DEF r
  <2>6. worker' \in [Workers -> WorkerState] /\ WorkerOK'
    BY <2>4, <2>5, RecordUpdate DEF TypeOK
  <2> QED
    BY <1>19, <2>2, <2>6 DEF ClearChunks, Cleared, TypeOK, rows, files, history, Fault
<1>20. ASSUME NEW w \in Workers, InsertChunk(w) PROVE Typed'
  <2> DEFINE d == worker[w].doc
             i == worker[w].at
             n == Size[worker[w].content]
  <2>1. worker[w] \in WorkerState /\ InHand(worker[w])
    BY DEF TypeOK, WorkerOK
  <2>2. /\ worker[w].pc = "insert" /\ d \in Docs /\ worker[w].content \in Contents \ Bad
        /\ n \in 0 .. MaxChunks /\ i \in 1 .. n
    BY <1>20, <2>1 DEF InsertChunk, InHand
  <2>3. CASE Exists(d) /\ chunks[d][i] = NoContent
    <3>1. i \in Chunk
      BY <2>2 DEF Chunk
    <3>2. chunks' \in [Docs -> [Chunk -> Contents \union {NoContent}]]
      <4> DEFINE f == [chunks[d] EXCEPT ![i] = worker[w].content]
      <4>1. chunks \in [Docs -> [Chunk -> Contents \union {NoContent}]]
        BY DEF TypeOK
      <4>2. f \in [Chunk -> Contents \union {NoContent}]
        BY <2>2, <3>1, <4>1
      <4>3. chunks' = [chunks EXCEPT ![d] = f]
        BY <1>20, <2>3 DEF InsertChunk
      <4> HIDE DEF f
      <4> QED
        BY <2>2, <4>1, <4>2, <4>3
    <3> DEFINE r == IF i >= n THEN [worker[w] EXCEPT !.pc = "run", !.at = 0, !.verdict = "succeeded"]
                    ELSE [worker[w] EXCEPT !.at = i + 1]
    <3>3. r \in WorkerState /\ InHand(r)
      <4>1. CASE i >= n
        <5>1. /\ r \in WorkerState /\ r.pc = "run" /\ r.doc = d /\ r.verdict = "succeeded"
          BY <2>1, <4>1 DEF WorkerState
        <5> HIDE DEF r
        <5> QED
          BY <2>2, <5>1 DEF InHand
      <4>2. CASE ~(i >= n)
        <5>1. i + 1 \in 1 .. n /\ i + 1 \in Nat
          BY <2>2, <4>2
        <5> QED
          BY <2>1, <2>2, <4>2, <5>1, NextAt DEF InHand
      <4> QED
        BY <4>1, <4>2
    <3>4. worker' = [worker EXCEPT ![w] = r]
      BY <1>20, <2>3 DEF InsertChunk, LastChunk, TypeOK
    <3> HIDE DEF r
    <3>5. worker' \in [Workers -> WorkerState] /\ WorkerOK'
      BY <3>3, <3>4, RecordUpdate DEF TypeOK
    <3> QED
      BY <1>20, <2>3, <3>2, <3>5 DEF InsertChunk, TypeOK, rows, files, history, Fault
  <2>4. CASE ~(Exists(d) /\ chunks[d][i] = NoContent)
    <3>1. worker' \in [Workers -> WorkerState] /\ WorkerOK'
      BY <1>20, <2>4, ToIdle DEF InsertChunk, Raise
    <3> QED
      BY <1>20, <2>2, <2>4, <3>1 DEF InsertChunk, Raise, TypeOK, rows, files, history, Fault
  <2> QED
    BY <2>3, <2>4
<1>21. ASSUME NEW w \in Workers, FinishRun(w) PROVE Typed'
  <2>1. worker[w] \in WorkerState /\ InHand(worker[w]) /\ worker[w].doc \in Docs
    BY <1>21 DEF FinishRun, TypeOK, WorkerOK, InHand
  <2>2. CASE RunExists(worker[w].doc)
    <3> DEFINE r == [worker[w] EXCEPT !.pc = "doc"]
    <3>1. r \in WorkerState /\ InHand(r)
      BY <1>21, <2>1, SetPc DEF FinishRun, InHand, Pcs
    <3>2. worker' = [worker EXCEPT ![w] = r]
      BY <1>21, <2>2 DEF FinishRun, Go
    <3> HIDE DEF r
    <3>3. worker' \in [Workers -> WorkerState] /\ WorkerOK'
      BY <3>1, <3>2, RecordUpdate DEF TypeOK
    <3> QED
      <4>1. worker[w].verdict \in {"succeeded", "failed"}
        BY <1>21, <2>1, Fields DEF FinishRun, InHand
      <4>2. run' = [run EXCEPT ![worker[w].doc] = worker[w].verdict] /\ raised' = raised
        BY <1>21, <2>2 DEF FinishRun
      <4>3. run' \in [Docs -> {"none", "queued", "running", "succeeded", "failed", "gone"}]
        BY <4>1, <4>2 DEF TypeOK
      <4> QED
        BY <1>21, <3>3, <4>2, <4>3 DEF FinishRun, TypeOK, files
  <2>3. CASE ~(RunExists(worker[w].doc))
    <3>1. worker' \in [Workers -> WorkerState] /\ WorkerOK'
      BY <1>21, <2>3, ToIdle DEF FinishRun, Raise
    <3> QED
      BY <1>21, <2>1, <2>3, <3>1 DEF FinishRun, Raise, TypeOK, rows, files, history, Fault
  <2> QED
    BY <2>2, <2>3
<1>22. ASSUME NEW w \in Workers, FinishDoc(w) PROVE Typed'
  <2> DEFINE d == worker[w].doc
  <2>1. worker[w] \in WorkerState /\ InHand(worker[w]) /\ d \in Docs /\ worker[w].retries \in 0 .. MaxRetries
    BY <1>22, Fields DEF FinishDoc, TypeOK, WorkerOK, InHand
  <2>2. CASE Exists(d)
    <3> DEFINE r == [pc |-> "ack", doc |-> d, content |-> NoContent, at |-> 0,
                     retries |-> worker[w].retries, verdict |-> "none"]
    <3>1. r \in WorkerState /\ InHand(r)
      BY <2>1 DEF WorkerState, InHand
    <3>2. worker' = [worker EXCEPT ![w] = r]
      BY <1>22, <2>2 DEF FinishDoc
    <3> HIDE DEF r
    <3>3. worker' \in [Workers -> WorkerState] /\ WorkerOK'
      BY <3>1, <3>2, RecordUpdate DEF TypeOK
    <3> QED
      BY <1>22, <2>2, <3>3 DEF FinishDoc, DocVerdict, TypeOK, rows, files, history, Fault
  <2>3. CASE ~Exists(d)
    <3>1. worker' \in [Workers -> WorkerState] /\ WorkerOK'
      BY <1>22, <2>3, ToIdle DEF FinishDoc, Raise
    <3> QED
      BY <1>22, <2>1, <2>3, <3>1 DEF FinishDoc, Raise, TypeOK, rows, files, history, Fault
  <2> QED
    BY <2>2, <2>3
<1>23. ASSUME NEW w \in Workers, Acknowledge(w) PROVE Typed'
  <2>1. worker' \in [Workers -> WorkerState] /\ WorkerOK'
    BY <1>23, ToIdle DEF Acknowledge
  <2> QED
    BY <1>23, <2>1 DEF Acknowledge, TypeOK, rows, files, history, Fault
<1>24. ASSUME NEW w \in Workers, LoseWorker(w) PROVE Typed'
  <2>1. worker[w] \in WorkerState /\ worker[w].doc \in Docs /\ worker[w].retries \in 0 .. MaxRetries
    BY <1>24, Fields DEF LoseWorker, TypeOK, WorkerOK, InHand
  <2>2. worker' \in [Workers -> WorkerState] /\ WorkerOK'
    BY <1>24, ToIdle DEF LoseWorker
  <2>3. queued' \in [Docs -> [0 .. MaxRetries -> Nat]]
    BY <1>24, <2>1, OneMore DEF LoseWorker
  <2> QED
    BY <1>24, <2>1, <2>2, <2>3 DEF LoseWorker, TypeOK, rows, files, history, Fault
<1>25. ASSUME NEW w \in Workers, Redeliver(w) PROVE Typed'
  <2>1. worker[w] \in WorkerState /\ worker[w].doc \in Docs /\ worker[w].retries \in 0 .. MaxRetries
    BY <1>25, Fields DEF Redeliver, TypeOK, WorkerOK, InHand
  <2>2. worker' \in [Workers -> WorkerState] /\ WorkerOK'
    BY <1>25, RecordsSame DEF Redeliver
  <2>3. queued' \in [Docs -> [0 .. MaxRetries -> Nat]]
    BY <1>25, <2>1, OneMore DEF Redeliver
  <2> QED
    BY <1>25, <2>1, <2>2, <2>3 DEF Redeliver, TypeOK, rows, files, history, Fault
<1>26. ASSUME NEW w \in Workers, TaskFault(w) PROVE Typed'
  <2>1. worker' \in [Workers -> WorkerState] /\ WorkerOK'
    BY <1>26, ToIdle DEF TaskFault, Raise
  <2>2. worker[w].doc \in Docs
    BY <1>26 DEF TaskFault, TypeOK, WorkerOK, InHand
  <2> QED
    BY <1>26, <2>1, <2>2 DEF TaskFault, Raise, TypeOK, rows, files, history, Fault
<1>27. ASSUME NEW d \in Docs, UploadFault(d) PROVE Typed'
  <2>1. worker' \in [Workers -> WorkerState] /\ WorkerOK'
    BY <1>27, RecordsSame DEF UploadFault
  <2> QED
    BY <1>27, <2>1 DEF UploadFault, TypeOK, WorkerOK, InHand, Cleared, RunRemoved, rows, files, history, Fault
<1>28. ASSUME NEW d \in Docs, RemoveFault(d) PROVE Typed'
  <2>1. worker' \in [Workers -> WorkerState] /\ WorkerOK'
    BY <1>28, RecordsSame DEF RemoveFault
  <2> QED
    BY <1>28, <2>1 DEF RemoveFault, TypeOK, WorkerOK, InHand, Cleared, RunRemoved, rows, files, history, Fault
<1>29. ASSUME NEW d \in Docs, StorageFault(d) PROVE Typed'
  <2>1. worker' \in [Workers -> WorkerState] /\ WorkerOK'
    BY <1>29, RecordsSame DEF StorageFault
  <2> QED
    BY <1>29, <2>1 DEF StorageFault, TypeOK, WorkerOK, InHand, Cleared, RunRemoved, rows, files, history, Fault
<1>30. CASE UNCHANGED vars
  BY <1>30, RecordsSame DEF vars, rows, files, history, TypeOK
<1> QED
  BY <1>1, <1>2, <1>3, <1>4, <1>5, <1>6, <1>7, <1>8, <1>9, <1>10, <1>11, <1>12, <1>13, <1>14, <1>15, <1>16, <1>17, <1>18, <1>19, <1>20, <1>21, <1>22, <1>23, <1>24, <1>25, <1>26, <1>27, <1>28, <1>29, <1>30 DEF Next, UploadStep, RemoveStep, WorkStep, Take, FaultStep

(* Every reachable state is well typed.                                      *)
THEOREM TypeCorrect == Spec => []TypeOK
<1>1. Init => Typed
  BY TypedInit
<1>2. Typed /\ [Next]_vars => Typed'
  BY TypedNext
<1>3. Typed => TypeOK
  BY DEF Typed
<1> QED
  BY <1>1, <1>2, <1>3, PTL DEF Spec

-----------------------------------------------------------------------------
(* Deletion.  While a deletion nothing has crossed is under way, and after   *)
(* it, no request and no worker is at the document, except workers that have *)
(* only just taken a message left in the queue; what the deletion has        *)
(* already removed therefore stays removed.                                  *)

Begun(d) == remover[d] \in {"chunks", "runs", "doc", "raw", "parsed", "done"}

Undisturbed(d) ==
  /\ doc[d] # "none" => upload[d] \in {"inserted", "logged", "done", "dead"}
  /\ Begun(d) => doc[d] # "none"
  /\ Begun(d) /\ d \notin crossed =>
       /\ upload[d] \in {"done", "dead"}
       /\ \A w \in Workers : Holds(w, d) => remover[d] = "done" /\ worker[w].pc = "start"
       /\ remover[d] \in {"runs", "doc", "raw", "parsed", "done"} => chunks[d] = Nothing
       /\ remover[d] \in {"doc", "raw", "parsed", "done"} => ~RunExists(d)
       /\ remover[d] \in {"raw", "parsed", "done"} => ~Exists(d)
       /\ remover[d] \in {"parsed", "done"} => raw[d] = NoContent
       /\ remover[d] = "done" => parsed[d] = NoContent

Tidy == \A d \in Docs : Undisturbed(d)

LEMMA TidyInit == Init => Tidy
  BY DEF Init, Tidy, Undisturbed, Begun

(* A worker past the start of its task is at no document whose undisturbed   *)
(* deletion has begun,                                                       *)
LEMMA AtWork ==
  ASSUME Typed, Tidy, NEW w \in Workers, worker[w].pc \notin {"idle", "start"}
  PROVE  worker[w].doc \in Docs /\ ~(Begun(worker[w].doc) /\ worker[w].doc \notin crossed)
  BY DEF Typed, WorkerOK, InHand, Tidy, Undisturbed, Holds

(* so that it may do what it likes there.                                    *)
LEMMA Elsewhere ==
  ASSUME Typed, Tidy, NEW w \in Workers, NEW r,
         worker' = [worker EXCEPT ![w] = r], r.doc \in {worker[w].doc, NoDoc},
         worker[w].doc \in Docs,
         ~(Begun(worker[w].doc) /\ worker[w].doc \notin crossed),
         upload' = upload, remover' = remover, crossed' = crossed,
         doc'[worker[w].doc] # "none" <=> doc[worker[w].doc] # "none",
         \A d \in Docs \ {worker[w].doc} :
           /\ doc'[d] = doc[d] /\ run'[d] = run[d] /\ chunks'[d] = chunks[d]
           /\ raw'[d] = raw[d] /\ parsed'[d] = parsed[d]
  PROVE  Tidy'
<1> SUFFICES ASSUME NEW d \in Docs PROVE Undisturbed(d)'
  BY DEF Tidy
<1>1. Undisturbed(d) /\ worker \in [Workers -> WorkerState]
  BY DEF Tidy, Typed, TypeOK
<1>2. CASE d = worker[w].doc
  BY <1>1, <1>2 DEF Undisturbed, Begun
<1>3. CASE d # worker[w].doc
  <2>1. \A v \in Workers : Holds(v, d)' => v # w /\ worker'[v] = worker[v] /\ Holds(v, d)
    BY <1>1, <1>3, IngestionAssumption DEF Holds
  <2> QED
    BY <1>1, <1>3, <2>1 DEF Undisturbed, Begun, Exists, RunExists
<1> QED
  BY <1>2, <1>3

LEMMA LetGo ==
  ASSUME Typed, Tidy, NEW w \in Workers, worker' = [worker EXCEPT ![w] = Idle],
         upload' = upload, remover' = remover, crossed' = crossed,
         doc' = doc, run' = run, chunks' = chunks, raw' = raw, parsed' = parsed
  PROVE  Tidy'
<1> SUFFICES ASSUME NEW d \in Docs PROVE Undisturbed(d)'
  BY DEF Tidy
<1>1. Undisturbed(d) /\ worker \in [Workers -> WorkerState]
  BY DEF Tidy, Typed, TypeOK
<1>2. \A v \in Workers : Holds(v, d)' => v # w /\ worker'[v] = worker[v] /\ Holds(v, d)
  BY <1>1, IngestionAssumption DEF Holds, Idle
<1> QED
  BY <1>1, <1>2 DEF Undisturbed, Begun, Exists, RunExists

LEMMA TidyNext == Typed /\ Tidy /\ [Next]_vars => Tidy'
<1> SUFFICES ASSUME Typed, Tidy, [Next]_vars PROVE Tidy'
  OBVIOUS
<1> USE IngestionAssumption DEF Typed, Tidy, Undisturbed, Begun, Holds, Exists, RunExists
<1>1. ASSUME NEW d \in Docs, NEW kind \in {"upload", "url"}, CheckHash(d, kind) PROVE Tidy'
  BY <1>1 DEF CheckHash, TypeOK, WorkerOK, InHand, Idle, Cleared, RunRemoved, Held, Uploading, Removing, Raise, Go, rows, files, history, Fault
<1>2. ASSUME NEW d \in Docs, NEW c \in Contents, StoreRaw(d, c) PROVE Tidy'
  BY <1>2 DEF StoreRaw, TypeOK, WorkerOK, InHand, Idle, Cleared, RunRemoved, Held, Uploading, Removing, Raise, Go, rows, files, history, Fault
<1>3. ASSUME NEW d \in Docs, CreateDoc(d) PROVE Tidy'
  <2>0. upload[d] \in {"checked", "stored"}
    BY <1>3 DEF CreateDoc
  <2>3. doc[d] = "none" /\ (Begun(d) => doc[d] # "none")
    BY <2>0
  <2>4. /\ upload'[d] \in {"inserted", "done"}
        /\ doc'[d] # "none" => upload'[d] = "inserted"
        /\ \A e \in Docs \ {d} : upload'[e] = upload[e] /\ doc'[e] = doc[e]
    <3>1. CASE SameHash(d, source[d]) = {}
      BY <1>3, <3>1 DEF CreateDoc, TypeOK
    <3>2. CASE SameHash(d, source[d]) # {}
      BY <1>3, <3>2, <2>3 DEF CreateDoc, TypeOK
    <3> QED
      BY <3>1, <3>2
  <2>2. UNCHANGED <<run, chunks, raw, parsed, remover, worker, crossed>>
    BY <1>3 DEF CreateDoc, files, history
  <2> QED
    BY <2>2, <2>3, <2>4
<1>4. ASSUME NEW d \in Docs, CreateRun(d) PROVE Tidy'
  BY <1>4 DEF CreateRun, TypeOK, WorkerOK, InHand, Idle, Cleared, RunRemoved, Held, Uploading, Removing, Raise, Go, rows, files, history, Fault
<1>5. ASSUME NEW d \in Docs, PublishTask(d) PROVE Tidy'
  BY <1>5 DEF PublishTask, TypeOK, WorkerOK, InHand, Idle, Cleared, RunRemoved, Held, Uploading, Removing, Raise, Go, rows, files, history, Fault
<1>6. ASSUME NEW d \in Docs, BeginRemove(d) PROVE Tidy'
  BY <1>6 DEF BeginRemove, TypeOK, WorkerOK, InHand, Idle, Cleared, RunRemoved, Held, Uploading, Removing, Raise, Go, rows, files, history, Fault
<1>7. ASSUME NEW d \in Docs, RemoveChunks(d) PROVE Tidy'
  BY <1>7 DEF RemoveChunks, TypeOK, WorkerOK, InHand, Idle, Cleared, RunRemoved, Held, Uploading, Removing, Raise, Go, rows, files, history, Fault
<1>8. ASSUME NEW d \in Docs, RemoveRuns(d) PROVE Tidy'
  BY <1>8 DEF RemoveRuns, TypeOK, WorkerOK, InHand, Idle, Cleared, RunRemoved, Held, Uploading, Removing, Raise, Go, rows, files, history, Fault
<1>9. ASSUME NEW d \in Docs, RemoveDoc(d) PROVE Tidy'
  <2>1. /\ remover[d] = "doc" /\ remover'[d] = "raw" /\ doc'[d] = "gone" /\ chunks'[d] = Nothing
        /\ \A e \in Docs \ {d} : remover'[e] = remover[e] /\ doc'[e] = doc[e] /\ chunks'[e] = chunks[e]
    BY <1>9 DEF RemoveDoc, Cleared, TypeOK
  <2>2. UNCHANGED <<run, raw, parsed, upload, worker, crossed>>
    BY <1>9 DEF RemoveDoc, files, history
  <2>3. doc[d] # "none" => upload[d] \in {"inserted", "logged", "done", "dead"}
    OBVIOUS
  <2>4. ASSUME NEW e \in Docs PROVE Undisturbed(e)'
    <3>1. CASE e = d
      <4>1. Undisturbed(d) /\ (d \notin crossed => ~RunExists(d) /\ \A w \in Workers : ~Holds(w, d))
        BY <2>1
      <4> QED
        <5>1. upload'[d] \in {"inserted", "logged", "done", "dead"}
          BY <2>1, <2>2, <2>3
        <5>2. d \notin crossed' =>
                /\ upload'[d] \in {"done", "dead"} /\ ~RunExists(d)'
                /\ \A w \in Workers : ~Holds(w, d)'
          BY <2>1, <2>2, <4>1
        <5>3. ~Exists(d)' /\ doc'[d] # "none" /\ chunks'[d] = Nothing /\ remover'[d] = "raw"
          BY <2>1
        <5> QED
          BY <3>1, <5>1, <5>2, <5>3
    <3>2. CASE e # d
      BY <2>1, <2>2, <3>2
    <3> QED
      BY <3>1, <3>2
  <2> QED
    BY <2>4
<1>10. ASSUME NEW d \in Docs, RemoveRaw(d) PROVE Tidy'
  BY <1>10 DEF RemoveRaw, TypeOK, WorkerOK, InHand, Idle, Cleared, RunRemoved, Held, Uploading, Removing, Raise, Go, rows, files, history, Fault
<1>11. ASSUME NEW d \in Docs, RemoveParsed(d) PROVE Tidy'
  BY <1>11 DEF RemoveParsed, TypeOK, WorkerOK, InHand, Idle, Cleared, RunRemoved, Held, Uploading, Removing, Raise, Go, rows, files, history, Fault
<1>12. ASSUME NEW d \in Docs, NEW w \in Workers, NEW n \in 0 .. MaxRetries, TakeTask(w, d, n) PROVE Tidy'
  BY <1>12 DEF TakeTask, TypeOK, WorkerOK, InHand, Idle, Cleared, RunRemoved, Held, Uploading, Removing, Raise, Go, rows, files, history, Fault
<1>13. ASSUME NEW w \in Workers, MarkRunning(w) PROVE Tidy'
  <2>1. worker[w].doc \in Docs
    BY <1>13 DEF MarkRunning, WorkerOK, InHand
  <2>2. CASE RunExists(worker[w].doc)
    <3> DEFINE r == [worker[w] EXCEPT !.pc = "load"]
    <3>1. worker' = [worker EXCEPT ![w] = r]
      BY <1>13, <2>2 DEF MarkRunning, Go
    <3>2. r.doc = worker[w].doc
      BY DEF TypeOK, WorkerState
    <3>3. ~(Begun(worker[w].doc) /\ worker[w].doc \notin crossed)
      BY <2>1, <2>2
    <3> HIDE DEF r
    <3> QED
      BY <1>13, <2>1, <2>2, <3>1, <3>2, <3>3, Elsewhere DEF MarkRunning, TypeOK, rows, files, history
  <2>3. CASE ~RunExists(worker[w].doc)
    BY <1>13, <2>3, LetGo DEF MarkRunning, Raise, rows, files, history
  <2> QED
    BY <2>2, <2>3
<1>14. ASSUME NEW w \in Workers, LoadDoc(w) PROVE Tidy'
  <2>1. worker[w].doc \in Docs /\ ~(Begun(worker[w].doc) /\ worker[w].doc \notin crossed)
    BY <1>14, AtWork DEF LoadDoc
  <2>2. CASE Exists(worker[w].doc)
    <3> DEFINE r == [worker[w] EXCEPT !.pc = "read"]
    <3>1. worker' = [worker EXCEPT ![w] = r]
      BY <1>14, <2>2 DEF LoadDoc, Go
    <3>2. r.doc = worker[w].doc
      BY DEF TypeOK, WorkerState
    <3> HIDE DEF r
    <3> QED
      BY <1>14, <2>1, <2>2, <3>1, <3>2, Elsewhere DEF LoadDoc, TypeOK, rows, files, history
  <2>3. CASE ~(Exists(worker[w].doc))
    BY <1>14, <2>3, LetGo DEF LoadDoc, Raise, rows, files, history
  <2> QED
    BY <2>2, <2>3
<1>15. ASSUME NEW w \in Workers, NEW c \in Contents \union {NoContent}, ReadSource(w, c) PROVE Tidy'
  <2>1. worker[w].doc \in Docs /\ ~(Begun(worker[w].doc) /\ worker[w].doc \notin crossed)
    BY <1>15, AtWork DEF ReadSource
  <2>2. CASE (source[worker[w].doc] = "url" \/ raw[worker[w].doc] # NoContent)
    <3> DEFINE r == worker'[w]
    <3>1. worker' = [worker EXCEPT ![w] = r]
      BY <1>15, <2>2 DEF ReadSource, TypeOK
    <3>2. r.doc = worker[w].doc
      <4>1. /\ worker[w] \in WorkerState
            /\ \/ r = [worker[w] EXCEPT !.pc = "run", !.verdict = "failed"]
               \/ \E g : r = [worker[w] EXCEPT !.pc = "store", !.content = g]
        <5> DEFINE got == IF source[worker[w].doc] = "url" THEN c ELSE raw[worker[w].doc]
        <5>1. ~(got = NoContent /\ source[worker[w].doc] # "url")
          BY <2>2
        <5>2. worker' = [worker EXCEPT ![w] =
                IF got \in Bad \union {NoContent}
                THEN [worker[w] EXCEPT !.pc = "run", !.verdict = "failed"]
                ELSE [worker[w] EXCEPT !.pc = "store", !.content = got]]
          BY <1>15, <5>1 DEF ReadSource
        <5> HIDE DEF got
        <5> QED
          BY <5>2 DEF TypeOK
      <4> HIDE DEF r
      <4> QED
        BY <4>1 DEF WorkerState
    <3> HIDE DEF r
    <3> QED
      BY <1>15, <2>1, <2>2, <3>1, <3>2, Elsewhere DEF ReadSource, TypeOK, rows, files, history
  <2>3. CASE ~((source[worker[w].doc] = "url" \/ raw[worker[w].doc] # NoContent))
    BY <1>15, <2>3, LetGo DEF ReadSource, Raise, rows, files, history
  <2> QED
    BY <2>2, <2>3
<1>16. ASSUME NEW w \in Workers, StoreParsed(w) PROVE Tidy'
  BY <1>16 DEF StoreParsed, TypeOK, WorkerOK, InHand, Idle, Cleared, RunRemoved, Held, Uploading, Removing, Raise, Go, rows, files, history, Fault
<1>17. ASSUME NEW w \in Workers, NEW ok \in BOOLEAN, Embed(w, ok) PROVE Tidy'
  BY <1>17 DEF Embed, TypeOK, WorkerOK, InHand, Idle, Cleared, RunRemoved, Held, Uploading, Removing, Raise, Go, rows, files, history, Fault
<1>18. ASSUME NEW w \in Workers, EmbedError(w) PROVE Tidy'
  <2>1. worker[w].doc \in Docs /\ ~(Begun(worker[w].doc) /\ worker[w].doc \notin crossed)
    BY <1>18, AtWork DEF EmbedError
  <2>2. CASE ~(worker[w].retries < MaxRetries)
    <3> DEFINE r == [worker[w] EXCEPT !.pc = "run", !.verdict = "failed"]
    <3>1. worker' = [worker EXCEPT ![w] = r]
      <4>1. worker' = [worker EXCEPT ![w].pc = "run", ![w].verdict = "failed"]
        BY <1>18, <2>2 DEF EmbedError
      <4> QED
        BY <4>1 DEF TypeOK
    <3>2. r.doc = worker[w].doc
      BY DEF TypeOK, WorkerState
    <3> HIDE DEF r
    <3> QED
      BY <1>18, <2>1, <2>2, <3>1, <3>2, Elsewhere DEF EmbedError, TypeOK, rows, files, history
  <2>3. CASE worker[w].retries < MaxRetries
    BY <1>18, <2>3, LetGo DEF EmbedError, Raise, rows, files, history
  <2> QED
    BY <2>2, <2>3
<1>19. ASSUME NEW w \in Workers, ClearChunks(w) PROVE Tidy'
  BY <1>19 DEF ClearChunks, TypeOK, WorkerOK, InHand, Idle, Cleared, RunRemoved, Held, Uploading, Removing, Raise, Go, rows, files, history, Fault
<1>20. ASSUME NEW w \in Workers, InsertChunk(w) PROVE Tidy'
  <2>1. worker[w].doc \in Docs /\ ~(Begun(worker[w].doc) /\ worker[w].doc \notin crossed)
    BY <1>20, AtWork DEF InsertChunk
  <2>2. CASE Exists(worker[w].doc) /\ chunks[worker[w].doc][worker[w].at] = NoContent
    <3> DEFINE r == IF LastChunk(w) THEN [worker[w] EXCEPT !.pc = "run", !.at = 0, !.verdict = "succeeded"]
                    ELSE [worker[w] EXCEPT !.at = worker[w].at + 1]
    <3>1. worker' = [worker EXCEPT ![w] = r]
      BY <1>20, <2>2 DEF InsertChunk, Go, TypeOK
    <3>2. r.doc = worker[w].doc
      BY DEF TypeOK, WorkerState
    <3> HIDE DEF r
    <3> QED
      BY <1>20, <2>1, <2>2, <3>1, <3>2, Elsewhere DEF InsertChunk, TypeOK, rows, files, history
  <2>3. CASE ~(Exists(worker[w].doc) /\ chunks[worker[w].doc][worker[w].at] = NoContent)
    BY <1>20, <2>3, LetGo DEF InsertChunk, Raise, rows, files, history
  <2> QED
    BY <2>2, <2>3
<1>21. ASSUME NEW w \in Workers, FinishRun(w) PROVE Tidy'
  <2>1. worker[w].doc \in Docs /\ ~(Begun(worker[w].doc) /\ worker[w].doc \notin crossed)
    BY <1>21, AtWork DEF FinishRun
  <2>2. CASE RunExists(worker[w].doc)
    <3> DEFINE r == [worker[w] EXCEPT !.pc = "doc"]
    <3>1. worker' = [worker EXCEPT ![w] = r]
      BY <1>21, <2>2 DEF FinishRun, Go
    <3>2. r.doc = worker[w].doc
      BY DEF TypeOK, WorkerState
    <3> HIDE DEF r
    <3> QED
      BY <1>21, <2>1, <2>2, <3>1, <3>2, Elsewhere DEF FinishRun, TypeOK, rows, files, history
  <2>3. CASE ~(RunExists(worker[w].doc))
    BY <1>21, <2>3, LetGo DEF FinishRun, Raise, rows, files, history
  <2> QED
    BY <2>2, <2>3
<1>22. ASSUME NEW w \in Workers, FinishDoc(w) PROVE Tidy'
  <2>1. worker[w].doc \in Docs /\ ~(Begun(worker[w].doc) /\ worker[w].doc \notin crossed)
    BY <1>22, AtWork DEF FinishDoc
  <2>2. CASE Exists(worker[w].doc)
    <3> DEFINE r == [pc |-> "ack", doc |-> worker[w].doc, content |-> NoContent, at |-> 0,
                     retries |-> worker[w].retries, verdict |-> "none"]
    <3>1. worker' = [worker EXCEPT ![w] = r]
      BY <1>22, <2>2 DEF FinishDoc, Go
    <3>2. r.doc = worker[w].doc
      BY DEF TypeOK, WorkerState
    <3> HIDE DEF r
    <3> QED
      BY <1>22, <2>1, <2>2, <3>1, <3>2, Elsewhere DEF FinishDoc, DocVerdict, TypeOK, rows, files, history
  <2>3. CASE ~(Exists(worker[w].doc))
    BY <1>22, <2>3, LetGo DEF FinishDoc, Raise, rows, files, history
  <2> QED
    BY <2>2, <2>3
<1>23. ASSUME NEW w \in Workers, Acknowledge(w) PROVE Tidy'
  BY <1>23 DEF Acknowledge, TypeOK, WorkerOK, InHand, Idle, Cleared, RunRemoved, Held, Uploading, Removing, Raise, Go, rows, files, history, Fault
<1>24. ASSUME NEW w \in Workers, LoseWorker(w) PROVE Tidy'
  BY <1>24 DEF LoseWorker, TypeOK, WorkerOK, InHand, Idle, Cleared, RunRemoved, Held, Uploading, Removing, Raise, Go, rows, files, history, Fault
<1>25. ASSUME NEW w \in Workers, Redeliver(w) PROVE Tidy'
  BY <1>25 DEF Redeliver, TypeOK, WorkerOK, InHand, Idle, Cleared, RunRemoved, Held, Uploading, Removing, Raise, Go, rows, files, history, Fault
<1>26. ASSUME NEW w \in Workers, TaskFault(w) PROVE Tidy'
  BY <1>26 DEF TaskFault, TypeOK, WorkerOK, InHand, Idle, Cleared, RunRemoved, Held, Uploading, Removing, Raise, Go, rows, files, history, Fault
<1>27. ASSUME NEW d \in Docs, UploadFault(d) PROVE Tidy'
  BY <1>27 DEF UploadFault, TypeOK, WorkerOK, InHand, Idle, Cleared, RunRemoved, Held, Uploading, Removing, Raise, Go, rows, files, history, Fault
<1>28. ASSUME NEW d \in Docs, RemoveFault(d) PROVE Tidy'
  BY <1>28 DEF RemoveFault, TypeOK, WorkerOK, InHand, Idle, Cleared, RunRemoved, Held, Uploading, Removing, Raise, Go, rows, files, history, Fault
<1>29. ASSUME NEW d \in Docs, StorageFault(d) PROVE Tidy'
  BY <1>29 DEF StorageFault, TypeOK, WorkerOK, InHand, Idle, Cleared, RunRemoved, Held, Uploading, Removing, Raise, Go, rows, files, history, Fault
<1>30. CASE UNCHANGED vars
  BY <1>30 DEF vars, rows, files, history
<1> QED
  BY <1>1, <1>2, <1>3, <1>4, <1>5, <1>6, <1>7, <1>8, <1>9, <1>10, <1>11, <1>12, <1>13, <1>14, <1>15, <1>16, <1>17, <1>18, <1>19, <1>20, <1>21, <1>22, <1>23, <1>24, <1>25, <1>26, <1>27, <1>28, <1>29, <1>30 DEF Next, UploadStep, RemoveStep, WorkStep, Take, FaultStep

(* A deleted document leaves nothing behind unless its deletion was crossed. *)
THEOREM DeletionIsComplete == Spec => []GoneLeavesNothing
<1>1. Init => Typed /\ Tidy
  BY TypedInit, TidyInit
<1>2. Typed /\ Tidy /\ [Next]_vars => (Typed /\ Tidy)'
  BY TypedNext, TidyNext
<1>3. Tidy => GoneLeavesNothing
  BY DEF Tidy, Undisturbed, Begun, GoneLeavesNothing
<1> QED
  BY <1>1, <1>2, <1>3, PTL DEF Spec

-----------------------------------------------------------------------------
(* Verdicts.  Of a document none of whose messages was delivered while its     *)
(* worker was still running there is one delivery at a time: one message that  *)
(* waits, or one worker, and neither before the request has published it.      *)
Alone(d) ==
  /\ \A v, w \in Workers : Holds(v, d) /\ Holds(w, d) => v = w
  /\ Held(d) => \A n \in 0 .. MaxRetries : queued[d][n] = 0
  /\ \A n \in 0 .. MaxRetries : queued[d][n] \in {0, 1}
  /\ \A m, n \in 0 .. MaxRetries : queued[d][m] = 1 /\ queued[d][n] = 1 => m = n
Deliveries ==
  \A d \in Docs : /\ d \in doubled \/ Alone(d)
                  /\ upload[d] # "done" => Quiet(d)

LEMMA DeliveriesKept ==
  ASSUME Typed, Deliveries, queued' = queued, doubled \subseteq doubled',
         \A d \in Docs : upload'[d] # "done" => upload[d] # "done",
         \A w \in Workers : worker'[w].doc \in {worker[w].doc, NoDoc}
  PROVE  Deliveries'
<1>1. \A d \in Docs, w \in Workers : Holds(w, d)' => Holds(w, d)
  BY IngestionAssumption DEF Holds
<1>2. \A d \in Docs : Held(d)' => Held(d)
  BY <1>1 DEF Held
<1>3. \A d \in Docs : Alone(d) => Alone(d)'
  BY <1>1, <1>2 DEF Alone
<1>4. \A d \in Docs : Quiet(d) => Quiet(d)'
  BY <1>2 DEF Quiet
<1> QED
  BY <1>3, <1>4 DEF Deliveries

(* Who else is at the document of a worker.                                  *)
LEMMA Only ==
  ASSUME Typed, Deliveries, NEW d \in Docs, d \notin doubled, NEW w \in Workers, worker[w].doc = d
  PROVE  /\ \A v \in Workers : Holds(v, d) <=> v = w
         /\ \A n \in 0 .. MaxRetries : queued[d][n] = 0
         /\ upload[d] = "done" /\ ~Quiet(d)
<1>1. Holds(w, d) /\ Held(d) /\ ~Quiet(d)
  BY DEF Holds, Held, Quiet
<1> QED
  BY <1>1 DEF Deliveries, Alone

LEMMA TakeTaskDelivers ==
  ASSUME Typed, Deliveries, NEW d \in Docs, NEW w \in Workers, NEW n \in 0 .. MaxRetries, TakeTask(w, d, n)
  PROVE  Deliveries'
<1>1. /\ worker[w].pc = "idle" /\ worker[w].doc = NoDoc /\ queued[d][n] > 0
      /\ UNCHANGED <<upload, doubled>>
  BY DEF TakeTask, Typed, WorkerOK, InHand
<1>2. worker'[w].doc = d /\ \A v \in Workers \ {w} : worker'[v] = worker[v]
  BY DEF TakeTask, Typed, TypeOK
<1>3. /\ queued'[d][n] = queued[d][n] - 1
      /\ \A e \in Docs, m \in 0 .. MaxRetries : e # d \/ m # n => queued'[e][m] = queued[e][m]
  BY DEF TakeTask, Typed, TypeOK
<1>4. \A e \in Docs \ {d} : /\ \A v \in Workers : Holds(v, e)' <=> Holds(v, e)
                            /\ \A m \in 0 .. MaxRetries : queued'[e][m] = queued[e][m]
  BY <1>1, <1>2, <1>3, IngestionAssumption DEF Holds
<1>5. \A e \in Docs \ {d} : (Alone(e) => Alone(e)') /\ (Quiet(e) => Quiet(e)')
  BY <1>4 DEF Alone, Quiet, Held
<1>6. upload'[d] = "done"
  BY <1>1 DEF Deliveries, Quiet
<1>7. d \notin doubled => Alone(d)'
  <2> SUFFICES ASSUME d \notin doubled PROVE Alone(d)'
    OBVIOUS
  <2>1. Alone(d) /\ queued[d][n] = 1
    BY <1>1 DEF Deliveries, Alone
  <2>2. \A v \in Workers : ~Holds(v, d)
    BY <1>1, <2>1 DEF Alone, Held
  <2>3. \A v \in Workers : Holds(v, d)' <=> v = w
    BY <1>2, <2>2 DEF Holds
  <2>4. \A m \in 0 .. MaxRetries : queued'[d][m] = 0
    BY <1>3, <2>1 DEF Alone
  <2> QED
    BY <2>3, <2>4 DEF Alone
<1> QED
  BY <1>1, <1>5, <1>6, <1>7 DEF Deliveries

LEMMA PublishDelivers ==
  ASSUME Typed, Deliveries, NEW d \in Docs, PublishTask(d)
  PROVE  Deliveries'
<1>1. Quiet(d) /\ UNCHANGED <<worker, doubled>>
  BY DEF PublishTask, Deliveries, history
<1>2. /\ upload'[d] = "done" /\ \A e \in Docs \ {d} : upload'[e] = upload[e]
      /\ queued'[d][0] = queued[d][0] + 1
      /\ \A e \in Docs, m \in 0 .. MaxRetries : e # d \/ m # 0 => queued'[e][m] = queued[e][m]
  BY IngestionAssumption DEF PublishTask, Typed, TypeOK
<1>3. \A e \in Docs, v \in Workers : Holds(v, e)' <=> Holds(v, e)
  BY <1>1 DEF Holds
<1>4. \A e \in Docs \ {d} : (Alone(e) => Alone(e)') /\ (Quiet(e) => Quiet(e)')
  BY <1>2, <1>3 DEF Alone, Quiet, Held
<1>5. Alone(d)'
  <2>1. \A m \in 0 .. MaxRetries : queued[d][m] = 0
    BY <1>1 DEF Quiet
  <2>2. queued'[d][0] = 1 /\ \A m \in 0 .. MaxRetries : m # 0 => queued'[d][m] = 0
    BY <1>2, <2>1, IngestionAssumption
  <2>3. \A v \in Workers : ~Holds(v, d)'
    BY <1>1, <1>3 DEF Quiet, Held
  <2> QED
    BY <2>2, <2>3 DEF Alone, Held
<1> QED
  BY <1>1, <1>2, <1>4, <1>5 DEF Deliveries

(* A worker hands its document back to the queue.                            *)
LEMMA HandedBack ==
  ASSUME Typed, Deliveries, NEW w \in Workers, NEW d \in Docs, NEW n \in 0 .. MaxRetries,
         worker[w].doc = d, worker' = [worker EXCEPT ![w] = Idle],
         queued' = [queued EXCEPT ![d][n] = @ + 1], UNCHANGED <<upload, doubled>>
  PROVE  Deliveries'
<1>1. worker'[w].doc = NoDoc /\ \A v \in Workers \ {w} : worker'[v] = worker[v]
  BY DEF Idle, Typed, TypeOK
<1>2. /\ queued'[d][n] = queued[d][n] + 1
      /\ \A e \in Docs, m \in 0 .. MaxRetries : e # d \/ m # n => queued'[e][m] = queued[e][m]
  BY DEF Typed, TypeOK
<1>3. \A e \in Docs \ {d}, v \in Workers : Holds(v, e)' <=> Holds(v, e)
  BY <1>1, IngestionAssumption DEF Holds
<1>4. \A e \in Docs \ {d} : (Alone(e) => Alone(e)') /\ (Quiet(e) => Quiet(e)')
  BY <1>2, <1>3 DEF Alone, Quiet, Held
<1>5. upload[d] = "done"
  BY DEF Deliveries, Quiet, Held, Holds
<1>6. d \notin doubled => Alone(d)'
  <2> SUFFICES ASSUME d \notin doubled PROVE Alone(d)'
    OBVIOUS
  <2>1. /\ \A v \in Workers : Holds(v, d) <=> v = w
        /\ \A m \in 0 .. MaxRetries : queued[d][m] = 0
    BY Only
  <2>2. \A v \in Workers : ~Holds(v, d)'
    BY <1>1, <2>1, IngestionAssumption DEF Holds
  <2>3. queued'[d][n] = 1 /\ \A m \in 0 .. MaxRetries : m # n => queued'[d][m] = 0
    BY <1>2, <2>1
  <2> QED
    BY <2>2, <2>3 DEF Alone, Held
<1> QED
  BY <1>4, <1>5, <1>6 DEF Deliveries

LEMMA RedeliverDelivers ==
  ASSUME Typed, Deliveries, NEW w \in Workers, Redeliver(w)
  PROVE  Deliveries'
<1> DEFINE d == worker[w].doc
<1>1. d \in Docs /\ worker[w].retries \in 0 .. MaxRetries
  BY Fields DEF Redeliver, Typed, TypeOK, WorkerOK, InHand
<1> HIDE DEF d
<1>2. /\ UNCHANGED <<upload, worker>> /\ doubled' = doubled \union {d}
      /\ \A e \in Docs \ {d}, m \in 0 .. MaxRetries : queued'[e][m] = queued[e][m]
  BY <1>1 DEF Redeliver, Typed, TypeOK, d
<1>3. \A e \in Docs \ {d} : (Alone(e) => Alone(e)') /\ (Quiet(e) => Quiet(e)')
  BY <1>2 DEF Alone, Quiet, Held, Holds
<1>4. upload[d] = "done"
  BY <1>1 DEF Deliveries, Quiet, Held, Holds, d
<1> QED
  BY <1>1, <1>2, <1>3, <1>4 DEF Deliveries

(* What the rows, the text and the record of the worker at it say of a         *)
(* document nobody has begun to delete.                                       *)
Fresh(d) == chunks[d] = Nothing /\ doc[d] # "parsed"
Story(d) == (run[d] = "succeeded" <=> doc[d] = "parsed") /\ (run[d] = "failed" <=> doc[d] = "failed")
FirstChunks(c, i) == [j \in Chunk |-> IF j < i THEN c ELSE NoContent]
Told(r, d) ==
  /\ d \notin again =>
       /\ r.pc \in {"start", "load", "read", "store", "embed", "clear"} => chunks[d] = Nothing
       /\ r.pc \in {"embed", "clear", "insert"} => parsed[d] = r.content
       /\ r.pc = "insert" => chunks[d] = FirstChunks(r.content, r.at)
       /\ r.pc \in {"run", "doc"} /\ r.verdict = "succeeded" =>
            parsed[d] # NoContent /\ chunks[d] = Stored(parsed[d])
       /\ r.pc # "ack" => doc[d] # "parsed"
  /\ r.pc = "doc" => run[d] = r.verdict
  /\ r.pc = "ack" => Story(d)

Stays(d) == remover[d] = "none" /\ d \notin crossed /\ d \notin doubled
Truth(d) ==
  Stays(d) =>
    /\ \A w \in Workers : Holds(w, d) => Told(worker[w], d)
    /\ ServedWhole(d)
    /\ Quiet(d) /\ d \notin raised => Story(d)
    /\ d \notin again => \A n \in 0 .. MaxRetries : queued[d][n] = 0 \/ Fresh(d)
    /\ upload[d] # "done" => /\ chunks[d] = Nothing /\ doc[d] \in {"none", "pending"}
                             /\ run[d] \in {"none", "queued"}
Truths == \A d \in Docs : Truth(d)

(* A step elsewhere leaves it so.                                            *)
Grows ==
  /\ again \subseteq again' /\ doubled \subseteq doubled'
  /\ raised \subseteq raised' /\ crossed \subseteq crossed'
SameRows(d) == doc'[d] = doc[d] /\ run'[d] = run[d] /\ chunks'[d] = chunks[d] /\ parsed'[d] = parsed[d]

LEMMA SameTold ==
  ASSUME NEW r, NEW d \in Docs, Told(r, d), SameRows(d), again \subseteq again'
  PROVE  Told(r, d)'
  BY DEF Told, SameRows, Story

LEMMA TruthElsewhere ==
  ASSUME NEW d \in Docs, Truth(d), Grows, SameRows(d), upload'[d] = upload[d],
         remover'[d] = "none" => remover[d] = "none",
         \A n \in 0 .. MaxRetries : queued'[d][n] = queued[d][n],
         \A w \in Workers : /\ Holds(w, d)' <=> Holds(w, d)
                            /\ Holds(w, d) => worker'[w] = worker[w]
  PROVE  Truth(d)'
<1> SUFFICES ASSUME Stays(d)' PROVE Truth(d)'
  BY DEF Truth
<1>1. Stays(d)
  BY DEF Stays, Grows
<1>2. ASSUME NEW w \in Workers, Holds(w, d)' PROVE Told(worker[w], d)' /\ worker'[w] = worker[w]
  <2>1. PICK r : r = worker[w]
    OBVIOUS
  <2>2. Told(r, d) /\ worker'[w] = r
    BY <1>1, <1>2, <2>1 DEF Truth
  <2>3. Told(r, d)'
    BY <2>2, SameTold DEF Grows
  <2> QED
    BY <2>1, <2>2, <2>3
<1>3. Quiet(d)' => Quiet(d)
  BY DEF Quiet, Held
<1>4. ServedWhole(d)'
  BY <1>1 DEF Truth, ServedWhole, Grows, SameRows
<1>5. Quiet(d)' /\ d \notin raised' => Story(d)'
  BY <1>1, <1>3 DEF Truth, Story, Grows, SameRows
<1>6. d \notin again' => \A n \in 0 .. MaxRetries : queued'[d][n] = 0 \/ Fresh(d)'
  BY <1>1 DEF Truth, Fresh, Grows, SameRows
<1>7. upload'[d] # "done" =>
        chunks'[d] = Nothing /\ doc'[d] \in {"none", "pending"} /\ run'[d] \in {"none", "queued"}
  BY <1>1 DEF Truth, SameRows
<1> QED
  BY <1>2, <1>4, <1>5, <1>6, <1>7 DEF Truth

(* A step of the worker at it, ...                                           *)
AtWorkOn(w, r, d) ==
  /\ d = worker[w].doc /\ r.doc = d /\ worker' = [worker EXCEPT ![w] = r]
  /\ UNCHANGED <<queued, upload, remover, history>>
  /\ \A e \in Docs \ {d} : SameRows(e)

LEMMA TruthAtWork ==
  ASSUME Typed, Deliveries, Truths, NEW d \in Docs, NEW w \in Workers, NEW r, AtWorkOn(w, r, d),
         Stays(d) /\ Told(worker[w], d) /\ ServedWhole(d) => Told(r, d)' /\ ServedWhole(d)'
  PROVE  Truths'
<1>1. /\ worker \in [Workers -> WorkerState] /\ worker'[w] = r
      /\ \A v \in Workers \ {w} : worker'[v] = worker[v]
  BY DEF AtWorkOn, Typed, TypeOK
<1>2. \A v \in Workers, e \in Docs : Holds(v, e)' <=> Holds(v, e)
  BY <1>1 DEF AtWorkOn, Holds
<1>3. UNCHANGED <<queued, upload, remover, again, doubled, raised, crossed>>
  BY DEF AtWorkOn, history
<1>4. ASSUME NEW e \in Docs \ {d} PROVE Truth(e)'
  BY <1>1, <1>2, <1>3, TruthElsewhere DEF Truths, AtWorkOn, Grows, Holds
<1>5. Truth(d)'
  <2> SUFFICES ASSUME Stays(d)' PROVE Truth(d)'
    BY DEF Truth
  <2>1. Stays(d) /\ Holds(w, d)
    BY <1>3 DEF Stays, AtWorkOn, Holds
  <2>2. /\ \A v \in Workers : Holds(v, d) <=> v = w
        /\ \A n \in 0 .. MaxRetries : queued[d][n] = 0
        /\ upload[d] = "done"
    BY <2>1, Only DEF Stays, Holds
  <2>3. Told(r, d)' /\ ServedWhole(d)'
    BY <2>1 DEF Truths, Truth
  <2>4. \A v \in Workers : Holds(v, d)' => Told(worker[v], d)'
    BY <1>1, <1>2, <2>2, <2>3
  <2>5. ~Quiet(d)'
    BY <1>2, <2>1 DEF Quiet, Held
  <2> QED
    BY <1>3, <2>2, <2>3, <2>4, <2>5 DEF Truth
<1> QED
  BY <1>4, <1>5 DEF Truths

(* ... or its leaving: on an exception, or with its message acknowledged.     *)
LEMMA TruthOnLeaving ==
  ASSUME Typed, Deliveries, Truths, NEW d \in Docs, NEW w \in Workers, worker[w].doc = d,
         worker' = [worker EXCEPT ![w] = Idle],
         UNCHANGED <<doc, run, chunks, parsed, queued, upload, remover, again, doubled, crossed>>,
         raised \subseteq raised', d \in raised' \/ worker[w].pc = "ack"
  PROVE  Truths'
<1>1. /\ worker \in [Workers -> WorkerState] /\ worker'[w].doc = NoDoc
      /\ \A v \in Workers \ {w} : worker'[v] = worker[v]
  BY DEF Idle, Typed, TypeOK
<1>2. \A v \in Workers, e \in Docs : Holds(v, e)' <=> Holds(v, e) /\ v # w
  BY <1>1, IngestionAssumption DEF Holds
<1>3. \A e \in Docs : SameRows(e)
  BY DEF SameRows
<1>4. ASSUME NEW e \in Docs \ {d} PROVE Truth(e)'
  BY <1>1, <1>2, <1>3, TruthElsewhere DEF Truths, Grows, Holds
<1>5. Truth(d)'
  <2> SUFFICES ASSUME Stays(d)' PROVE Truth(d)'
    BY DEF Truth
  <2>1. Stays(d) /\ Holds(w, d)
    BY DEF Stays, Holds
  <2>2. /\ \A v \in Workers : Holds(v, d) <=> v = w
        /\ \A n \in 0 .. MaxRetries : queued[d][n] = 0
        /\ upload[d] = "done"
    BY <2>1, Only DEF Stays, Holds
  <2>3. \A v \in Workers : ~Holds(v, d)'
    BY <1>2, <2>2
  <2>4. ServedWhole(d)'
    BY <2>1 DEF Truths, Truth, ServedWhole
  <2>5. d \notin raised' => Story(d)'
    BY <2>1 DEF Truths, Truth, Told, Story
  <2> QED
    BY <2>2, <2>3, <2>4, <2>5 DEF Truth
<1> QED
  BY <1>4, <1>5 DEF Truths

(* The steps of a request touch one document, which no worker has yet, ...     *)
LEMMA Requested ==
  ASSUME Typed, Deliveries, Truths, NEW d \in Docs, upload[d] # "done", Grows,
         worker' = worker, queued' = queued, remover' = remover, doubled' = doubled,
         chunks' = chunks, parsed' = parsed,
         doc'[d] \in {doc[d], "pending"}, run'[d] \in {run[d], "queued"},
         \A e \in Docs \ {d} : doc'[e] = doc[e] /\ run'[e] = run[e] /\ upload'[e] = upload[e]
  PROVE  Deliveries' /\ Truths'
<1>1. Deliveries'
  BY DeliveriesKept
<1>2. \A e \in Docs, v \in Workers : Holds(v, e)' <=> Holds(v, e)
  BY DEF Holds
<1>3. ASSUME NEW e \in Docs \ {d} PROVE Truth(e)'
  <2>1. SameRows(e)
    BY DEF SameRows
  <2> QED
    BY <1>2, <2>1, TruthElsewhere DEF Truths
<1>4. Truth(d)'
  <2> SUFFICES ASSUME Stays(d)' PROVE Truth(d)'
    BY DEF Truth
  <2>1. Stays(d)
    BY DEF Stays, Grows
  <2>2. chunks[d] = Nothing /\ doc[d] \in {"none", "pending"} /\ run[d] \in {"none", "queued"}
    BY <2>1 DEF Truths, Truth
  <2>3. chunks'[d] = Nothing /\ doc'[d] \in {"none", "pending"} /\ run'[d] \in {"none", "queued"}
    BY <2>2
  <2>4. Quiet(d)
    BY DEF Deliveries
  <2>5. (\A v \in Workers : ~Holds(v, d)') /\ \A n \in 0 .. MaxRetries : queued'[d][n] = 0
    BY <1>2, <2>4 DEF Quiet, Held
  <2> QED
    BY <2>3, <2>5 DEF Truth, ServedWhole, Story
<1> QED
  BY <1>1, <1>3, <1>4 DEF Truths

(* ... and those of a deletion one that no longer stays.                       *)
LEMMA Removed ==
  ASSUME Typed, Deliveries, Truths, NEW d \in Docs, ~Stays(d)', Grows,
         worker' = worker, queued' = queued, upload' = upload, doubled' = doubled,
         \A e \in Docs \ {d} : SameRows(e) /\ remover'[e] = remover[e]
  PROVE  Deliveries' /\ Truths'
<1>1. Deliveries'
  BY DeliveriesKept
<1>2. \A e \in Docs, v \in Workers : Holds(v, e)' <=> Holds(v, e)
  BY DEF Holds
<1>3. ASSUME NEW e \in Docs \ {d} PROVE Truth(e)'
  BY <1>2, TruthElsewhere DEF Truths
<1>4. Truth(d)'
  BY DEF Truth
<1> QED
  BY <1>1, <1>3, <1>4 DEF Truths

LEMMA PublishTells ==
  ASSUME Typed, Deliveries, Truths, NEW d \in Docs, PublishTask(d)
  PROVE  Truths'
<1>1. /\ UNCHANGED <<doc, run, chunks, parsed, remover, worker, again, doubled, raised, crossed>>
      /\ upload[d] = "logged" /\ Quiet(d)
  BY DEF PublishTask, Deliveries, rows, files, history
<1>2. /\ upload'[d] = "done" /\ \A e \in Docs \ {d} : upload'[e] = upload[e]
      /\ \A e \in Docs \ {d}, m \in 0 .. MaxRetries : queued'[e][m] = queued[e][m]
  BY IngestionAssumption DEF PublishTask, Typed, TypeOK
<1>3. \A e \in Docs, v \in Workers : Holds(v, e)' <=> Holds(v, e)
  BY <1>1 DEF Holds
<1>4. Grows /\ \A e \in Docs : SameRows(e)
  BY <1>1 DEF Grows, SameRows
<1>5. ASSUME NEW e \in Docs \ {d} PROVE Truth(e)'
  BY <1>1, <1>2, <1>3, <1>4, TruthElsewhere DEF Truths
<1>6. Truth(d)'
  <2> SUFFICES ASSUME Stays(d)' PROVE Truth(d)'
    BY DEF Truth
  <2>1. Stays(d)
    BY <1>1 DEF Stays
  <2>2. chunks[d] = Nothing /\ doc[d] \in {"none", "pending"} /\ run[d] \in {"none", "queued"}
    BY <1>1, <2>1 DEF Truths, Truth
  <2>3. chunks'[d] = Nothing /\ doc'[d] \in {"none", "pending"} /\ run'[d] \in {"none", "queued"}
    BY <1>1, <2>2
  <2>4. \A v \in Workers : ~Holds(v, d)'
    BY <1>1, <1>3 DEF Quiet, Held
  <2> QED
    BY <1>2, <2>3, <2>4 DEF Truth, ServedWhole, Story, Fresh
<1> QED
  BY <1>5, <1>6 DEF Truths

LEMMA TakeTaskTells ==
  ASSUME Typed, Deliveries, Truths, NEW d \in Docs, NEW w \in Workers, NEW n \in 0 .. MaxRetries,
         TakeTask(w, d, n)
  PROVE  Truths'
<1>1. /\ worker[w].doc = NoDoc /\ queued[d][n] > 0
      /\ UNCHANGED <<doc, run, chunks, parsed, upload, remover, again, doubled, raised>>
      /\ crossed \subseteq crossed'
  BY DEF TakeTask, Typed, WorkerOK, InHand, rows, files
<1>2. PICK r : r = worker'[w]
  OBVIOUS
<1>3. /\ r.pc = "start" /\ r.doc = d /\ \A v \in Workers \ {w} : worker'[v] = worker[v]
      /\ \A e \in Docs \ {d}, m \in 0 .. MaxRetries : queued'[e][m] = queued[e][m]
  BY <1>2 DEF TakeTask, Typed, TypeOK
<1>4. \A e \in Docs \ {d}, v \in Workers : Holds(v, e)' <=> Holds(v, e) /\ v # w
  BY <1>1, <1>2, <1>3, IngestionAssumption DEF Holds
<1>5. Grows /\ \A e \in Docs : SameRows(e)
  BY <1>1 DEF Grows, SameRows
<1>6. ASSUME NEW e \in Docs \ {d} PROVE Truth(e)'
  <2>1. \A v \in Workers : (Holds(v, e)' <=> Holds(v, e)) /\ (Holds(v, e) => worker'[v] = worker[v])
    BY <1>1, <1>3, <1>4, IngestionAssumption DEF Holds
  <2> QED
    BY <1>1, <1>3, <1>5, <2>1, TruthElsewhere DEF Truths
<1>7. Truth(d)'
  <2> SUFFICES ASSUME Stays(d)' PROVE Truth(d)'
    BY DEF Truth
  <2>1. Stays(d)
    BY <1>1 DEF Stays
  <2>2. d \notin again => Fresh(d)
    BY <1>1, <2>1 DEF Truths, Truth
  <2>3. upload[d] = "done"
    BY <1>1 DEF Deliveries, Quiet
  <2>4. \A v \in Workers : ~Holds(v, d)
    <3>1. queued[d][n] # 0
      BY <1>1
    <3> QED
      BY <2>1, <3>1 DEF Deliveries, Alone, Held, Stays
  <2>5. \A v \in Workers : Holds(v, d)' <=> v = w
    BY <1>2, <1>3, <2>4 DEF Holds
  <2>6. Told(r, d)'
    BY <1>1, <1>3, <2>2 DEF Told, Fresh
  <2>7. ~Quiet(d)'
    BY <2>5 DEF Quiet, Held
  <2>8. d \notin again' => Fresh(d)'
    BY <1>1, <2>2 DEF Fresh
  <2>9. ServedWhole(d)'
    BY <1>1, <2>1 DEF Truths, Truth, ServedWhole
  <2> QED
    BY <1>1, <1>2, <2>3, <2>5, <2>6, <2>7, <2>8, <2>9 DEF Truth
<1> QED
  BY <1>6, <1>7 DEF Truths

(* A document handed back is as fresh as its worker found it, unless it was    *)
(* delivered a second time.                                                    *)
LEMMA HandedBackTells ==
  ASSUME Typed, Deliveries, Truths, NEW w \in Workers, NEW d \in Docs, NEW n \in 0 .. MaxRetries,
         worker[w].doc = d, worker' = [worker EXCEPT ![w] = Idle],
         queued' = [queued EXCEPT ![d][n] = @ + 1],
         UNCHANGED <<doc, run, chunks, parsed, upload, remover, doubled, raised, crossed>>,
         again \subseteq again', d \in again' \/ worker[w].pc = "embed"
  PROVE  Truths'
<1>1. /\ worker \in [Workers -> WorkerState] /\ worker'[w].doc = NoDoc
      /\ \A v \in Workers \ {w} : worker'[v] = worker[v]
  BY DEF Idle, Typed, TypeOK
<1>2. /\ queued'[d][n] = queued[d][n] + 1
      /\ \A e \in Docs, m \in 0 .. MaxRetries : e # d \/ m # n => queued'[e][m] = queued[e][m]
  BY DEF Typed, TypeOK
<1>3. \A v \in Workers, e \in Docs : Holds(v, e)' <=> Holds(v, e) /\ v # w
  BY <1>1, IngestionAssumption DEF Holds
<1>4. Grows /\ \A e \in Docs : SameRows(e)
  BY DEF Grows, SameRows
<1>5. ASSUME NEW e \in Docs \ {d} PROVE Truth(e)'
  <2>1. \A v \in Workers : (Holds(v, e)' <=> Holds(v, e)) /\ (Holds(v, e) => worker'[v] = worker[v])
    BY <1>1, <1>3 DEF Holds
  <2> QED
    BY <1>2, <1>4, <2>1, TruthElsewhere DEF Truths
<1>6. Truth(d)'
  <2> SUFFICES ASSUME Stays(d)' PROVE Truth(d)'
    BY DEF Truth
  <2>1. Stays(d) /\ Holds(w, d)
    BY DEF Stays, Holds
  <2>2. /\ \A v \in Workers : Holds(v, d) <=> v = w
        /\ \A m \in 0 .. MaxRetries : queued[d][m] = 0
        /\ upload[d] = "done"
    BY <2>1, Only DEF Stays, Holds
  <2>3. \A v \in Workers : ~Holds(v, d)'
    BY <1>3, <2>2
  <2>4. ServedWhole(d)'
    BY <2>1 DEF Truths, Truth, ServedWhole
  <2>5. queued'[d][n] # 0
    BY <1>2, <2>2
  <2>6. ~Quiet(d)'
    BY <2>5 DEF Quiet
  <2>7. d \notin again' => Fresh(d)'
    BY <2>1 DEF Truths, Truth, Told, Fresh
  <2> QED
    BY <2>2, <2>3, <2>4, <2>6, <2>7 DEF Truth
<1> QED
  BY <1>5, <1>6 DEF Truths

LEMMA RedeliverTells ==
  ASSUME Typed, Deliveries, Truths, NEW w \in Workers, Redeliver(w)
  PROVE  Truths'
<1>1. PICK d : d = worker[w].doc
  OBVIOUS
<1>2. d \in Docs /\ worker[w].retries \in 0 .. MaxRetries
  BY <1>1, Fields DEF Redeliver, Typed, TypeOK, WorkerOK, InHand
<1>3. /\ UNCHANGED <<doc, run, chunks, parsed, upload, worker, remover, raised, crossed>>
      /\ doubled' = doubled \union {d} /\ again \subseteq again'
      /\ \A e \in Docs \ {d}, m \in 0 .. MaxRetries : queued'[e][m] = queued[e][m]
  BY <1>1, <1>2 DEF Redeliver, Typed, TypeOK, rows, files
<1>4. \A e \in Docs, v \in Workers : Holds(v, e)' <=> Holds(v, e)
  BY <1>3 DEF Holds
<1>5. Grows /\ \A e \in Docs : SameRows(e)
  BY <1>3 DEF Grows, SameRows
<1>6. ASSUME NEW e \in Docs \ {d} PROVE Truth(e)'
  BY <1>3, <1>4, <1>5, TruthElsewhere DEF Truths
<1>7. Truth(d)'
  BY <1>3 DEF Truth, Stays
<1> QED
  BY <1>6, <1>7 DEF Truths

(* The steps of a worker, one lemma each.                                      *)
LEMMA Working ==
  ASSUME Typed, NEW w \in Workers, worker[w].pc # "idle"
  PROVE  worker[w].doc \in Docs /\ worker[w] \in WorkerState
  BY DEF Typed, TypeOK, WorkerOK, InHand

LEMMA AtWorkDelivers ==
  ASSUME Typed, Deliveries, NEW d \in Docs, NEW w \in Workers, NEW r, AtWorkOn(w, r, d)
  PROVE  Deliveries'
<1>1. \A v \in Workers : worker'[v].doc \in {worker[v].doc, NoDoc}
  BY DEF AtWorkOn, Typed, TypeOK
<1> QED
  BY <1>1, DeliveriesKept DEF AtWorkOn, history

LEMMA LeavingDelivers ==
  ASSUME Typed, Deliveries, NEW w \in Workers, worker' = [worker EXCEPT ![w] = Idle],
         UNCHANGED <<queued, upload, doubled>>
  PROVE  Deliveries'
<1>1. \A v \in Workers : worker'[v].doc \in {worker[v].doc, NoDoc}
  BY DEF Idle, Typed, TypeOK
<1> QED
  BY <1>1, DeliveriesKept

LEMMA Leaves ==
  ASSUME Typed, Deliveries, Truths, NEW w \in Workers, worker[w].pc # "idle", Raise(w),
         UNCHANGED <<doc, run, chunks, parsed, queued, upload, remover, again, doubled, crossed>>
  PROVE  Deliveries' /\ Truths'
<1>1. PICK d \in Docs : d = worker[w].doc
  BY Working
<1>2. worker' = [worker EXCEPT ![w] = Idle] /\ raised' = raised \union {d}
  BY <1>1 DEF Raise
<1>3. raised \subseteq raised' /\ d \in raised'
  BY <1>2
<1>4. Truths'
  BY <1>1, <1>2, <1>3, TruthOnLeaving
<1>5. Deliveries'
  BY <1>2, LeavingDelivers
<1> QED
  BY <1>4, <1>5

LEMMA MarkRunningTells ==
  ASSUME Typed, Deliveries, Truths, NEW w \in Workers, MarkRunning(w)
  PROVE  Deliveries' /\ Truths'
<1>1. PICK d \in Docs : d = worker[w].doc
  BY Working DEF MarkRunning
<1>2. /\ UNCHANGED <<doc, chunks, parsed, queued, upload, remover, again, doubled, crossed>>
      /\ worker[w].pc = "start"
  BY DEF MarkRunning, files
<1>3. CASE RunExists(d)
  <2>1. PICK r : r = [worker[w] EXCEPT !.pc = "load"]
    OBVIOUS
  <2>2. worker' = [worker EXCEPT ![w] = r] /\ raised' = raised /\ run' = [run EXCEPT ![d] = "running"]
    BY <1>1, <1>3, <2>1 DEF MarkRunning, Go
  <2>3. r.pc = "load" /\ r.doc = d
    BY <1>1, <1>2, <2>1, Working, SetPc DEF Pcs
  <2>4. AtWorkOn(w, r, d)
    BY <1>1, <1>2, <2>2, <2>3 DEF AtWorkOn, SameRows, history, Typed, TypeOK
  <2>5. Told(worker[w], d) /\ ServedWhole(d) => Told(r, d)' /\ ServedWhole(d)'
    BY <1>2, <2>3 DEF Told, ServedWhole
  <2> QED
    BY <2>4, <2>5, TruthAtWork, AtWorkDelivers
<1>4. CASE ~RunExists(d)
  BY <1>1, <1>2, <1>4, Leaves DEF MarkRunning
<1> QED
  BY <1>3, <1>4

LEMMA LoadDocTells ==
  ASSUME Typed, Deliveries, Truths, NEW w \in Workers, LoadDoc(w)
  PROVE  Deliveries' /\ Truths'
<1>1. PICK d \in Docs : d = worker[w].doc
  BY Working DEF LoadDoc
<1>2. /\ UNCHANGED <<doc, run, chunks, parsed, queued, upload, remover, again, doubled, crossed>>
      /\ worker[w].pc = "load"
  BY DEF LoadDoc, rows, files
<1>3. CASE Exists(d)
  <2>1. PICK r : r = [worker[w] EXCEPT !.pc = "read"]
    OBVIOUS
  <2>2. worker' = [worker EXCEPT ![w] = r] /\ raised' = raised
    BY <1>1, <1>3, <2>1 DEF LoadDoc, Go
  <2>3. r.pc = "read" /\ r.doc = d
    BY <1>1, <1>2, <2>1, Working, SetPc DEF Pcs
  <2>4. AtWorkOn(w, r, d)
    BY <1>1, <1>2, <2>2, <2>3 DEF AtWorkOn, SameRows, history
  <2>5. Told(worker[w], d) /\ ServedWhole(d) => Told(r, d)' /\ ServedWhole(d)'
    BY <1>2, <2>3 DEF Told, ServedWhole
  <2> QED
    BY <2>4, <2>5, TruthAtWork, AtWorkDelivers
<1>4. CASE ~Exists(d)
  BY <1>1, <1>2, <1>4, Leaves DEF LoadDoc
<1> QED
  BY <1>3, <1>4

LEMMA ReadSourceTells ==
  ASSUME Typed, Deliveries, Truths, NEW w \in Workers, NEW c \in Contents \union {NoContent}, ReadSource(w, c)
  PROVE  Deliveries' /\ Truths'
<1>1. PICK d \in Docs : d = worker[w].doc
  BY Working DEF ReadSource
<1>2. /\ UNCHANGED <<doc, run, chunks, parsed, queued, upload, remover, again, doubled, crossed>>
      /\ worker[w].pc = "read"
  BY DEF ReadSource, rows
<1>3. CASE source[d] = "url" \/ raw[d] # NoContent
  <2>1. PICK r : r = worker'[w]
    OBVIOUS
  <2>2. PICK got : got = IF source[d] = "url" THEN c ELSE raw[d]
    OBVIOUS
  <2>3. ~(got = NoContent /\ source[d] # "url")
    BY <1>3, <2>2
  <2>4. /\ worker' = [worker EXCEPT ![w] =
             IF got \in Bad \union {NoContent}
             THEN [worker[w] EXCEPT !.pc = "run", !.verdict = "failed"]
             ELSE [worker[w] EXCEPT !.pc = "store", !.content = got]]
        /\ raised' = raised
    BY <1>1, <2>2, <2>3 DEF ReadSource
  <2>5. worker \in [Workers -> WorkerState]
    BY DEF Typed, TypeOK
  <2>6. \/ r = [worker[w] EXCEPT !.pc = "run", !.verdict = "failed"]
        \/ r = [worker[w] EXCEPT !.pc = "store", !.content = got]
    BY <2>1, <2>4, <2>5
  <2>7. worker' = [worker EXCEPT ![w] = r]
    BY <2>1, <2>4, <2>5
  <2>8. r.doc = d /\ ((r.pc = "run" /\ r.verdict = "failed") \/ r.pc = "store")
    <3>1. worker[w] \in WorkerState
      BY <2>5
    <3> QED
      BY ONLY <1>1, <2>6, <3>1 DEF WorkerState
  <2>9. AtWorkOn(w, r, d)
    BY <1>1, <1>2, <2>4, <2>7, <2>8 DEF AtWorkOn, SameRows, history
  <2>10. Told(worker[w], d) /\ ServedWhole(d) => Told(r, d)' /\ ServedWhole(d)'
    BY <1>2, <2>8 DEF Told, ServedWhole
  <2> QED
    BY <2>9, <2>10, TruthAtWork, AtWorkDelivers
<1>4. CASE ~(source[d] = "url" \/ raw[d] # NoContent)
  BY <1>1, <1>2, <1>4, Leaves DEF ReadSource
<1> QED
  BY <1>3, <1>4

LEMMA StoreParsedTells ==
  ASSUME Typed, Deliveries, Truths, NEW w \in Workers, StoreParsed(w)
  PROVE  Deliveries' /\ Truths'
<1>1. PICK d \in Docs : d = worker[w].doc
  BY Working DEF StoreParsed
<1>2. /\ UNCHANGED <<doc, run, chunks, queued, upload, remover, again, doubled, raised, crossed>>
      /\ worker[w].pc = "store"
  BY DEF StoreParsed, rows, history
<1>3. PICK r : r = [worker[w] EXCEPT !.pc = "embed"]
  OBVIOUS
<1>4. worker' = [worker EXCEPT ![w] = r]
  BY <1>3 DEF StoreParsed, Go
<1>5. r.pc = "embed" /\ r.doc = d /\ r.content = worker[w].content
  BY <1>1, <1>2, <1>3, Working, SetPc DEF Pcs
<1>6. parsed'[d] = worker[w].content /\ \A e \in Docs \ {d} : parsed'[e] = parsed[e]
  BY <1>1 DEF StoreParsed, Typed, TypeOK
<1>7. AtWorkOn(w, r, d)
  BY <1>1, <1>2, <1>4, <1>5, <1>6 DEF AtWorkOn, SameRows, history
<1>8. Told(worker[w], d) /\ ServedWhole(d) => Told(r, d)' /\ ServedWhole(d)'
  BY <1>2, <1>5, <1>6 DEF Told, ServedWhole
<1> QED
  BY <1>7, <1>8, TruthAtWork, AtWorkDelivers

LEMMA EmbedTells ==
  ASSUME Typed, Deliveries, Truths, NEW w \in Workers, NEW ok \in BOOLEAN, Embed(w, ok)
  PROVE  Deliveries' /\ Truths'
<1>1. PICK d \in Docs : d = worker[w].doc
  BY Working DEF Embed
<1>2. /\ UNCHANGED <<doc, run, chunks, parsed, queued, upload, remover, again, doubled, raised, crossed>>
      /\ worker[w].pc = "embed" /\ worker[w].content \in Contents \ Bad
  BY DEF Embed, rows, files, history, Typed, WorkerOK, InHand
<1>3. PICK r : r = worker'[w]
  OBVIOUS
<1>4. worker \in [Workers -> WorkerState] /\ worker[w] \in WorkerState
  BY DEF Typed, TypeOK
<1>5. worker' = [worker EXCEPT ![w] = r]
  BY <1>3, <1>4 DEF Embed
<1>6. /\ r.doc = d /\ r.content = worker[w].content
      /\ r.pc = IF ok THEN AfterEmbedding(worker[w].content).pc ELSE "run"
      /\ r.verdict = IF ok THEN AfterEmbedding(worker[w].content).verdict ELSE "failed"
  <2> DEFINE p == IF ok THEN AfterEmbedding(worker[w].content).pc ELSE "run"
             v == IF ok THEN AfterEmbedding(worker[w].content).verdict ELSE "failed"
  <2>1. worker' = [worker EXCEPT ![w].pc = p, ![w].verdict = v]
    BY DEF Embed
  <2> HIDE DEF p, v
  <2>2. r.pc = p /\ r.verdict = v /\ r.doc = worker[w].doc /\ r.content = worker[w].content
    BY ONLY <1>3, <1>4, <2>1 DEF WorkerState
  <2> QED
    BY <1>1, <2>2 DEF p, v
<1>7. \/ r.pc = "run" /\ r.verdict = "failed"
      \/ r.pc = "run" /\ r.verdict = "succeeded" /\ Size[r.content] = 0
      \/ r.pc = "clear"
  BY <1>6 DEF AfterEmbedding
<1>8. Size[r.content] = 0 => Nothing = Stored(r.content)
  BY DEF Nothing, Stored, Chunk
<1>9. AtWorkOn(w, r, d)
  BY <1>1, <1>2, <1>5, <1>6 DEF AtWorkOn, SameRows, history
<1>10. Told(worker[w], d) /\ ServedWhole(d) => Told(r, d)' /\ ServedWhole(d)'
  BY <1>2, <1>6, <1>7, <1>8, IngestionAssumption DEF Told, ServedWhole
<1> QED
  BY <1>9, <1>10, TruthAtWork, AtWorkDelivers

LEMMA EmbedErrorTells ==
  ASSUME Typed, Deliveries, Truths, NEW w \in Workers, EmbedError(w)
  PROVE  Deliveries' /\ Truths'
<1>1. PICK d \in Docs : d = worker[w].doc
  BY Working DEF EmbedError
<1>2. /\ UNCHANGED <<doc, run, chunks, parsed, upload, remover, again, doubled, raised, crossed>>
      /\ worker[w].pc = "embed"
  BY DEF EmbedError, rows, files, history
<1>3. PICK n : n = worker[w].retries
  OBVIOUS
<1>4. n \in 0 .. MaxRetries
  BY <1>3, <1>2, Working, Fields
<1>5. CASE n < MaxRetries
  <2>1. queued' = [queued EXCEPT ![d][n + 1] = @ + 1] /\ worker' = [worker EXCEPT ![w] = Idle]
    BY <1>1, <1>3, <1>5 DEF EmbedError
  <2>2. PICK m : m = n + 1
    OBVIOUS
  <2>3. m \in 0 .. MaxRetries
    BY <1>4, <1>5, <2>2, IngestionAssumption
  <2>4. queued' = [queued EXCEPT ![d][m] = @ + 1]
    BY <2>1, <2>2
  <2> QED
    BY <1>1, <1>2, <2>1, <2>3, <2>4, HandedBack, HandedBackTells
<1>6. CASE ~(n < MaxRetries)
  <2>1. PICK r : r = [worker[w] EXCEPT !.pc = "run", !.verdict = "failed"]
    OBVIOUS
  <2>2. worker \in [Workers -> WorkerState] /\ worker[w] \in WorkerState
    BY DEF Typed, TypeOK
  <2>3. worker' = [worker EXCEPT ![w] = r] /\ queued' = queued
    <3>1. worker' = [worker EXCEPT ![w].pc = "run", ![w].verdict = "failed"] /\ queued' = queued
      BY <1>3, <1>6 DEF EmbedError
    <3> QED
      BY <2>1, <2>2, <3>1
  <2>4. r.pc = "run" /\ r.verdict = "failed" /\ r.doc = d
    BY ONLY <1>1, <2>1, <2>2 DEF WorkerState
  <2>5. AtWorkOn(w, r, d)
    BY <1>1, <1>2, <2>3, <2>4 DEF AtWorkOn, SameRows, history
  <2>6. Told(worker[w], d) /\ ServedWhole(d) => Told(r, d)' /\ ServedWhole(d)'
    BY <1>2, <2>4 DEF Told, ServedWhole
  <2> QED
    BY <2>5, <2>6, TruthAtWork, AtWorkDelivers
<1> QED
  BY <1>5, <1>6

LEMMA ClearChunksTells ==
  ASSUME Typed, Deliveries, Truths, NEW w \in Workers, ClearChunks(w)
  PROVE  Deliveries' /\ Truths'
<1>1. PICK d \in Docs : d = worker[w].doc
  BY Working DEF ClearChunks
<1>2. /\ UNCHANGED <<doc, run, parsed, queued, upload, remover, again, doubled, raised, crossed>>
      /\ worker[w].pc = "clear"
  BY DEF ClearChunks, files, history
<1>3. PICK r : r = worker'[w]
  OBVIOUS
<1>4. worker \in [Workers -> WorkerState] /\ worker[w] \in WorkerState
  BY DEF Typed, TypeOK
<1>5. worker' = [worker EXCEPT ![w] = r]
  BY <1>3, <1>4 DEF ClearChunks
<1>6. r.pc = "insert" /\ r.at = 1 /\ r.doc = d /\ r.content = worker[w].content
  <2>1. worker' = [worker EXCEPT ![w].pc = "insert", ![w].at = 1]
    BY DEF ClearChunks
  <2> QED
    BY ONLY <1>1, <1>3, <1>4, <2>1 DEF WorkerState
<1>7. chunks'[d] = Nothing /\ \A e \in Docs \ {d} : chunks'[e] = chunks[e]
  BY <1>1 DEF ClearChunks, Cleared, Typed, TypeOK
<1>8. Nothing = FirstChunks(r.content, 1)
  BY DEF Nothing, FirstChunks, Chunk
<1>9. AtWorkOn(w, r, d)
  BY <1>1, <1>2, <1>5, <1>6, <1>7 DEF AtWorkOn, SameRows, history
<1>10. Told(worker[w], d) /\ ServedWhole(d) => Told(r, d)' /\ ServedWhole(d)'
  BY <1>2, <1>6, <1>7, <1>8 DEF Told, ServedWhole
<1> QED
  BY <1>9, <1>10, TruthAtWork, AtWorkDelivers

LEMMA ChunkAdded ==
  ASSUME NEW c \in Contents, NEW i \in 1 .. Size[c]
  PROVE  /\ [FirstChunks(c, i) EXCEPT ![i] = c] = FirstChunks(c, i + 1)
         /\ i >= Size[c] => FirstChunks(c, i + 1) = Stored(c)
<1>1. Size[c] \in 0 .. MaxChunks /\ MaxChunks \in Nat
  BY IngestionAssumption
<1>2. i \in Chunk /\ i \in Nat
  BY <1>1 DEF Chunk
<1>3. \A j \in Chunk : j < i + 1 <=> j < i \/ j = i
  BY <1>2 DEF Chunk
<1>4. i >= Size[c] => \A j \in Chunk : j < i + 1 <=> j <= Size[c]
  BY <1>1, <1>2 DEF Chunk
<1>5. [FirstChunks(c, i) EXCEPT ![i] = c] = FirstChunks(c, i + 1)
  BY <1>2, <1>3 DEF FirstChunks
<1>6. i >= Size[c] => FirstChunks(c, i + 1) = Stored(c)
  BY <1>4 DEF FirstChunks, Stored
<1> QED
  BY <1>5, <1>6

LEMMA InsertChunkTells ==
  ASSUME Typed, Deliveries, Truths, NEW w \in Workers, InsertChunk(w)
  PROVE  Deliveries' /\ Truths'
<1>1. PICK d \in Docs : d = worker[w].doc
  BY Working DEF InsertChunk
<1>2. /\ UNCHANGED <<doc, run, parsed, queued, upload, remover, again, doubled, crossed>>
      /\ worker[w].pc = "insert"
  BY DEF InsertChunk, files
<1>3. PICK c, i : c = worker[w].content /\ i = worker[w].at
  OBVIOUS
<1>4. c \in Contents /\ i \in 1 .. Size[c] /\ Size[c] \in 0 .. MaxChunks /\ c # NoContent
  BY <1>2, <1>3, IngestionAssumption DEF Typed, WorkerOK, InHand
<1>5. CASE Exists(d) /\ chunks[d][i] = NoContent
  <2>1. PICK r : r = IF LastChunk(w) THEN [worker[w] EXCEPT !.pc = "run", !.at = 0, !.verdict = "succeeded"]
                     ELSE [worker[w] EXCEPT !.at = i + 1]
    OBVIOUS
  <2>2. worker \in [Workers -> WorkerState] /\ worker[w] \in WorkerState
    BY DEF Typed, TypeOK
  <2>3. /\ worker' = [worker EXCEPT ![w] = r] /\ raised' = raised
        /\ chunks' = [chunks EXCEPT ![d][i] = c]
    BY <1>1, <1>3, <1>5, <2>1, <2>2 DEF InsertChunk
  <2>4. /\ r.doc = d
        /\ \/ i >= Size[c] /\ r.pc = "run" /\ r.verdict = "succeeded"
           \/ r.pc = "insert" /\ r.content = c /\ r.at = i + 1
    <3>1. LastChunk(w) <=> i >= Size[c]
      BY <1>3 DEF LastChunk
    <3>2. i + 1 \in Nat
      BY <1>4
    <3> QED
      BY ONLY <1>1, <1>2, <1>3, <2>1, <2>2, <3>1, <3>2 DEF WorkerState
  <2>5. /\ chunks'[d] = [chunks[d] EXCEPT ![i] = c]
        /\ \A e \in Docs \ {d} : chunks'[e] = chunks[e]
    BY <2>3 DEF Typed, TypeOK
  <2>6. chunks[d] = FirstChunks(c, i) =>
          /\ chunks'[d] = FirstChunks(c, i + 1)
          /\ i >= Size[c] => chunks'[d] = Stored(c)
    BY <1>4, <2>5, ChunkAdded
  <2>7. AtWorkOn(w, r, d)
    BY <1>1, <1>2, <2>3, <2>4, <2>5 DEF AtWorkOn, SameRows, history
  <2>8. Told(worker[w], d) /\ ServedWhole(d) => Told(r, d)' /\ ServedWhole(d)'
    <3> SUFFICES ASSUME Told(worker[w], d) PROVE Told(r, d)' /\ ServedWhole(d)'
      OBVIOUS
    <3>1. d \notin again => parsed[d] = c /\ chunks[d] = FirstChunks(c, i) /\ doc[d] # "parsed"
      BY <1>2, <1>3 DEF Told
    <3>2. d \notin again' =>
            /\ parsed'[d] = c /\ doc'[d] # "parsed" /\ chunks'[d] = FirstChunks(c, i + 1)
            /\ i >= Size[c] => chunks'[d] = Stored(c)
      BY <1>2, <2>6, <3>1
    <3>3. Told(r, d)'
      BY <1>4, <2>4, <3>2 DEF Told
    <3> QED
      BY <3>2, <3>3 DEF ServedWhole
  <2> QED
    BY <2>7, <2>8, TruthAtWork, AtWorkDelivers
<1>6. CASE ~(Exists(d) /\ chunks[d][i] = NoContent)
  <2>1. Raise(w) /\ chunks' = chunks
    BY <1>1, <1>3, <1>6 DEF InsertChunk
  <2> QED
    BY <1>2, <2>1, Leaves
<1> QED
  BY <1>5, <1>6

LEMMA FinishRunTells ==
  ASSUME Typed, Deliveries, Truths, NEW w \in Workers, FinishRun(w)
  PROVE  Deliveries' /\ Truths'
<1>1. PICK d \in Docs : d = worker[w].doc
  BY Working DEF FinishRun
<1>2. /\ UNCHANGED <<doc, chunks, parsed, queued, upload, remover, again, doubled, crossed>>
      /\ worker[w].pc = "run"
  BY DEF FinishRun, files
<1>3. CASE RunExists(d)
  <2>1. PICK r : r = [worker[w] EXCEPT !.pc = "doc"]
    OBVIOUS
  <2>2. /\ worker' = [worker EXCEPT ![w] = r] /\ raised' = raised
        /\ run' = [run EXCEPT ![d] = worker[w].verdict]
    BY <1>1, <1>3, <2>1 DEF FinishRun, Go
  <2>3. r.pc = "doc" /\ r.doc = d /\ r.verdict = worker[w].verdict
    BY <1>1, <1>2, <2>1, Working, SetPc DEF Pcs
  <2>4. run'[d] = worker[w].verdict /\ \A e \in Docs \ {d} : run'[e] = run[e]
    BY <2>2 DEF Typed, TypeOK
  <2>5. AtWorkOn(w, r, d)
    BY <1>1, <1>2, <2>2, <2>3, <2>4 DEF AtWorkOn, SameRows, history
  <2>6. Told(worker[w], d) /\ ServedWhole(d) => Told(r, d)' /\ ServedWhole(d)'
    BY <1>2, <2>3, <2>4 DEF Told, ServedWhole
  <2> QED
    BY <2>5, <2>6, TruthAtWork, AtWorkDelivers
<1>4. CASE ~RunExists(d)
  BY <1>1, <1>2, <1>4, Leaves DEF FinishRun
<1> QED
  BY <1>3, <1>4

LEMMA FinishDocTells ==
  ASSUME Typed, Deliveries, Truths, NEW w \in Workers, FinishDoc(w)
  PROVE  Deliveries' /\ Truths'
<1>1. PICK d \in Docs : d = worker[w].doc
  BY Working DEF FinishDoc
<1>2. /\ UNCHANGED <<run, chunks, parsed, queued, upload, remover, again, doubled, crossed>>
      /\ worker[w].pc = "doc" /\ worker[w].verdict \in {"succeeded", "failed"}
  BY Working, Fields DEF FinishDoc, files, Typed, WorkerOK, InHand
<1>3. CASE Exists(d)
  <2>1. PICK r : r = [pc |-> "ack", doc |-> d, content |-> NoContent, at |-> 0,
                      retries |-> worker[w].retries, verdict |-> "none"]
    OBVIOUS
  <2>2. /\ worker' = [worker EXCEPT ![w] = r] /\ raised' = raised
        /\ doc' = [doc EXCEPT ![d] = DocVerdict(w)]
    BY <1>1, <1>3, <2>1 DEF FinishDoc
  <2>3. r.pc = "ack" /\ r.doc = d
    BY <2>1
  <2>4. /\ doc'[d] = IF worker[w].verdict = "succeeded" THEN "parsed" ELSE "failed"
        /\ \A e \in Docs \ {d} : doc'[e] = doc[e]
    BY <2>2 DEF DocVerdict, Typed, TypeOK
  <2>5. AtWorkOn(w, r, d)
    BY <1>1, <1>2, <2>2, <2>3, <2>4 DEF AtWorkOn, SameRows, history
  <2>6. Told(worker[w], d) /\ ServedWhole(d) => Told(r, d)' /\ ServedWhole(d)'
    BY <1>2, <2>3, <2>4 DEF Told, ServedWhole, Story
  <2> QED
    BY <2>5, <2>6, TruthAtWork, AtWorkDelivers
<1>4. CASE ~Exists(d)
  BY <1>1, <1>2, <1>4, Leaves DEF FinishDoc
<1> QED
  BY <1>3, <1>4

LEMMA AcknowledgeTells ==
  ASSUME Typed, Deliveries, Truths, NEW w \in Workers, Acknowledge(w)
  PROVE  Deliveries' /\ Truths'
<1>1. PICK d \in Docs : d = worker[w].doc
  BY Working DEF Acknowledge
<1>2. /\ UNCHANGED <<doc, run, chunks, parsed, queued, upload, remover, again, doubled, raised, crossed>>
      /\ worker[w].pc = "ack" /\ worker' = [worker EXCEPT ![w] = Idle]
  BY DEF Acknowledge, rows, files, history
<1> QED
  BY <1>1, <1>2, TruthOnLeaving, LeavingDelivers

LEMMA LoseWorkerTells ==
  ASSUME Typed, Deliveries, Truths, NEW w \in Workers, LoseWorker(w)
  PROVE  Deliveries' /\ Truths'
<1>1. PICK d \in Docs : d = worker[w].doc
  BY Working DEF LoseWorker
<1>2. PICK n : n = worker[w].retries
  OBVIOUS
<1>3. n \in 0 .. MaxRetries
  BY <1>2, Working, Fields DEF LoseWorker
<1>4. /\ UNCHANGED <<doc, run, chunks, parsed, upload, remover, doubled, raised, crossed>>
      /\ worker' = [worker EXCEPT ![w] = Idle] /\ queued' = [queued EXCEPT ![d][n] = @ + 1]
      /\ again \subseteq again' /\ d \in again'
  BY <1>1, <1>2 DEF LoseWorker, rows, files
<1> QED
  BY <1>1, <1>3, <1>4, HandedBack, HandedBackTells

LEMMA VerdictsInit == Init => Deliveries /\ Truths
<1> SUFFICES ASSUME Init PROVE Deliveries /\ Truths
  OBVIOUS
<1>1. /\ \A d \in Docs, w \in Workers : ~Holds(w, d)
      /\ \A d \in Docs, n \in 0 .. MaxRetries : queued[d][n] = 0
      /\ \A d \in Docs : /\ doc[d] = "none" /\ run[d] = "none" /\ chunks[d] = Nothing
  BY IngestionAssumption DEF Init, Holds, Idle
<1>2. Deliveries
  BY <1>1 DEF Deliveries, Alone, Held, Quiet
<1>3. Truths
  BY <1>1 DEF Truths, Truth, ServedWhole, Story, Fresh
<1> QED
  BY <1>2, <1>3

LEMMA VerdictsNext == Typed /\ Deliveries /\ Truths /\ [Next]_vars => Deliveries' /\ Truths'
<1> SUFFICES ASSUME Typed, Deliveries, Truths, [Next]_vars PROVE Deliveries' /\ Truths'
  OBVIOUS
<1>1. ASSUME NEW d \in Docs, NEW kind \in {"upload", "url"}, CheckHash(d, kind) PROVE Deliveries' /\ Truths'
  <2>1. /\ UNCHANGED <<worker, queued, remover, chunks, parsed, again, doubled, raised, crossed>>
        /\ upload[d] # "done"
    BY <1>1 DEF CheckHash, rows, files, history, Uploading
  <2>2. /\ doc'[d] \in {doc[d], "pending"} /\ run'[d] \in {run[d], "queued"}
        /\ \A e \in Docs \ {d} : doc'[e] = doc[e] /\ run'[e] = run[e] /\ upload'[e] = upload[e]
    BY <1>1 DEF CheckHash, Typed, TypeOK, rows
  <2> QED
    BY <2>1, <2>2, Requested DEF Grows
<1>2. ASSUME NEW d \in Docs, NEW c \in Contents, StoreRaw(d, c) PROVE Deliveries' /\ Truths'
  <2>1. /\ UNCHANGED <<worker, queued, remover, chunks, parsed, again, doubled, raised, crossed>>
        /\ upload[d] # "done"
    BY <1>2 DEF StoreRaw, rows, files, history, Uploading
  <2>2. /\ doc'[d] \in {doc[d], "pending"} /\ run'[d] \in {run[d], "queued"}
        /\ \A e \in Docs \ {d} : doc'[e] = doc[e] /\ run'[e] = run[e] /\ upload'[e] = upload[e]
    BY <1>2 DEF StoreRaw, Typed, TypeOK, rows
  <2> QED
    BY <2>1, <2>2, Requested DEF Grows
<1>3. ASSUME NEW d \in Docs, CreateDoc(d) PROVE Deliveries' /\ Truths'
  <2>1. /\ UNCHANGED <<worker, queued, remover, chunks, parsed, again, doubled, raised, crossed>>
        /\ upload[d] # "done"
    BY <1>3 DEF CreateDoc, rows, files, history, Uploading
  <2>2. /\ doc'[d] \in {doc[d], "pending"} /\ run'[d] \in {run[d], "queued"}
        /\ \A e \in Docs \ {d} : doc'[e] = doc[e] /\ run'[e] = run[e] /\ upload'[e] = upload[e]
    BY <1>3 DEF CreateDoc, Typed, TypeOK, rows
  <2> QED
    BY <2>1, <2>2, Requested DEF Grows
<1>4. ASSUME NEW d \in Docs, CreateRun(d) PROVE Deliveries' /\ Truths'
  <2>1. /\ UNCHANGED <<worker, queued, remover, chunks, parsed, again, doubled, raised, crossed>>
        /\ upload[d] # "done"
    BY <1>4 DEF CreateRun, rows, files, history, Uploading
  <2>2. /\ doc'[d] \in {doc[d], "pending"} /\ run'[d] \in {run[d], "queued"}
        /\ \A e \in Docs \ {d} : doc'[e] = doc[e] /\ run'[e] = run[e] /\ upload'[e] = upload[e]
    BY <1>4 DEF CreateRun, Typed, TypeOK, rows
  <2> QED
    BY <2>1, <2>2, Requested DEF Grows
<1>5. ASSUME NEW d \in Docs, PublishTask(d) PROVE Deliveries' /\ Truths'
  BY <1>5, PublishDelivers, PublishTells
<1>6. ASSUME NEW d \in Docs, NEW w \in Workers, NEW n \in 0 .. MaxRetries, TakeTask(w, d, n) PROVE Deliveries' /\ Truths'
  BY <1>6, TakeTaskDelivers, TakeTaskTells
<1>7. ASSUME NEW d \in Docs, BeginRemove(d) PROVE Deliveries' /\ Truths'
  <2>1. UNCHANGED <<worker, queued, upload, doubled>> /\ Grows
    BY <1>7 DEF BeginRemove, rows, files, history, Grows
  <2>2. ~Stays(d)' /\ \A e \in Docs \ {d} : SameRows(e) /\ remover'[e] = remover[e]
    BY <1>7 DEF BeginRemove, Typed, TypeOK, rows, files, history, Stays, SameRows
  <2> QED
    BY <2>1, <2>2, Removed
<1>8. ASSUME NEW d \in Docs, RemoveChunks(d) PROVE Deliveries' /\ Truths'
  <2>1. UNCHANGED <<worker, queued, upload, doubled>> /\ Grows
    BY <1>8 DEF RemoveChunks, rows, files, history, Grows
  <2>2. ~Stays(d)' /\ \A e \in Docs \ {d} : SameRows(e) /\ remover'[e] = remover[e]
    BY <1>8 DEF RemoveChunks, Cleared, Typed, TypeOK, rows, files, history, Stays, SameRows
  <2> QED
    BY <2>1, <2>2, Removed
<1>9. ASSUME NEW d \in Docs, RemoveRuns(d) PROVE Deliveries' /\ Truths'
  <2>1. UNCHANGED <<worker, queued, upload, doubled>> /\ Grows
    BY <1>9 DEF RemoveRuns, rows, files, history, Grows
  <2>2. ~Stays(d)' /\ \A e \in Docs \ {d} : SameRows(e) /\ remover'[e] = remover[e]
    BY <1>9 DEF RemoveRuns, RunRemoved, Typed, TypeOK, rows, files, history, Stays, SameRows
  <2> QED
    BY <2>1, <2>2, Removed
<1>10. ASSUME NEW d \in Docs, RemoveDoc(d) PROVE Deliveries' /\ Truths'
  <2>1. UNCHANGED <<worker, queued, upload, doubled>> /\ Grows
    BY <1>10 DEF RemoveDoc, rows, files, history, Grows
  <2>2. ~Stays(d)' /\ \A e \in Docs \ {d} : SameRows(e) /\ remover'[e] = remover[e]
    BY <1>10 DEF RemoveDoc, Cleared, Typed, TypeOK, rows, files, history, Stays, SameRows
  <2> QED
    BY <2>1, <2>2, Removed
<1>11. ASSUME NEW d \in Docs, RemoveRaw(d) PROVE Deliveries' /\ Truths'
  <2>1. UNCHANGED <<worker, queued, upload, doubled>> /\ Grows
    BY <1>11 DEF RemoveRaw, rows, files, history, Grows
  <2>2. ~Stays(d)' /\ \A e \in Docs \ {d} : SameRows(e) /\ remover'[e] = remover[e]
    BY <1>11 DEF RemoveRaw, Typed, TypeOK, rows, files, history, Stays, SameRows
  <2> QED
    BY <2>1, <2>2, Removed
<1>12. ASSUME NEW d \in Docs, RemoveParsed(d) PROVE Deliveries' /\ Truths'
  <2>1. UNCHANGED <<worker, queued, upload, doubled>> /\ Grows
    BY <1>12 DEF RemoveParsed, rows, files, history, Grows
  <2>2. ~Stays(d)' /\ \A e \in Docs \ {d} : SameRows(e) /\ remover'[e] = remover[e]
    BY <1>12 DEF RemoveParsed, Typed, TypeOK, rows, files, history, Stays, SameRows
  <2> QED
    BY <2>1, <2>2, Removed
<1>13. ASSUME NEW d \in Docs, RemoveFault(d) PROVE Deliveries' /\ Truths'
  <2>1. UNCHANGED <<worker, queued, upload, doubled>> /\ Grows
    BY <1>13 DEF RemoveFault, rows, files, history, Grows
  <2>2. ~Stays(d)' /\ \A e \in Docs \ {d} : SameRows(e) /\ remover'[e] = remover[e]
    BY <1>13 DEF RemoveFault, Typed, TypeOK, rows, files, history, Stays, SameRows
  <2> QED
    BY <2>1, <2>2, Removed
<1>14. ASSUME NEW d \in Docs, StorageFault(d) PROVE Deliveries' /\ Truths'
  <2>1. UNCHANGED <<worker, queued, upload, doubled>> /\ Grows
    BY <1>14 DEF StorageFault, rows, files, history, Grows
  <2>2. ~Stays(d)' /\ \A e \in Docs \ {d} : SameRows(e) /\ remover'[e] = remover[e]
    BY <1>14 DEF StorageFault, Typed, TypeOK, rows, files, history, Stays, SameRows
  <2> QED
    BY <2>1, <2>2, Removed
<1>15. ASSUME NEW w \in Workers, MarkRunning(w) PROVE Deliveries' /\ Truths'
  BY <1>15, MarkRunningTells
<1>16. ASSUME NEW w \in Workers, LoadDoc(w) PROVE Deliveries' /\ Truths'
  BY <1>16, LoadDocTells
<1>17. ASSUME NEW w \in Workers, NEW c \in Contents \union {NoContent}, ReadSource(w, c) PROVE Deliveries' /\ Truths'
  BY <1>17, ReadSourceTells
<1>18. ASSUME NEW w \in Workers, StoreParsed(w) PROVE Deliveries' /\ Truths'
  BY <1>18, StoreParsedTells
<1>19. ASSUME NEW w \in Workers, NEW ok \in BOOLEAN, Embed(w, ok) PROVE Deliveries' /\ Truths'
  BY <1>19, EmbedTells
<1>20. ASSUME NEW w \in Workers, EmbedError(w) PROVE Deliveries' /\ Truths'
  BY <1>20, EmbedErrorTells
<1>21. ASSUME NEW w \in Workers, ClearChunks(w) PROVE Deliveries' /\ Truths'
  BY <1>21, ClearChunksTells
<1>22. ASSUME NEW w \in Workers, InsertChunk(w) PROVE Deliveries' /\ Truths'
  BY <1>22, InsertChunkTells
<1>23. ASSUME NEW w \in Workers, FinishRun(w) PROVE Deliveries' /\ Truths'
  BY <1>23, FinishRunTells
<1>24. ASSUME NEW w \in Workers, FinishDoc(w) PROVE Deliveries' /\ Truths'
  BY <1>24, FinishDocTells
<1>25. ASSUME NEW w \in Workers, Acknowledge(w) PROVE Deliveries' /\ Truths'
  BY <1>25, AcknowledgeTells
<1>26. ASSUME NEW w \in Workers, LoseWorker(w) PROVE Deliveries' /\ Truths'
  BY <1>26, LoseWorkerTells
<1>27. ASSUME NEW w \in Workers, Redeliver(w) PROVE Deliveries' /\ Truths'
  BY <1>27, RedeliverDelivers, RedeliverTells
<1>28. ASSUME NEW w \in Workers, TaskFault(w) PROVE Deliveries' /\ Truths'
  <2>1. UNCHANGED <<doc, run, chunks, parsed, queued, upload, remover, again, doubled, crossed>>
    BY <1>28 DEF TaskFault, rows, files
  <2> QED
    BY <1>28, <2>1, Leaves DEF TaskFault
<1>29. ASSUME NEW d \in Docs, UploadFault(d) PROVE Deliveries' /\ Truths'
  <2>1. /\ UNCHANGED <<worker, queued, remover, chunks, parsed, again, doubled, raised, crossed>>
        /\ upload[d] # "done"
    BY <1>29 DEF UploadFault, rows, files, history, Uploading
  <2>2. /\ doc'[d] \in {doc[d], "pending"} /\ run'[d] \in {run[d], "queued"}
        /\ \A e \in Docs \ {d} : doc'[e] = doc[e] /\ run'[e] = run[e] /\ upload'[e] = upload[e]
    BY <1>29 DEF UploadFault, Typed, TypeOK, rows
  <2> QED
    BY <2>1, <2>2, Requested DEF Grows
<1>30. CASE UNCHANGED vars
  <2>1. UNCHANGED <<doc, run, chunks, parsed, upload, remover, queued, worker, again, doubled, raised, crossed>>
    BY <1>30 DEF vars, rows, files, history
  <2>2. Deliveries'
    BY <2>1, DeliveriesKept
  <2>3. ASSUME NEW d \in Docs PROVE Truth(d)'
    BY <2>1, TruthElsewhere DEF Truths, Grows, SameRows, Holds
  <2> QED
    BY <2>2, <2>3 DEF Truths
<1> QED
  BY <1>1, <1>2, <1>3, <1>4, <1>5, <1>6, <1>7, <1>8, <1>9, <1>10, <1>11, <1>12, <1>13, <1>14, <1>15, <1>16, <1>17, <1>18, <1>19, <1>20, <1>21, <1>22, <1>23, <1>24, <1>25, <1>26, <1>27, <1>28, <1>29, <1>30 DEF Next, UploadStep, RemoveStep, WorkStep, Take, FaultStep

(* What the rows say of a document is true: a parsed one serves the whole of   *)
(* the text last parsed, and run and document tell one story.                  *)
THEOREM VerdictsAreTrue == Spec => []VerdictIsTrue
<1>1. Init => Typed /\ Deliveries /\ Truths
  BY TypedInit, VerdictsInit
<1>2. Typed /\ Deliveries /\ Truths /\ [Next]_vars => (Typed /\ Deliveries /\ Truths)'
  BY TypedNext, VerdictsNext
<1>3. Typed /\ Truths => VerdictIsTrue
  <2> SUFFICES ASSUME Typed, Truths, NEW d \in Docs, remover[d] = "none", d \notin crossed
               PROVE ServedWhole(d) /\ OneStory(d)
    BY DEF VerdictIsTrue
  <2>1. doubled \subseteq again
    BY DEF Typed, TypeOK
  <2>2. CASE d \in doubled
    BY <2>1, <2>2 DEF ServedWhole, OneStory
  <2>3. CASE d \notin doubled
    BY <2>3 DEF Truths, Truth, Stays, Story, OneStory
  <2> QED
    BY <2>2, <2>3
<1> QED
  BY <1>1, <1>2, <1>3, PTL DEF Spec
=============================================================================
