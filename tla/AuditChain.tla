----------------------------- MODULE AuditChain -----------------------------
(***************************************************************************)
(* The audit trail of one tenant (audit/chain.py). Rows are inserted by    *)
(* anybody; a beat task links the unsealed ones into a hash chain, in a    *)
(* transaction that holds the row of the chain's head; an administrator    *)
(* verifies the chain, which reads the rows, the number of unsealed ones   *)
(* and the head in three statements. A hash is the data it was made of: a  *)
(* sequence of all rows up to its own, so that hashes differ when rows do. *)
(***************************************************************************)
EXTENDS Integers, Sequences, FiniteSets, FiniteSetsExt, SequencesExt

CONSTANTS
  Events,          \* rows of audit_events
  Sealers,         \* processes that run agents.seal_audit_chain
  Limit,           \* rows sealed at a time
  DamageBound,     \* rows somebody edits or deletes after they were sealed
  AbortBound       \* transactions that are rolled back

ASSUME AuditAssumption ==
  /\ Limit \in Nat \ {0}
  /\ DamageBound \in Nat
  /\ AbortBound \in Nat

VARIABLES
  content,         \* what the row says, or "none" when there is no row
  link,            \* its chain_seq, prev_hash and row_hash
  head,            \* audit_chain_heads: last_hash and last_seq
  sealer,          \* each sealer's transaction
  reader,          \* a verification and its report
  damage,          \* history: places of the chain whose row was edited or deleted
  aborts           \* transactions rolled back so far

chainVars == <<content, link, head, sealer, reader, damage, aborts>>

Genesis == <<>>
Unsealed == [seq |-> 0, prev |-> Genesis, hash |-> Genesis]
Body(e, c) == <<e, c>>
RowHash(prev, e, c) == Append(prev, Body(e, c))

Present == {e \in Events : content[e] # "none"}
Chained == {e \in Present : link[e].seq # 0}
Waiting == Present \ Chained

-----------------------------------------------------------------------------
IdleSealer == [at |-> "idle", head |-> Unsealed, batch |-> <<>>]
NoReport == [at |-> "idle", checked |-> 0, last |-> Genesis, broken |-> 0, unsealed |-> 0,
             there |-> 0, harmed |-> {}, sealed |-> FALSE]

ChainInit ==
  /\ content = [e \in Events |-> "none"]
  /\ link = [e \in Events |-> Unsealed]
  /\ head = Unsealed
  /\ sealer = [s \in Sealers |-> IdleSealer]
  /\ reader = NoReport
  /\ damage = {}
  /\ aborts = 0

-----------------------------------------------------------------------------
(* Writers. A deleted row's identifier is not given again.                    *)

RecordAudit(e) ==
  /\ content[e] = "none"
  /\ link[e] = Unsealed
  /\ content' = [content EXCEPT ![e] = "written"]
  /\ UNCHANGED <<link, head, sealer, reader, damage, aborts>>

(* What the chain is there to show.                                           *)
EditSealed(e) ==
  /\ e \in Chained
  /\ content[e] = "written"
  /\ Cardinality(damage) < DamageBound
  /\ content' = [content EXCEPT ![e] = "edited"]
  /\ damage' = damage \union {link[e].seq}
  /\ UNCHANGED <<link, head, sealer, reader, aborts>>

DeleteSealed(e) ==
  /\ e \in Chained
  /\ Cardinality(damage \union {link[e].seq}) <= DamageBound
  /\ content' = [content EXCEPT ![e] = "none"]
  /\ damage' = damage \union {link[e].seq}
  /\ UNCHANGED <<link, head, sealer, reader, aborts>>

-----------------------------------------------------------------------------
(* The sealer's transaction.                                                  *)

Holding(s) == sealer[s].at \in {"locked", "fetched"}
InBatch(s, e) == \E i \in DOMAIN sealer[s].batch : sealer[s].batch[i] = e

(* The tenant is among those with unsealed rows.                              *)
BeginSeal(s) ==
  /\ sealer[s].at = "idle"
  /\ Waiting # {}
  /\ sealer' = [sealer EXCEPT ![s].at = "begun"]
  /\ UNCHANGED <<content, link, head, reader, damage, aborts>>

(* SELECT ... FOR UPDATE on the head, waiting for whoever has it.             *)
LockHead(s) ==
  /\ sealer[s].at = "begun"
  /\ \A r \in Sealers : ~Holding(r)
  /\ sealer' = [sealer EXCEPT ![s] = [at |-> "locked", head |-> head, batch |-> <<>>]]
  /\ UNCHANGED <<content, link, head, reader, damage, aborts>>

Free == {e \in Waiting : \A r \in Sealers : ~InBatch(r, e)}

(* The oldest unsealed rows, FOR UPDATE. created_at is when the writer's      *)
(* transaction began, which says nothing of when its row appeared.            *)
Batches ==
  LET size == IF Cardinality(Free) < Limit THEN Cardinality(Free) ELSE Limit
  IN  UNION {SetToSeqs(S) : S \in kSubset(size, Free)}

FetchRows(s) ==
  /\ sealer[s].at = "locked"
  /\ \E b \in Batches :
       sealer' = [sealer EXCEPT ![s] = [at |-> "fetched", head |-> sealer[s].head, batch |-> b]]
  /\ UNCHANGED <<content, link, head, reader, damage, aborts>>

(* The loop over the rows: the link of the i-th row of batch b after head h.  *)
BodiesUpTo(b, i) == [j \in 1..i |-> Body(b[j], content[b[j]])]
LinkAt(h, b, i) ==
  LET before == h.hash \o BodiesUpTo(b, i - 1)
  IN  [seq |-> h.seq + i, prev |-> before, hash |-> RowHash(before, b[i], content[b[i]])]

CommitSeal(s) ==
  /\ sealer[s].at = "fetched"
  /\ LET h == sealer[s].head
         b == sealer[s].batch
         n == Len(b)
     IN  /\ link' = [e \in Events |->
                       IF InBatch(s, e) THEN LinkAt(h, b, CHOOSE i \in 1..n : b[i] = e)
                                        ELSE link[e]]
         /\ head' = IF n = 0 THEN head ELSE LinkAt(h, b, n)
         /\ reader' = [reader EXCEPT !.sealed = @ \/ n # 0]
  /\ sealer' = [sealer EXCEPT ![s] = IdleSealer]
  /\ UNCHANGED <<content, damage, aborts>>

(* The process dies or a statement fails: nothing of it was ever written.     *)
AbortSeal(s) ==
  /\ sealer[s].at # "idle"
  /\ aborts < AbortBound
  /\ aborts' = aborts + 1
  /\ sealer' = [sealer EXCEPT ![s] = IdleSealer]
  /\ UNCHANGED <<content, link, head, reader, damage>>

-----------------------------------------------------------------------------
(* verify_audit_chain.                                                        *)

Before(e) == {f \in Chained : link[f].seq < link[e].seq}
ByChainSeq ==
  [i \in 1..Cardinality(Chained) |-> CHOOSE e \in Chained : Cardinality(Before(e)) = i - 1]

PrevOf(rows, i) == IF i = 1 THEN Genesis ELSE link[rows[i - 1]].hash

BreaksOnHashOnly(rows, i) ==
  LET e == rows[i] IN link[e].hash # RowHash(link[e].prev, e, content[e])

(* The row at place i does not carry on from the one before it.               *)
BreaksAt(rows, i) ==
  LET e == rows[i]
  IN  \/ link[e].seq # i
      \/ link[e].prev # PrevOf(rows, i)
      \/ link[e].hash # RowHash(PrevOf(rows, i), e, content[e])

FirstBreak(rows) ==
  LET breaks == {i \in DOMAIN rows : BreaksAt(rows, i)}
  IN  IF breaks = {} THEN 0 ELSE Min(breaks)

(* The rows in the order of chain_seq, and the loop over them.                *)
ReadChain ==
  /\ reader.at \in {"idle", "told"}
  /\ reader' = [at |-> "chain", checked |-> Len(ByChainSeq),
                last |-> PrevOf(ByChainSeq, Len(ByChainSeq) + 1),
                broken |-> FirstBreak(ByChainSeq), unsealed |-> 0,
                there |-> Cardinality(Present), harmed |-> damage, sealed |-> FALSE]
  /\ UNCHANGED <<content, link, head, sealer, damage, aborts>>

CountUnsealed ==
  /\ reader.at = "chain"
  /\ reader' = [reader EXCEPT !.at = "counted", !.unsealed = Cardinality(Waiting)]
  /\ UNCHANGED <<content, link, head, sealer, damage, aborts>>

(* A head that was never written is the genesis of an empty chain.            *)
HeadAgrees == head.seq = reader.checked /\ head.hash = reader.last

ReadHead ==
  /\ reader.at = "counted"
  /\ reader' = [reader EXCEPT !.at = "told",
                              !.broken = IF @ = 0 /\ ~HeadAgrees THEN reader.checked + 1 ELSE @]
  /\ UNCHANGED <<content, link, head, sealer, damage, aborts>>

-----------------------------------------------------------------------------
ChainNext ==
  \/ \E e \in Events : RecordAudit(e) \/ EditSealed(e) \/ DeleteSealed(e)
  \/ \E s \in Sealers : BeginSeal(s) \/ LockHead(s) \/ FetchRows(s) \/ CommitSeal(s) \/ AbortSeal(s)
  \/ ReadChain \/ CountUnsealed \/ ReadHead

ChainSpec == ChainInit /\ [][ChainNext]_chainVars

-----------------------------------------------------------------------------
(* What a sealed row may look like.                                           *)
ChainTypes ==
  /\ content \in [Events -> {"none", "written", "edited"}]
  /\ \A e \in Events : link[e].seq = Len(link[e].hash)
  /\ head.seq = Len(head.hash)
  /\ \A s \in Sealers : /\ sealer[s].at \in {"idle", "begun", "locked", "fetched"}
                        /\ \A i \in DOMAIN sealer[s].batch : sealer[s].batch[i] \in Events
  /\ reader.at \in {"idle", "chain", "counted", "told"}
  /\ damage \subseteq 1..head.seq

Told == reader.at = "told"

(* "Editing or deleting a sealed row breaks the chain, which                  *)
(* verify_audit_chain reports" (audit/chain.py:6): however many rows were     *)
(* damaged before the verification began, and whatever was sealed behind them *)
(* or meanwhile, broken_at is the place of the first.                         *)
DamageIsReported == Told /\ reader.harmed # {} => reader.broken = Min(reader.harmed)

(* A chain nobody touched verifies, whoever sealed it and however often a     *)
(* sealer died, unless rows were sealed between the verification's reads.     *)
CleanChainVerifies ==
  Told /\ reader.harmed = {} /\ ~reader.sealed => reader.broken = 0

(* "Rows written since the last seal are reported as unsealed, not as         *)
(* verified" (audit/chain.py:7): a report that all is well leaves out no row  *)
(* that was there when it began.                                              *)
OkAccountsForAll ==
  Told /\ reader.broken = 0 => reader.checked + reader.unsealed >= reader.there

(* What a report says of the chain is true.                                   *)
ReportIsTrue == DamageIsReported /\ CleanChainVerifies /\ OkAccountsForAll
=============================================================================
