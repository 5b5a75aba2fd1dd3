--------------------------- MODULE UbiFlushProofs ---------------------------
(***************************************************************************)
(* Proofs about UbiFlush: in the safe setting what a successful flush has  *)
(* covered survives.  First the types, the order of fetches and how the    *)
(* copies of the metadata are related; then what flushes have written,     *)
(* need and promise; then the theorems.                                    *)
(***************************************************************************)
EXTENDS UbiFlush, Sequences, TLAPS

\* The headers that ubi_finish_read_metadata finds can be counted.
Countable == \A m : Count(m) \in Nat

\* How a flush that succeeds changes what is promised.
LEMMA Promises ==
  ASSUME TypeOK, NEW f \in Flush, NEW from, Succeeds(f, from)
  PROVE  /\ promised' \in [Stripe -> Nat] /\ stage' = [stage EXCEPT ![f] = "ok"]
         /\ \A s \in Stripe : promised'[s] \in {promised[s], need[f][s]}
         /\ \A s \in Stripe : promised'[s] # promised[s] => s \in f.range /\ promised'[s] = need[f][s]
<1>1. need[f] \in [Stripe -> Nat] /\ promised \in [Stripe -> Nat]
  BY Zenon DEF TypeOK
<1>2. promised' = [s \in Stripe |-> IF s \in f.range /\ ~ no_sync
                     THEN Larger(promised[s], need[f][s]) ELSE promised[s]]
  BY Zenon DEF Succeeds
<1>3. \A s \in Stripe : Larger(promised[s], need[f][s]) \in {promised[s], need[f][s]}
  BY Zenon DEF Larger
<1> QED
  BY <1>1, <1>2, <1>3, Zenon DEF Succeeds, Goes

\* The stripes and the magic are different cells.
LEMMA CellFacts == Magic \in Cell /\ Magic \notin Stripe /\ Stripe \subseteq Cell
  BY FlushAssumption, Zenon DEF Cell

\* A flush that goes to another stage leaves the others where they are.
LEMMA StageMoves ==
  ASSUME TypeOK, NEW f \in Flush, NEW to \in Stages, stage' = [stage EXCEPT ![f] = to]
  PROVE  /\ stage' \in [Flush -> Stages] /\ stage'[f] = to
         /\ \A g \in Flush : g # f => stage'[g] = stage[g]
<1>1. stage \in [Flush -> Stages]
  BY Zenon DEF TypeOK
<1> QED
  BY <1>1, Zenon

\* When the base write of a stripe is done, the stripe is the image's, or the write
\* has failed.
LEMMA StripeOutcome ==
  ASSUME NEW s \in Stripe, write_stripe_io_completion(s)
  PROVE  \E v \in {0, Unwritten} : data' = [data EXCEPT ![s] = v] /\ data_d' \in {data_d, data'}
<1>1. data_d' \in {data_d, data'}
  BY Zenon DEF write_stripe_io_completion, Durable
<1> QED
  BY <1>1, Zenon DEF write_stripe_io_completion, StripeWritten, StripeLost

\* Every step preserves the types.
LEMMA TypeNext ==
  ASSUME Countable, TypeOK, [Next]_vars
  PROVE  TypeOK'
<1> USE FlushAssumption DEF TypeOK, Cell
<1>1. CASE ubi_finish_read_metadata
  <2>1. stripes_fetched' \in Nat /\ stripes_flushed' \in Nat
    BY <1>1 DEF ubi_finish_read_metadata, InMemory, Countable
  <2>2. metadata' \in [Cell -> {0, 1}]
    BY <1>1, Zenon DEF ubi_finish_read_metadata, InMemory, basedev
  <2>3. \/ stripe_status' = [s \in Stripe |-> "NOT_FETCHED"]
        \/ stripe_status' = [s \in Stripe |-> IF s \in Fetched(md) THEN "FETCHED" ELSE "NOT_FETCHED"]
    BY <1>1, Zenon DEF ubi_finish_read_metadata
  <2>4. stripe_status' \in [Stripe -> {"NOT_FETCHED", "FETCHED"}]
    <3> HIDE FlushAssumption DEF TypeOK, Cell
    <3> QED BY <2>3, Zenon
  <2>5. order' \in [Stripe -> Nat]
    BY <1>1 DEF ubi_finish_read_metadata
  <2> QED
    BY <1>1, <2>1, <2>2, <2>4, <2>5, Zenon DEF ubi_finish_read_metadata, InMemory, flushes, basedev
<1>2. CASE Kill
  BY <1>2, Zenon DEF Kill, Stops, Stages, memory, flushes, basedev
<1>3. CASE PowerLoss
  <2>1. md_d' \in [Cell -> {0, 1}] /\ data_d' \in [Stripe -> Int]
    BY <1>3 DEF PowerLoss
  <2>2. md' \in [Cell -> {0, 1}] /\ data' \in [Stripe -> Int]
    BY <1>3, <2>1, Zenon DEF PowerLoss
  <2> QED
    BY <1>3, <2>1, <2>2, Zenon DEF PowerLoss, Stops, Stages
<1>4. CASE ubi_destruct
  BY <1>4, Zenon DEF ubi_destruct, Stops, Stages, memory, flushes, basedev
<1>5. ASSUME NEW s \in Stripe, write_stripe_io_completion(s) PROVE TypeOK'
  <2>1. data' \in [Stripe -> Int] /\ data_d' \in [Stripe -> Int]
    <3>1. PICK v \in {0, Unwritten} : data' = [data EXCEPT ![s] = v] /\ data_d' \in {data_d, data'}
      BY <1>5, StripeOutcome, Zenon
    <3>2. v \in Int
      BY DEF Unwritten
    <3> HIDE FlushAssumption DEF TypeOK, Cell
    <3>3. data \in [Stripe -> Int] /\ data_d \in [Stripe -> Int]
      BY Zenon DEF TypeOK
    <3> QED
      BY <3>1, <3>2, <3>3, Zenon
  <2>2. metadata' \in [Cell -> {0, 1}] /\ order' \in [Stripe -> Nat]
    BY <1>5 DEF write_stripe_io_completion
  <2> QED
    BY <1>5, <2>1, <2>2, Zenon DEF write_stripe_io_completion, flushes
<1>6. ASSUME NEW s \in Stripe, ClientWrite(s) PROVE TypeOK'
  <2>1. last[s] + 1 \in Nat /\ last' \in [Stripe -> Nat]
    BY <1>6 DEF ClientWrite
  <2>2. data' = [data EXCEPT ![s] = last[s] + 1] /\ (data_d' = data_d \/ data_d' = data')
    BY <1>6, Zenon DEF ClientWrite, Durable
  <2>3. data' \in [Stripe -> Int] /\ data_d' \in [Stripe -> Int]
    BY <2>1, <2>2
  <2> QED
    BY <1>6, <2>1, <2>3, Zenon DEF ClientWrite, memory, flushes
<1>7. ASSUME NEW f \in Flush, ubi_submit_flush_request(f) PROVE TypeOK'
  <2>0. promised' = promised \/ Succeeds(f, "new")
    BY <1>7, Zenon DEF ubi_submit_flush_request
  <2>1. promised' \in [Stripe -> Nat]
    BY <2>0, Promises, promised \in [Stripe -> Nat], Zenon
  <2>2. \E st \in Stages : stage' = [stage EXCEPT ![f] = st]
    BY <1>7, Zenon DEF ubi_submit_flush_request, Goes, Succeeds, Stages
  <2>3. stage' \in [Flush -> Stages]
    BY <2>2, StageMoves, Zenon
  <2>4. need' \in [Flush -> [Stripe -> Nat]]
    <3> DEFINE now == [s \in Stripe |-> IF stripe_status[s] = "FETCHED" /\ data[s] > 0
                                       THEN data[s] ELSE 0]
    <3>1. now \in [Stripe -> Nat]
      OBVIOUS
    <3>2. need' = need \/ need' = [need EXCEPT ![f] = now]
      BY <1>7, Zenon DEF ubi_submit_flush_request
    <3> HIDE DEF now
    <3>3. need \in [Flush -> [Stripe -> Nat]]
      BY Zenon
    <3> HIDE DEF TypeOK
    <3> QED
      BY <3>1, <3>2, <3>3, Zenon
  <2> QED
    BY <1>7, <2>1, <2>3, <2>4, Zenon DEF ubi_submit_flush_request, memory, basedev
<1>8. ASSUME NEW f \in Flush, DataFlush(f) PROVE TypeOK'
  <2>1. PICK to \in Stages : stage' = [stage EXCEPT ![f] = to]
    BY <1>8, Zenon DEF DataFlush, Goes, Stages
  <2>2. stage' \in [Flush -> Stages]
    BY <2>1, StageMoves, Zenon
  <2>3. data_d' \in [Stripe -> Int]
    BY <1>8, Zenon DEF DataFlush
  <2> QED
    BY <1>8, <2>2, <2>3, Zenon DEF DataFlush, memory
<1>9. ASSUME NEW f \in Flush, ubi_data_flush_completion(f) PROVE TypeOK'
  <2>0. promised' = promised \/ Succeeds(f, "data_ok")
    BY <1>9, Zenon DEF ubi_data_flush_completion
  <2>1. promised' \in [Stripe -> Nat]
    BY <2>0, Promises, promised \in [Stripe -> Nat], Zenon
  <2>2. \E st \in Stages : stage' = [stage EXCEPT ![f] = st]
    BY <1>9, Zenon DEF ubi_data_flush_completion, Goes, Succeeds, Stages
  <2>3. stage' \in [Flush -> Stages]
    BY <2>2, StageMoves, Zenon
  <2>4. fetched_at' \in [Flush -> Nat]
    BY <1>9 DEF ubi_data_flush_completion
  <2>5. todo' = todo \/ todo' = [todo EXCEPT ![f] = Cell]
    BY <1>9, Zenon DEF ubi_data_flush_completion
  <2>6. todo' \in [Flush -> SUBSET Cell]
    <3>1. Cell \in SUBSET Cell /\ todo \in [Flush -> SUBSET Cell]
      BY Zenon
    <3> HIDE FlushAssumption DEF TypeOK, Cell
    <3> QED BY <2>5, <3>1, Zenon
  <2>7. copied' = copied \/ copied' = [copied EXCEPT ![f] = metadata]
    BY <1>9, Zenon DEF ubi_data_flush_completion
  <2>8. copied' \in [Flush -> [Cell -> {0, 1}]]
    <3>1. metadata \in [Cell -> {0, 1}] /\ copied \in [Flush -> [Cell -> {0, 1}]]
      BY Zenon
    <3> HIDE FlushAssumption DEF TypeOK, Cell
    <3> QED BY <2>7, <3>1, Zenon
  <2> QED
    BY <1>9, <2>1, <2>3, <2>4, <2>6, <2>8, Zenon DEF ubi_data_flush_completion, memory, basedev
<1>10. ASSUME NEW f \in Flush, NEW c \in Cell, MetadataCell(f, c) PROVE TypeOK'
  BY <1>10 DEF MetadataCell, Durable, memory, flushes, basedev
<1>11. ASSUME NEW f \in Flush, MetadataWritten(f) PROVE TypeOK'
  <2>1. PICK to \in Stages : stage' = [stage EXCEPT ![f] = to]
    BY <1>11, Zenon DEF MetadataWritten, Goes, Stages
  <2>2. stage' \in [Flush -> Stages]
    BY <2>1, StageMoves, Zenon
  <2> QED
    BY <1>11, <2>2, Zenon DEF MetadataWritten, memory, basedev
<1>12. ASSUME NEW f \in Flush, ubi_metadata_write_completion(f) PROVE TypeOK'
  <2>1. PICK to \in Stages : stage' = [stage EXCEPT ![f] = to]
    BY <1>12, Zenon DEF ubi_metadata_write_completion, FailedWrite, Goes, Stages
  <2>2. stage' \in [Flush -> Stages]
    BY <2>1, StageMoves, Zenon
  <2> QED
    BY <1>12, <2>2, Zenon DEF ubi_metadata_write_completion, memory, basedev
<1>13. ASSUME NEW f \in Flush, MetadataFlush(f) PROVE TypeOK'
  <2>1. PICK to \in Stages : stage' = [stage EXCEPT ![f] = to]
    BY <1>13, Zenon DEF MetadataFlush, Goes, Stages
  <2>2. stage' \in [Flush -> Stages]
    BY <2>1, StageMoves, Zenon
  <2> QED
    BY <1>13, <2>2, Zenon DEF MetadataFlush, memory, basedev
<1>14. ASSUME NEW f \in Flush, ubi_metadata_flush_completion(f) PROVE TypeOK'
  <2>0. promised' = promised \/ Succeeds(f, "md_flush_ok")
    BY <1>14, Zenon DEF ubi_metadata_flush_completion
  <2>1. promised' \in [Stripe -> Nat]
    BY <2>0, Promises, promised \in [Stripe -> Nat], Zenon
  <2>2. \E st \in Stages : stage' = [stage EXCEPT ![f] = st]
    BY <1>14, Zenon DEF ubi_metadata_flush_completion, Goes, Succeeds, Stages
  <2>3. stage' \in [Flush -> Stages]
    BY <2>2, StageMoves, Zenon
  <2>4. stripes_flushed' \in Nat
    BY <1>14 DEF ubi_metadata_flush_completion, Larger, FlushedBy
  <2> QED
    BY <1>14, <2>1, <2>3, <2>4, Zenon DEF ubi_metadata_flush_completion, memory, basedev
<1>15. CASE UNCHANGED vars
  BY <1>15, Zenon DEF vars, memory, flushes, basedev
<1> QED
  BY <1>1, <1>2, <1>3, <1>4, <1>5, <1>6, <1>7, <1>8, <1>9, <1>10, <1>11, <1>12, <1>13, <1>14, <1>15, Zenon
     DEF Next, BaseStep, Callback

\* The flushes in progress end with the process.
LEMMA IdleNext ==
  ASSUME IdleInv, [Next]_vars
  PROVE  IdleInv'
<1>1. ASSUME Stops PROVE Idle'
  BY <1>1, Zenon DEF Stops, Idle
<1>2. ASSUME up, up' = up PROVE IdleInv'
  BY <1>2, Zenon DEF IdleInv
<1>3. CASE ubi_finish_read_metadata
  BY <1>3, Zenon DEF ubi_finish_read_metadata, IdleInv
<1>4. CASE Kill \/ PowerLoss \/ ubi_destruct
  BY <1>1, <1>4, Zenon DEF Kill, PowerLoss, ubi_destruct, IdleInv
<1>5. ASSUME NEW s \in Stripe, write_stripe_io_completion(s) \/ ClientWrite(s) PROVE IdleInv'
  BY <1>2, <1>5, Zenon DEF write_stripe_io_completion, ClientWrite
<1>6. ASSUME NEW f \in Flush, ubi_submit_flush_request(f) PROVE IdleInv'
  BY <1>2, <1>6, Zenon DEF ubi_submit_flush_request
<1>7. ASSUME NEW f \in Flush, BaseStep(f) PROVE IdleInv'
  <2>1. stage[f] \in {"data", "md", "md_flush"} /\ up' = up
    BY <1>7, Zenon DEF BaseStep, DataFlush, MetadataWritten, MetadataFlush, MetadataCell, Goes
  <2> QED
    BY <1>2, <2>1, Zenon DEF IdleInv, Idle
<1>8. ASSUME NEW f \in Flush, Callback(f) PROVE IdleInv'
  <2>1. /\ stage[f] \in {"data_ok", "data_err", "md_ok", "md_err", "md_flush_ok", "md_flush_err"}
        /\ up' = up
    BY <1>8, Zenon DEF Callback, ubi_data_flush_completion, ubi_metadata_write_completion,
       ubi_metadata_flush_completion, Goes, Succeeds
  <2> QED
    BY <1>2, <2>1, Zenon DEF IdleInv, Idle
<1>9. CASE UNCHANGED vars
  BY <1>9, Zenon DEF vars, flushes, IdleInv, Idle
<1> QED
  BY <1>3, <1>4, <1>5, <1>6, <1>7, <1>8, <1>9, Zenon DEF Next

\* Without a write cache every write is durable, and there is nothing to lose.
LEMMA CacheNext ==
  ASSUME TypeOK, CacheInv, [Next]_vars
  PROVE  CacheInv'
<1>1. SUFFICES ASSUME ~ write_cache PROVE md_d' = md' /\ data_d' = data'
  BY Zenon DEF CacheInv
<1>2. md_d = md /\ data_d = data
  BY <1>1, Zenon DEF CacheInv
<1>3. CASE PowerLoss
  BY <1>3, Zenon DEF PowerLoss
<1>4. ASSUME NEW s \in Stripe, write_stripe_io_completion(s) \/ ClientWrite(s)
      PROVE  md_d' = md' /\ data_d' = data'
  BY <1>1, <1>2, <1>4, Zenon DEF write_stripe_io_completion, ClientWrite, Durable
<1>5. ASSUME NEW f \in Flush, DataFlush(f) PROVE md_d' = md' /\ data_d' = data'
  BY <1>2, <1>5, Zenon DEF DataFlush, TypeOK
<1>6. ASSUME NEW f \in Flush, MetadataFlush(f) PROVE md_d' = md' /\ data_d' = data'
  BY <1>2, <1>6, Zenon DEF MetadataFlush
<1>7. ASSUME NEW f \in Flush, NEW c \in Cell, MetadataCell(f, c) PROVE md_d' = md' /\ data_d' = data'
  BY <1>1, <1>2, <1>7, Zenon DEF MetadataCell, Durable
<1>8. CASE UNCHANGED basedev
  BY <1>2, <1>8, Zenon DEF basedev
<1>9. ASSUME NEW f \in Flush, ubi_submit_flush_request(f) \/ MetadataWritten(f) \/ Callback(f)
      PROVE  UNCHANGED basedev
  BY <1>9, Zenon DEF ubi_submit_flush_request, MetadataWritten, Callback, ubi_data_flush_completion,
     ubi_metadata_write_completion, ubi_metadata_flush_completion
<1>10. CASE ubi_finish_read_metadata \/ Kill \/ ubi_destruct \/ UNCHANGED vars
  BY <1>8, <1>10, Zenon DEF ubi_finish_read_metadata, Kill, ubi_destruct, vars
<1> QED
  BY <1>3, <1>4, <1>5, <1>6, <1>7, <1>8, <1>9, <1>10, Zenon DEF Next, BaseStep

\* When the base bdev reads the metadata as it writes it, no copy of the metadata
\* falls behind one made from it.
LEMMA HeaderNext ==
  ASSUME TypeOK, IdleInv, HeaderInv, ~ bounce, [Next]_vars
  PROVE  HeaderInv'
<1>0. \A c \in Cell : /\ md[c] \in {0, 1} /\ md_d[c] \in {0, 1} /\ metadata[c] \in {0, 1}
                      /\ md_d[c] <= md[c]
  BY Zenon DEF TypeOK, HeaderInv
<1>1. CASE ubi_finish_read_metadata
  <2>1. md_d' = md_d /\ md' = md /\ up'
    BY <1>1, Zenon DEF ubi_finish_read_metadata, basedev
  <2>2. metadata'[Magic] = 1 /\ \A c \in Cell : metadata'[c] = md[c] \/ metadata'[c] = 1
    BY <1>1, CellFacts, Zenon DEF ubi_finish_read_metadata, InMemory, TypeOK
  <2>3. \A c \in Cell : md[c] <= metadata'[c]
    BY <1>0, <2>2
  <2> QED
    BY <1>0, <2>1, <2>2, <2>3, Zenon DEF HeaderInv
<1>2. CASE Kill \/ ubi_destruct
  BY <1>2, Zenon DEF Kill, ubi_destruct, Stops, basedev, HeaderInv
<1>3. CASE PowerLoss
  <2>1. ~ up' /\ md' = md_d'
    BY <1>3, Zenon DEF PowerLoss, Stops
  <2>2. \A c \in Cell : md_d'[c] \in {md[c], md_d[c]}
    BY <1>3, Zenon DEF PowerLoss
  <2>3. \A c \in Cell : md_d'[c] <= md_d'[c]
    BY <1>0, <2>2
  <2> QED
    BY <2>1, <2>3, Zenon DEF HeaderInv
<1>4. ASSUME NEW s \in Stripe, write_stripe_io_completion(s) PROVE HeaderInv'
  <2>1. up /\ UNCHANGED <<up, md, md_d>> /\ metadata' = [metadata EXCEPT ![s] = 1]
    BY <1>4, Zenon DEF write_stripe_io_completion
  <2>2. metadata'[Magic] = 1 /\ \A c \in Cell : metadata'[c] = metadata[c] \/ metadata'[c] = 1
    BY <2>1, CellFacts, Zenon DEF TypeOK, HeaderInv
  <2>3. \A c \in Cell : md[c] <= metadata[c]
    BY <2>1, Zenon DEF HeaderInv
  <2>4. \A c \in Cell : md[c] <= metadata'[c]
    BY <1>0, <2>2, <2>3
  <2> QED
    BY <1>0, <2>1, <2>2, <2>4, Zenon DEF HeaderInv
<1>5. ASSUME NEW f \in Flush, NEW c \in Cell, MetadataCell(f, c) PROVE HeaderInv'
  <2>1. up /\ UNCHANGED <<up, metadata>>
    BY <1>5, Zenon DEF MetadataCell, memory, IdleInv, Idle
  <2>2. md' = [md EXCEPT ![c] = metadata[c]] /\ md_d' = IF write_cache THEN md_d ELSE md'
    BY <1>5, Zenon DEF MetadataCell, Durable
  <2>3. \A d \in Cell : md[d] <= metadata[d]
    BY <2>1, Zenon DEF HeaderInv
  <2>4. \A d \in Cell : md'[d] \in {md[d], metadata[d]} /\ md_d'[d] \in {md_d[d], md'[d]}
    BY <2>2, Zenon DEF TypeOK
  <2>5. \A d \in Cell : md_d'[d] <= md'[d] /\ md'[d] <= metadata[d]
    BY <1>0, <2>3, <2>4
  <2> QED
    BY <2>1, <2>5, Zenon DEF HeaderInv
<1>6. ASSUME NEW f \in Flush, MetadataFlush(f) PROVE HeaderInv'
  <2>1. UNCHANGED <<up, metadata, md>> /\ md_d' \in {md, md_d}
    BY <1>6, Zenon DEF MetadataFlush, memory
  <2>2. \A c \in Cell : md_d'[c] <= md[c]
    BY <1>0, <2>1
  <2> QED
    BY <2>1, <2>2, Zenon DEF HeaderInv
<1>7. ASSUME UNCHANGED <<up, metadata, md, md_d>> PROVE HeaderInv'
  BY <1>7, Zenon DEF HeaderInv
<1>8. ASSUME NEW s \in Stripe, ClientWrite(s) PROVE HeaderInv'
  BY <1>7, <1>8, Zenon DEF ClientWrite, memory
<1>9. ASSUME NEW f \in Flush, \/ ubi_submit_flush_request(f) \/ DataFlush(f) \/ MetadataWritten(f)
                              \/ Callback(f)
      PROVE  HeaderInv'
  BY <1>7, <1>9, Zenon DEF ubi_submit_flush_request, DataFlush, MetadataWritten, Callback,
     ubi_data_flush_completion, ubi_metadata_write_completion, ubi_metadata_flush_completion,
     memory, basedev
<1>10. CASE UNCHANGED vars
  BY <1>7, <1>10, Zenon DEF vars, memory, basedev
<1> QED
  BY <1>1, <1>2, <1>3, <1>4, <1>5, <1>6, <1>8, <1>9, <1>10, Zenon DEF Next, BaseStep

\* The counters grow together.
LEMMA OrderNext ==
  ASSUME Countable, TypeOK, OrderInv, IdleInv, [Next]_vars
  PROVE  OrderInv'
<1> USE FlushAssumption DEF OrderInv, TypeOK, Cell, MdStages, Stages
<1>1. CASE ubi_finish_read_metadata
  <2>1. stripes_fetched' \in Nat /\ stripes_flushed' = stripes_fetched'
    BY <1>1 DEF ubi_finish_read_metadata, InMemory, Countable
  <2>2. \A f \in Flush : ~ (stage'[f] \in MdStages)
    BY <1>1, Zenon DEF ubi_finish_read_metadata, InMemory, flushes, IdleInv, Idle
  <2> QED
    BY <1>1, <2>1, <2>2 DEF ubi_finish_read_metadata, InMemory, flushes
<1>2. CASE Kill
  BY <1>2, Zenon DEF Kill, Stops, memory, flushes, basedev
<1>3. CASE PowerLoss
  BY <1>3, Zenon DEF PowerLoss, Stops, memory, flushes, basedev
<1>4. CASE ubi_destruct
  BY <1>4, Zenon DEF ubi_destruct, Stops, memory, flushes, basedev
<1>5. ASSUME NEW s \in Stripe, write_stripe_io_completion(s) PROVE OrderInv'
  BY <1>5 DEF write_stripe_io_completion, memory, flushes, basedev
<1>6. ASSUME NEW s \in Stripe, ClientWrite(s) PROVE OrderInv'
  BY <1>6, Zenon DEF ClientWrite, Durable, memory, flushes, basedev
<1>7. ASSUME NEW f \in Flush, ubi_submit_flush_request(f) PROVE OrderInv'
  BY <1>7 DEF ubi_submit_flush_request, Goes, Succeeds, memory, flushes, basedev
<1>8. ASSUME NEW f \in Flush, DataFlush(f) PROVE OrderInv'
  BY <1>8 DEF DataFlush, Goes, memory, flushes, basedev
<1>9. ASSUME NEW f \in Flush, ubi_data_flush_completion(f) PROVE OrderInv'
  BY <1>9 DEF ubi_data_flush_completion, Goes, Succeeds, memory, flushes, basedev
<1>10. ASSUME NEW f \in Flush, NEW c \in Cell, MetadataCell(f, c) PROVE OrderInv'
  BY <1>10, Zenon DEF MetadataCell, Durable, memory, flushes, basedev
<1>11. ASSUME NEW f \in Flush, MetadataWritten(f) PROVE OrderInv'
  <2>1. /\ UNCHANGED <<up, stripes_flushed, stripes_fetched, order, fetched_at>> /\ stage[f] = "md"
        /\ \E to \in Stages : stage' = [stage EXCEPT ![f] = to]
    BY <1>11, Zenon DEF MetadataWritten, Goes, memory
  <2>2. \A g \in Flush : stage'[g] \in MdStages => stage[g] \in MdStages
    BY <2>1, StageMoves, Zenon
  <2> QED
    BY <2>1, <2>2, Zenon
<1>12. ASSUME NEW f \in Flush, ubi_metadata_write_completion(f) PROVE OrderInv'
  BY <1>12 DEF ubi_metadata_write_completion, FailedWrite, Goes, memory, flushes, basedev
<1>13. ASSUME NEW f \in Flush, MetadataFlush(f) PROVE OrderInv'
  BY <1>13 DEF MetadataFlush, Goes, memory, flushes, basedev
<1>14. ASSUME NEW f \in Flush, ubi_metadata_flush_completion(f) PROVE OrderInv'
  BY <1>14 DEF ubi_metadata_flush_completion, Goes, Succeeds, FlushedBy, Larger, memory, flushes, basedev
<1>15. CASE UNCHANGED vars
  BY <1>15, Zenon DEF vars, memory, flushes, basedev
<1> HIDE DEF OrderInv, TypeOK, Cell, MdStages, Stages
<1> QED
  BY <1>1, <1>2, <1>3, <1>4, <1>5, <1>6, <1>7, <1>8, <1>9, <1>10, <1>11, <1>12, <1>13, <1>14, <1>15, Zenon
     DEF Next, BaseStep, Callback

\* A flush is past its submission only while the bdev is up.
LEMMA UpWhileFlushing ==
  ASSUME IdleInv, NEW f \in Flush, stage[f] \notin {"new", "ok", "failed", "gone"}
  PROVE  up
BY Zenon DEF IdleInv, Idle

\* The stages in which the metadata on the base bdev may be ahead of the durable one.
Ahead == {"md", "md_ok", "md_flush"}

\* A step that leaves the metadata alone.
LEMMA MetadataFrame ==
  ASSUME MetadataInv, IdleInv', CacheInv', HeaderInv', up,
         UNCHANGED <<up, metadata, stripe_status, md, md_d>>,
         \/ "delete" \notin Ends
         \/ md_d = md
         \/ \A g \in Flush : stage[g] \in Ahead => stage'[g] \in Ahead
  PROVE  MetadataInv'
<1>1. "delete" \in Ends => md_d' = md' \/ \E g \in Flush : stage'[g] \in Ahead
  BY Zenon DEF MetadataInv, Ahead
<1> QED
  BY <1>1, Zenon DEF MetadataInv, Ahead

\* A flush that moves on, neither from nor to the stages that write the metadata.
LEMMA MetadataMoves ==
  ASSUME TypeOK, MetadataInv, IdleInv', CacheInv', HeaderInv', up,
         NEW f \in Flush, NEW to, stage' = [stage EXCEPT ![f] = to],
         stage[f] \notin Ahead \/ to \in Ahead, UNCHANGED <<up, metadata, stripe_status, md, md_d>>
  PROVE  MetadataInv'
<1>1. \A g \in Flush : stage[g] \in Ahead => stage'[g] \in Ahead
  BY Zenon DEF TypeOK
<1> QED
  BY <1>1, MetadataFrame, Zenon

\* The metadata in memory, on the base bdev and durable stay in order.
LEMMA MetadataNext ==
  ASSUME TypeOK, MetadataInv, SafeSetting, [Next]_vars
  PROVE  MetadataInv'
<1>0. ~ write_cache => md_d = md
  BY Zenon DEF MetadataInv, CacheInv
<1>a. IdleInv /\ IdleInv' /\ CacheInv' /\ HeaderInv'
  BY IdleNext, CacheNext, HeaderNext, Zenon DEF MetadataInv, SafeSetting
<1>1. CASE ubi_finish_read_metadata
  <2>1. md_d' = md' /\ up'
    BY <1>1, Zenon DEF ubi_finish_read_metadata, basedev, MetadataInv
  <2>2. \A s \in Stripe : stripe_status'[s] = "FETCHED" => metadata'[s] = 1
    BY <1>1, CellFacts, Zenon DEF ubi_finish_read_metadata, InMemory, Fetched, TypeOK
  <2> QED
    BY <1>a, <2>1, <2>2, Zenon DEF MetadataInv
<1>2. ASSUME ~ up', md_d' = md' PROVE MetadataInv'
  BY <1>a, <1>2, Zenon DEF MetadataInv
<1>3. CASE PowerLoss
  BY <1>2, <1>3, Zenon DEF PowerLoss, Stops
<1>4. CASE Kill \/ ubi_destruct
  <2>1. md_d = md
    BY <1>0, <1>4, Zenon DEF Kill, ubi_destruct, SafeSetting, MetadataInv, Idle
  <2> QED
    BY <1>2, <1>4, <2>1, Zenon DEF Kill, ubi_destruct, Stops, basedev
<1>5. ASSUME NEW s \in Stripe, write_stripe_io_completion(s) PROVE MetadataInv'
  <2>1. /\ up /\ UNCHANGED <<up, md, md_d, stage>> /\ metadata' = [metadata EXCEPT ![s] = 1]
        /\ stripe_status' = [stripe_status EXCEPT ![s] = "FETCHED"]
    BY <1>5, Zenon DEF write_stripe_io_completion, flushes
  <2>2. \A t \in Stripe : stripe_status'[t] = "FETCHED" => metadata'[t] = 1
    BY <2>1, CellFacts, Zenon DEF TypeOK, MetadataInv
  <2> QED
    BY <1>a, <2>1, <2>2, Zenon DEF MetadataInv
<1>6. ASSUME NEW s \in Stripe, ClientWrite(s) PROVE MetadataInv'
  BY <1>a, <1>6, MetadataFrame, Zenon DEF ClientWrite, memory, flushes
<1>7. ASSUME NEW f \in Flush, ubi_submit_flush_request(f) PROVE MetadataInv'
  <2>1. stage[f] = "new" /\ up /\ \E to : stage' = [stage EXCEPT ![f] = to]
    BY <1>7, Zenon DEF ubi_submit_flush_request, Goes, Succeeds
  <2>2. UNCHANGED <<up, metadata, stripe_status, md, md_d>>
    BY <1>7, Zenon DEF ubi_submit_flush_request, memory, basedev
  <2> QED
    BY <1>a, <2>1, <2>2, MetadataMoves, Zenon DEF Ahead
<1>8. ASSUME NEW f \in Flush, DataFlush(f) PROVE MetadataInv'
  <2>1. stage[f] = "data" /\ \E to : stage' = [stage EXCEPT ![f] = to]
    BY <1>8, Zenon DEF DataFlush, Goes
  <2>2. UNCHANGED <<up, metadata, stripe_status, md, md_d>> /\ up
    BY <1>8, <1>a, <2>1, UpWhileFlushing, Zenon DEF DataFlush, memory
  <2> QED
    BY <1>a, <2>1, <2>2, MetadataMoves, Zenon DEF Ahead
<1>9. ASSUME NEW f \in Flush, ubi_data_flush_completion(f) PROVE MetadataInv'
  <2>1. stage[f] \in {"data_ok", "data_err"} /\ \E to : stage' = [stage EXCEPT ![f] = to]
    BY <1>9, Zenon DEF ubi_data_flush_completion, Goes, Succeeds
  <2>2. UNCHANGED <<up, metadata, stripe_status, md, md_d>> /\ up
    BY <1>9, <1>a, <2>1, UpWhileFlushing, Zenon DEF ubi_data_flush_completion, memory, basedev
  <2> QED
    BY <1>a, <2>1, <2>2, MetadataMoves, Zenon DEF Ahead
<1>10. ASSUME NEW f \in Flush, NEW c \in Cell, MetadataCell(f, c) PROVE MetadataInv'
  <2>1. stage[f] = "md" /\ UNCHANGED <<up, stage, metadata, stripe_status>> /\ up
    BY <1>10, <1>a, UpWhileFlushing, Zenon DEF MetadataCell, memory
  <2> QED
    BY <1>a, <2>1, Zenon DEF MetadataInv
<1>11. ASSUME NEW f \in Flush, MetadataWritten(f) PROVE MetadataInv'
  <2>1. /\ stage[f] = "md"
        /\ \/ stage' = [stage EXCEPT ![f] = "md_ok"]
           \/ "md_write" \in Faults /\ stage' = [stage EXCEPT ![f] = "md_err"]
    BY <1>11, Zenon DEF MetadataWritten, Goes
  <2>2. UNCHANGED <<up, metadata, stripe_status, md, md_d>> /\ up
    BY <1>11, <1>a, <2>1, UpWhileFlushing, Zenon DEF MetadataWritten, memory, basedev
  <2>3. CASE stage' = [stage EXCEPT ![f] = "md_ok"]
    BY <1>a, <2>2, <2>3, MetadataMoves, Zenon DEF Ahead
  <2>4. CASE "md_write" \in Faults
    <3>1. "delete" \notin Ends \/ md_d = md
      BY <1>0, <2>4, Zenon DEF SafeSetting
    <3> QED
      BY <1>a, <2>2, <3>1, MetadataFrame, Zenon
  <2> QED
    BY <2>1, <2>3, <2>4, Zenon
<1>12. ASSUME NEW f \in Flush, ubi_metadata_write_completion(f) PROVE MetadataInv'
  <2>1. \/ stage[f] = "md_err" /\ stage' = [stage EXCEPT ![f] = "failed"]
        \/ "md_flush_submit" \in Faults
        \/ stage[f] = "md_ok" /\ stage' = [stage EXCEPT ![f] = "md_flush"]
    BY <1>12, Zenon DEF ubi_metadata_write_completion, FailedWrite, Goes
  <2>2. UNCHANGED <<up, metadata, stripe_status, md, md_d>> /\ up
    BY <1>12, <1>a, UpWhileFlushing, Zenon DEF ubi_metadata_write_completion, Goes, memory, basedev
  <2>3. CASE "md_flush_submit" \in Faults
    <3>1. "delete" \notin Ends \/ md_d = md
      BY <1>0, <2>3, Zenon DEF SafeSetting
    <3> QED
      BY <1>a, <2>2, <3>1, MetadataFrame, Zenon
  <2>4. CASE stage[f] = "md_err" /\ stage' = [stage EXCEPT ![f] = "failed"]
    BY <1>a, <2>2, <2>4, MetadataMoves, Zenon DEF Ahead
  <2>5. CASE stage[f] = "md_ok" /\ stage' = [stage EXCEPT ![f] = "md_flush"]
    BY <1>a, <2>2, <2>5, MetadataMoves, Zenon DEF Ahead
  <2> QED
    BY <2>1, <2>3, <2>4, <2>5, Zenon
<1>13. ASSUME NEW f \in Flush, MetadataFlush(f) PROVE MetadataInv'
  <2>1. stage[f] = "md_flush" /\ UNCHANGED <<up, metadata, stripe_status, md>> /\ up
    BY <1>13, <1>a, UpWhileFlushing, Zenon DEF MetadataFlush, Goes, memory
  <2>2. md_d' = md \/ ("md_flush" \in Faults /\ md_d' = md_d)
    BY <1>13, Zenon DEF MetadataFlush
  <2>3. md_d' = md \/ "delete" \notin Ends
    BY <1>0, <2>2, Zenon DEF SafeSetting
  <2> QED
    BY <1>a, <2>1, <2>3, Zenon DEF MetadataInv
<1>14. ASSUME NEW f \in Flush, ubi_metadata_flush_completion(f) PROVE MetadataInv'
  <2>1. /\ stage[f] \in {"md_flush_ok", "md_flush_err"}
        /\ \E to : stage' = [stage EXCEPT ![f] = to]
    BY <1>14, Zenon DEF ubi_metadata_flush_completion, Goes, Succeeds
  <2>2. UNCHANGED <<up, metadata, stripe_status, md, md_d>> /\ up
    BY <1>14, <1>a, <2>1, UpWhileFlushing, Zenon DEF ubi_metadata_flush_completion, basedev
  <2> QED
    BY <1>a, <2>1, <2>2, MetadataMoves, Zenon DEF Ahead
<1>15. CASE UNCHANGED vars
  BY <1>a, <1>15, Zenon DEF MetadataInv, vars, memory, flushes, basedev
<1> QED
  BY <1>1, <1>3, <1>4, <1>5, <1>6, <1>7, <1>8, <1>9, <1>10, <1>11, <1>12, <1>13, <1>14, <1>15, Zenon
     DEF Next, BaseStep, Callback

\* Headers are set after the base writes of their stripes.
LEMMA ImageNext ==
  ASSUME TypeOK, IdleInv, CacheInv, ImageInv, [Next]_vars
  PROVE  ImageInv'
<1>0. ASSUME data' = data, \A s \in Stripe : HeaderSet(s)' => HeaderSet(s) PROVE ImageInv'
  BY <1>0, Zenon DEF ImageInv
<1>1. ASSUME UNCHANGED <<up, md, metadata, copied, data>> PROVE ImageInv'
  BY <1>0, <1>1, Zenon DEF HeaderSet
<1>2. CASE ubi_finish_read_metadata
  <2>1. data' = data /\ md' = md /\ copied' = copied /\ metadata' = [md EXCEPT ![Magic] = 1]
    BY <1>2, Zenon DEF ubi_finish_read_metadata, InMemory, basedev, flushes
  <2>2. \A s \in Stripe : metadata'[s] = md[s]
    BY <2>1, CellFacts, Zenon DEF TypeOK
  <2>3. \A s \in Stripe : HeaderSet(s)' => HeaderSet(s)
    BY <2>1, <2>2, Zenon DEF HeaderSet
  <2> QED
    BY <1>0, <2>1, <2>3, Zenon
<1>3. ASSUME Stops, md' = md, data' = data PROVE ImageInv'
  <2>1. ~ up' /\ copied' = [f \in Flush |-> [c \in Cell |-> 0]]
    BY <1>3, Zenon DEF Stops
  <2>2. \A f \in Flush, s \in Stripe : copied'[f][s] # 1
    BY <2>1, CellFacts
  <2>3. \A s \in Stripe : HeaderSet(s)' => HeaderSet(s)
    BY <1>3, <2>1, <2>2, Zenon DEF HeaderSet
  <2> QED
    BY <1>0, <1>3, <2>3, Zenon
<1>4. CASE PowerLoss
  <2>1. Stops /\ md' = md_d' /\ data' = data_d'
    BY <1>4, Zenon DEF PowerLoss
  <2>2. ASSUME ~ write_cache PROVE md_d' = md /\ data_d' = data
    <3>1. md_d = md /\ data_d = data
      BY <2>2, Zenon DEF CacheInv
    <3> QED
      BY <1>4, <3>1, Zenon DEF PowerLoss, TypeOK
  <2> QED
    BY <1>3, <2>1, <2>2, Zenon DEF ImageInv
<1>5. ASSUME NEW s \in Stripe, write_stripe_io_completion(s) PROVE ImageInv'
  <2>0. PICK v \in {0, Unwritten} : data' = [data EXCEPT ![s] = v]
    BY <1>5, StripeOutcome, Zenon
  <2>1. metadata' = [metadata EXCEPT ![s] = 1] /\ UNCHANGED <<up, md, copied>>
    BY <1>5, Zenon DEF write_stripe_io_completion, flushes
  <2>2. \A t \in Stripe : t # s => data'[t] = data[t] /\ metadata'[t] = metadata[t]
    BY <2>0, <2>1, CellFacts, Zenon DEF TypeOK
  <2>3. \A t \in Stripe : t # s => (HeaderSet(t)' => HeaderSet(t))
    BY <2>1, <2>2, Zenon DEF HeaderSet
  <2>4. data'[s] >= 0 \/ data'[s] = Unwritten
    BY <2>0 DEF TypeOK
  <2> QED
    BY <2>2, <2>3, <2>4, Zenon DEF ImageInv
<1>6. ASSUME NEW s \in Stripe, ClientWrite(s) PROVE ImageInv'
  <2>1. data' = [data EXCEPT ![s] = last[s] + 1] /\ UNCHANGED <<up, md, metadata, copied>>
    BY <1>6, Zenon DEF ClientWrite, memory, flushes
  <2>2. data'[s] >= 0 /\ \A t \in Stripe : t # s => data'[t] = data[t]
    BY <2>1 DEF TypeOK
  <2>3. \A t \in Stripe : HeaderSet(t)' => HeaderSet(t)
    BY <2>1, Zenon DEF HeaderSet
  <2> QED
    BY <2>2, <2>3, Zenon DEF ImageInv
<1>9. ASSUME NEW f \in Flush, ubi_data_flush_completion(f) PROVE ImageInv'
  <2>1. /\ UNCHANGED <<up, md, metadata, data>>
        /\ copied' = copied \/ copied' = [copied EXCEPT ![f] = metadata]
    BY <1>9, Zenon DEF ubi_data_flush_completion, memory, basedev
  <2>2. copied' # copied => up
    BY <1>9, UpWhileFlushing, Zenon DEF ubi_data_flush_completion, Goes
  <2>3. \A g \in Flush : copied'[g] = copied[g] \/ (up /\ copied'[g] = metadata)
    BY <2>1, <2>2, Zenon DEF TypeOK
  <2> QED
    BY <1>0, <2>1, <2>3, Zenon DEF HeaderSet
<1>10. ASSUME NEW f \in Flush, NEW c \in Cell, MetadataCell(f, c) PROVE ImageInv'
  <2>1. up /\ UNCHANGED <<up, data, metadata, copied>>
    BY <1>10, UpWhileFlushing, Zenon DEF MetadataCell, memory
  <2>2. md' = [md EXCEPT ![c] = copied[f][c]] \/ md' = [md EXCEPT ![c] = metadata[c]]
    BY <1>10, Zenon DEF MetadataCell
  <2>3. md \in [Cell -> {0, 1}]
    BY Zenon DEF TypeOK
  <2>4. \A s \in Stripe : md'[s] = md[s] \/ md'[s] = metadata[s] \/ md'[s] = copied[f][s]
    BY <2>2, <2>3, CellFacts, Zenon
  <2> QED
    BY <1>0, <2>1, <2>4, Zenon DEF HeaderSet
<1>11. CASE Kill \/ ubi_destruct
  BY <1>3, <1>11, Zenon DEF Kill, ubi_destruct, basedev
<1>12. ASSUME NEW f \in Flush, \/ ubi_submit_flush_request(f) \/ DataFlush(f) \/ MetadataWritten(f)
                               \/ MetadataFlush(f) \/ ubi_metadata_write_completion(f)
                               \/ ubi_metadata_flush_completion(f)
       PROVE  ImageInv'
  BY <1>12, <1>1, Zenon
     DEF ubi_submit_flush_request, DataFlush, MetadataWritten, MetadataFlush,
         ubi_metadata_write_completion, ubi_metadata_flush_completion, memory, basedev
<1>13. CASE UNCHANGED vars
  BY <1>13, <1>1, Zenon DEF vars, memory, flushes, basedev
<1> QED
  BY <1>2, <1>4, <1>5, <1>6, <1>9, <1>10, <1>11, <1>12, <1>13, Zenon DEF Next, BaseStep, Callback

\* A step that fetches no stripe and takes no header back: each flush goes on as
\* before, or its progress is established anew.
LEMMA ProgressFrame ==
  ASSUME ProgressInv, up' => up, UNCHANGED <<stripe_status, order, stripes_flushed>>,
         \A c \in Cell : (md[c] = 1 => md'[c] = 1) /\ (md_d[c] = 1 => md_d'[c] = 1),
         \A g \in Flush : \/ /\ stage'[g] = stage[g] /\ todo'[g] = todo[g]
                             /\ fetched_at'[g] = fetched_at[g]
                          \/ FlushProgress(g)'
  PROVE  ProgressInv'
<1>1. ASSUME NEW m, NEW n, NEW l, \A c \in Cell : m[c] = 1 => n[c] = 1, Records(m, l)
      PROVE  \A s \in Stripe : stripe_status'[s] = "FETCHED" /\ order'[s] <= l
                                 => n[s] = 1 /\ n[Magic] = 1
  BY <1>1, CellFacts, Zenon DEF Records
<1>2. up' => Records(md_d, stripes_flushed)'
  BY <1>1, Zenon DEF ProgressInv, Records
<1>3. ASSUME NEW g \in Flush, stage'[g] = stage[g], todo'[g] = todo[g], fetched_at'[g] = fetched_at[g]
      PROVE  FlushProgress(g)'
  <2>0. FlushProgress(g)
    BY Zenon DEF ProgressInv
  <2>1. ASSUME stage[g] \in {"md_ok", "md_flush"} PROVE Records(md, fetched_at[g])'
    <3>1. Records(md, fetched_at[g])
      BY <2>0, <2>1, Zenon DEF FlushProgress
    <3>2. \A s \in Stripe : stripe_status'[s] = "FETCHED" /\ order'[s] <= fetched_at[g]
                              => md'[s] = 1 /\ md'[Magic] = 1
      BY <1>1, <3>1, Zenon
    <3> QED
      BY <1>3, <3>2, Zenon DEF Records
  <2>2. ASSUME stage[g] = "md_flush_ok" PROVE Records(md_d, fetched_at[g])'
    <3>1. Records(md_d, fetched_at[g])
      BY <2>0, <2>2, Zenon DEF FlushProgress
    <3>2. \A s \in Stripe : stripe_status'[s] = "FETCHED" /\ order'[s] <= fetched_at[g]
                              => md_d'[s] = 1 /\ md_d'[Magic] = 1
      BY <1>1, <3>1, Zenon
    <3> QED
      BY <1>3, <3>2, Zenon DEF Records
  <2>3. stage[g] = "md" =>
          /\ Magic \in todo'[g] \/ md'[Magic] = 1
          /\ \A s \in Stripe : stripe_status'[s] = "FETCHED" /\ order'[s] <= fetched_at'[g]
                                 => s \in todo'[g] \/ md'[s] = 1
    BY <1>3, <2>0, CellFacts, Zenon DEF FlushProgress
  <2> QED
    BY <1>3, <2>1, <2>2, <2>3, Zenon DEF FlushProgress
<1> QED
  BY <1>2, <1>3, Zenon DEF ProgressInv

\* Progress is about the stages that write the metadata.
LEMMA NoProgress ==
  ASSUME NEW g \in Flush, stage'[g] \notin MdStages PROVE FlushProgress(g)'
BY Zenon DEF FlushProgress, MdStages

\* The metadata of a flush records every stripe fetched before it was captured.
LEMMA ProgressNext ==
  ASSUME TypeOK, OrderInv, MetadataInv, ProgressInv, SafeSetting, [Next]_vars
  PROVE  ProgressInv'
<1>0. ASSUME NEW f \in Flush, NEW to, stage' = [stage EXCEPT ![f] = to],
             UNCHANGED <<up, stripe_status, order, stripes_flushed, md, todo, fetched_at>>,
             \A c \in Cell : md_d[c] = 1 => md_d'[c] = 1,
             to \notin MdStages \/ FlushProgress(f)'
      PROVE  ProgressInv'
  <2>1. \A g \in Flush : g # f => stage'[g] = stage[g]
    BY <1>0, Zenon DEF TypeOK
  <2>2. stage'[f] = to
    BY <1>0, Zenon DEF TypeOK
  <2>3. FlushProgress(f)'
    BY <1>0, <2>2, NoProgress, Zenon
  <2> QED
    BY <1>0, <2>1, <2>3, ProgressFrame, Zenon
<1>1. CASE ubi_finish_read_metadata
  <2>1. /\ \A f \in Flush : stage'[f] \notin MdStages
        /\ md_d' = md
    BY <1>1, Zenon DEF ubi_finish_read_metadata, flushes, basedev, MetadataInv, IdleInv, Idle, MdStages
  <2>2. \A s \in Stripe : stripe_status'[s] = "FETCHED" => md[s] = 1 /\ md[Magic] = 1
    BY <1>1, CellFacts, Zenon DEF ubi_finish_read_metadata, Fetched, TypeOK
  <2>3. Records(md_d, stripes_flushed)'
    BY <2>1, <2>2, Zenon DEF Records
  <2> QED
    BY <2>1, <2>3, NoProgress, Zenon DEF ProgressInv
<1>2. ASSUME Stops PROVE ProgressInv'
  <2>1. ~ up' /\ \A f \in Flush : stage'[f] \in {"new", "ok", "failed", "gone"}
    BY <1>2, Zenon DEF Stops
  <2>2. \A f \in Flush : FlushProgress(f)'
    BY <2>1, NoProgress, Zenon DEF MdStages
  <2> QED
    BY <2>1, <2>2, Zenon DEF ProgressInv
<1>5. ASSUME NEW s \in Stripe, write_stripe_io_completion(s) PROVE ProgressInv'
  <2>1. /\ up /\ UNCHANGED <<up, stripes_flushed, stage, todo, fetched_at, md, md_d>>
        /\ order' = [order EXCEPT ![s] = stripes_fetched + 1]
        /\ stripe_status' = [stripe_status EXCEPT ![s] = "FETCHED"]
    BY <1>5, Zenon DEF write_stripe_io_completion, flushes
  <2>2. /\ order'[s] = stripes_fetched + 1 /\ stripes_fetched \in Nat
        /\ \A t \in Stripe : t # s => order'[t] = order[t] /\ stripe_status'[t] = stripe_status[t]
    BY <2>1, Zenon DEF TypeOK
  <2>3. ASSUME NEW l \in Nat, l <= stripes_fetched, NEW t \in Stripe,
               stripe_status'[t] = "FETCHED", order'[t] <= l
        PROVE  stripe_status[t] = "FETCHED" /\ order[t] <= l
    BY <2>2, <2>3
  <2>4. Records(md_d, stripes_flushed)'
    <3>1. stripes_flushed \in Nat /\ stripes_flushed <= stripes_fetched /\ Records(md_d, stripes_flushed)
      BY <2>1, Zenon DEF TypeOK, OrderInv, ProgressInv
    <3> QED
      BY <2>1, <2>3, <3>1, Zenon DEF Records
  <2>5. ASSUME NEW f \in Flush, stage[f] \in MdStages PROVE FlushProgress(f)'
    <3>1. fetched_at[f] \in Nat /\ fetched_at[f] <= stripes_fetched /\ FlushProgress(f)
      BY <2>1, <2>5, Zenon DEF TypeOK, OrderInv, ProgressInv
    <3> QED
      BY <2>1, <2>3, <3>1, Zenon DEF FlushProgress, Records
  <2> QED
    BY <2>1, <2>4, <2>5, NoProgress, Zenon DEF ProgressInv
<1>6. ASSUME NEW s \in Stripe, ClientWrite(s) PROVE ProgressInv'
  BY <1>6, ProgressFrame, Zenon DEF ClientWrite, memory, flushes
<1>7. ASSUME NEW f \in Flush, ubi_submit_flush_request(f) PROVE ProgressInv'
  <2>1. \E to \in {"ok", "failed", "data"} : stage' = [stage EXCEPT ![f] = to]
    BY <1>7, Zenon DEF ubi_submit_flush_request, Goes, Succeeds
  <2>2. UNCHANGED <<up, stripe_status, order, stripes_flushed, md, md_d, todo, fetched_at>>
    BY <1>7, Zenon DEF ubi_submit_flush_request, memory, basedev
  <2> QED
    BY <1>0, <2>1, <2>2, Zenon DEF MdStages
<1>8. ASSUME NEW f \in Flush, DataFlush(f) PROVE ProgressInv'
  <2>1. \E to \in {"data_ok", "data_err"} : stage' = [stage EXCEPT ![f] = to]
    BY <1>8, Zenon DEF DataFlush, Goes
  <2>2. UNCHANGED <<up, stripe_status, order, stripes_flushed, md, md_d, todo, fetched_at>>
    BY <1>8, Zenon DEF DataFlush, memory
  <2> QED
    BY <1>0, <2>1, <2>2, Zenon DEF MdStages
<1>9. ASSUME NEW f \in Flush, ubi_data_flush_completion(f) PROVE ProgressInv'
  <2>1. UNCHANGED <<up, stripe_status, order, stripes_flushed, md, md_d>>
    BY <1>9, Zenon DEF ubi_data_flush_completion, memory, basedev
  <2>2. \A g \in Flush : g # f => /\ stage'[g] = stage[g] /\ todo'[g] = todo[g]
                                  /\ fetched_at'[g] = fetched_at[g]
    BY <1>9, Zenon DEF ubi_data_flush_completion, Goes, Succeeds, TypeOK
  <2>3. stage'[f] \in {"lost", "ok", "failed"} \/ (stage'[f] = "md" /\ todo'[f] = Cell)
    BY <1>9, Zenon DEF ubi_data_flush_completion, Goes, Succeeds, TypeOK
  <2>4. FlushProgress(f)'
    BY <2>3, CellFacts, Zenon DEF FlushProgress
  <2> QED
    BY <2>1, <2>2, <2>4, ProgressFrame, Zenon
<1>10. ASSUME NEW f \in Flush, NEW c \in Cell, MetadataCell(f, c) PROVE ProgressInv'
  <2>1. /\ stage[f] = "md" /\ todo' = [todo EXCEPT ![f] = @ \ {c}]
        /\ UNCHANGED <<up, stage, fetched_at, stripe_status, order, stripes_flushed>>
    BY <1>10, Zenon DEF MetadataCell, memory
  <2>2. md' = [md EXCEPT ![c] = metadata[c]] /\ md_d' \in {md_d, md'}
    BY <1>10, Zenon DEF MetadataCell, Durable, SafeSetting
  <2>3. up
    BY <2>1, UpWhileFlushing, Zenon DEF MetadataInv
  <2>4. \A d \in Cell : /\ md[d] = 1 => metadata[d] = 1
                        /\ md_d[d] = 1 => md[d] = 1
    BY <2>3 DEF TypeOK, MetadataInv, HeaderInv
  <2>5. \A d \in Cell : (md[d] = 1 => md'[d] = 1) /\ (md_d[d] = 1 => md_d'[d] = 1)
    BY <2>2, <2>4 DEF TypeOK
  <2>6. FlushProgress(f)'
    <3>1. \A d \in Cell : d \in todo[f] => d \in todo'[f] \/ d = c
      BY <2>1, Zenon DEF TypeOK
    <3>2. /\ metadata[Magic] = 1
          /\ \A s \in Stripe : stripe_status[s] = "FETCHED" => metadata[s] = 1
      BY <2>3, Zenon DEF MetadataInv, HeaderInv
    <3>3. md'[c] = metadata[c]
      BY <2>2, Zenon DEF TypeOK
    <3>4. FlushProgress(f)
      BY Zenon DEF ProgressInv
    <3>5. Magic \in todo'[f] \/ md'[Magic] = 1
      BY <2>1, <2>5, <3>1, <3>2, <3>3, <3>4, CellFacts, Zenon DEF FlushProgress
    <3>6. ASSUME NEW s \in Stripe, stripe_status[s] = "FETCHED", order[s] <= fetched_at[f]
          PROVE  s \in todo'[f] \/ md'[s] = 1
      <4>1. s \in Cell /\ (s \in todo[f] \/ md[s] = 1)
        BY <2>1, <3>4, <3>6, CellFacts, Zenon DEF FlushProgress
      <4> QED
        BY <2>5, <3>1, <3>2, <3>3, <3>6, <4>1, Zenon
    <3> QED
      BY <2>1, <3>5, <3>6, Zenon DEF FlushProgress
  <2>7. \A g \in Flush : g # f => todo'[g] = todo[g]
    BY <2>1, Zenon DEF TypeOK
  <2> QED
    BY <2>1, <2>5, <2>6, <2>7, ProgressFrame, Zenon
<1>11. ASSUME NEW f \in Flush, MetadataWritten(f) PROVE ProgressInv'
  <2>1. UNCHANGED <<up, md, md_d, fetched_at, stripe_status, order, stripes_flushed>>
    BY <1>11, Zenon DEF MetadataWritten, memory, basedev
  <2>2. stage[f] = "md" /\ \A g \in Flush : g # f => stage'[g] = stage[g] /\ todo'[g] = todo[g]
    BY <1>11, Zenon DEF MetadataWritten, Goes, TypeOK
  <2>3. stage'[f] = "md_err" \/ (stage'[f] = "md_ok" /\ todo[f] = {})
    BY <1>11, Zenon DEF MetadataWritten, Goes, TypeOK
  <2>4. FlushProgress(f)
    BY Zenon DEF ProgressInv
  <2>5. FlushProgress(f)'
    BY <2>1, <2>2, <2>3, <2>4, Zenon DEF FlushProgress, Records
  <2> QED
    BY <2>1, <2>2, <2>5, ProgressFrame, Zenon
<1>12. ASSUME NEW f \in Flush, ubi_metadata_write_completion(f) PROVE ProgressInv'
  <2>1. /\ stage' = [stage EXCEPT ![f] = "failed"]
           \/ (stage[f] = "md_ok" /\ stage' = [stage EXCEPT ![f] = "md_flush"])
        /\ UNCHANGED <<up, stripe_status, order, stripes_flushed, md, md_d, todo, fetched_at>>
    BY <1>12, Zenon DEF ubi_metadata_write_completion, FailedWrite, Goes, memory, basedev
  <2>2. CASE stage' = [stage EXCEPT ![f] = "failed"]
    BY <1>0, <2>1, <2>2, Zenon DEF MdStages
  <2>3. CASE stage[f] = "md_ok" /\ stage' = [stage EXCEPT ![f] = "md_flush"]
    <3>1. FlushProgress(f) /\ stage'[f] = "md_flush"
      BY <2>3, Zenon DEF ProgressInv, TypeOK
    <3>2. FlushProgress(f)'
      BY <2>1, <2>3, <3>1, Zenon DEF FlushProgress, Records
    <3> QED
      BY <1>0, <2>1, <2>3, <3>2, Zenon
  <2> QED
    BY <2>1, <2>2, <2>3, Zenon
<1>13. ASSUME NEW f \in Flush, MetadataFlush(f) PROVE ProgressInv'
  <2>1. /\ stage[f] = "md_flush"
        /\ \/ stage' = [stage EXCEPT ![f] = "md_flush_ok"] /\ md_d' = md
           \/ stage' = [stage EXCEPT ![f] = "md_flush_err"] /\ md_d' = md_d
        /\ UNCHANGED <<up, md, todo, fetched_at, stripe_status, order, stripes_flushed>>
    BY <1>13, Zenon DEF MetadataFlush, Goes, memory
  <2>2. \A c \in Cell : md_d[c] = 1 => md[c] = 1
    BY DEF TypeOK, MetadataInv, HeaderInv
  <2>3. CASE stage' = [stage EXCEPT ![f] = "md_flush_ok"] /\ md_d' = md
    <3>1. FlushProgress(f) /\ stage'[f] = "md_flush_ok"
      BY <2>3, Zenon DEF ProgressInv, TypeOK
    <3>2. FlushProgress(f)'
      BY <2>1, <2>3, <3>1, Zenon DEF FlushProgress, Records
    <3> QED
      BY <1>0, <2>1, <2>2, <2>3, <3>2, Zenon
  <2>4. CASE stage' = [stage EXCEPT ![f] = "md_flush_err"] /\ md_d' = md_d
    BY <1>0, <2>1, <2>4, Zenon DEF MdStages
  <2> QED
    BY <2>1, <2>3, <2>4, Zenon
<1>14. ASSUME NEW f \in Flush, ubi_metadata_flush_completion(f) PROVE ProgressInv'
  <2>1. UNCHANGED <<up, md, md_d, todo, fetched_at, stripe_status, order>>
    BY <1>14, Zenon DEF ubi_metadata_flush_completion, basedev
  <2>2. stage'[f] \in {"ok", "failed"} /\ \A g \in Flush : g # f => stage'[g] = stage[g]
    BY <1>14, Zenon DEF ubi_metadata_flush_completion, Goes, Succeeds, TypeOK
  <2>3. \/ stripes_flushed' = stripes_flushed
        \/ stage[f] = "md_flush_ok" /\ stripes_flushed' \in {stripes_flushed, fetched_at[f]}
    BY <1>14, Zenon DEF ubi_metadata_flush_completion, Goes, Succeeds, FlushedBy, Larger
  <2>4. up => Records(md_d, stripes_flushed')
    BY <2>3, Zenon DEF ProgressInv, FlushProgress
  <2>5. up' => Records(md_d, stripes_flushed)'
    BY <2>1, <2>4, Zenon DEF Records
  <2>6. ASSUME NEW g \in Flush PROVE FlushProgress(g)'
    <3>1. CASE g = f
      BY <2>2, <3>1, NoProgress, Zenon DEF MdStages
    <3>2. CASE g # f
      <4>1. FlushProgress(g) /\ stage'[g] = stage[g]
        BY <2>2, <3>2, Zenon DEF ProgressInv
      <4> QED
        BY <2>1, <4>1, Zenon DEF FlushProgress, Records
    <3> QED
      BY <3>1, <3>2, Zenon
  <2> QED
    BY <2>5, <2>6, Zenon DEF ProgressInv
<1>15. CASE UNCHANGED vars
  BY <1>15, ProgressFrame, Zenon DEF vars, memory, flushes, basedev
<1> QED
  BY <1>1, <1>2, <1>5, <1>6, <1>7, <1>8, <1>9, <1>10, <1>11, <1>12, <1>13, <1>14, <1>15, Zenon
     DEF Next, BaseStep, Callback, Kill, PowerLoss, ubi_destruct

\* What a flush needs is kept while the flush stays where it is and the base bdev
\* gets newer data.
LEMMA NeedKept ==
  ASSUME TypeOK, TypeOK', NEW f \in Flush, NEW s \in Stripe, Needs(f, s),
         stage'[f] = stage[f], fetched_at'[f] = fetched_at[f], need'[f][s] = need[f][s],
         stripe_status'[s] = stripe_status[s], order'[s] = order[s],
         last'[s] >= last[s], data'[s] >= data[s], data_d'[s] \in {data_d[s], data[s], data'[s]}
  PROVE  Needs(f, s)'
<1>1. /\ need[f][s] \in Nat /\ last[s] \in Nat /\ last'[s] \in Nat
      /\ data[s] \in Int /\ data'[s] \in Int /\ data_d[s] \in Int
  BY Zenon DEF TypeOK
<1>2. need'[f][s] <= last'[s]
  BY <1>1 DEF Needs
<1>3. data[s] >= need[f][s] => data'[s] >= need[f][s]
  BY <1>1
<1>4. data[s] >= need[f][s] /\ data_d[s] >= need[f][s] => data_d'[s] >= need[f][s]
  BY <1>3, Zenon
<1> QED
  BY <1>2, <1>3, <1>4, Zenon DEF Needs

\* The stages in which a flush has not begun or is over.
Over == {"new", "ok", "failed", "lost", "gone"}

\* A flush that is over needs nothing.
LEMMA NoNeed ==
  ASSUME NEW f \in Flush, NEW s \in Stripe, stage'[f] \in Over, need'[f][s] <= last'[s]
  PROVE  Needs(f, s)'
BY Zenon DEF Needs, Over

\* A flush that has its data leaves the stages that write the metadata for good.
MovesOn(f, to) ==
  /\ stage[f] \notin {"new", "data", "data_err", "ok", "failed", "lost", "gone"}
  /\ to \notin {"new", "data", "data_err"}
  /\ to \in MdStages => stage[f] \in MdStages

\* Then what it has to make durable does not change.
LEMMA NeedMoves ==
  ASSUME TypeOK, NeedInv, NEW f \in Flush, NEW to \in Stages,
         stage' = [stage EXCEPT ![f] = to], MovesOn(f, to),
         UNCHANGED <<stripe_status, order, data, data_d, need, last, fetched_at>>
  PROVE  NeedInv'
<1>1. ASSUME NEW g \in Flush
      PROVE  /\ stage'[g] \in MdStages => stage[g] \in MdStages
             /\ stage[g] \in {"data", "data_err"} => stage'[g] = stage[g]
             /\ stage'[g] \notin Over => stage[g] \notin Over
  BY Zenon DEF TypeOK, MovesOn, Over
<1>2. ASSUME NEW g \in Flush, NEW s \in Stripe PROVE Needs(g, s)'
  <2>1. Needs(g, s)
    BY Zenon DEF NeedInv
  <2> QED
    BY <1>1, <2>1, Zenon DEF Needs, Over
<1> QED
  BY <1>2, Zenon DEF NeedInv

\* What a flush in progress has to make durable is kept by every step.
LEMMA NeedNext ==
  ASSUME TypeOK, TypeOK', OrderInv, IdleInv, NeedInv, PromiseInv, [Next]_vars
  PROVE  NeedInv'
<1>0. \A f \in Flush, s \in Stripe : Needs(f, s) /\ need[f][s] <= last[s]
  BY Zenon DEF NeedInv, Needs
<1>a. \A s \in Stripe : data[s] \in Int /\ data_d[s] \in Int /\ last[s] \in Nat /\ data[s] <= last[s]
  BY Zenon DEF TypeOK, PromiseInv
<1>1. CASE ubi_finish_read_metadata
  <2>1. UNCHANGED <<need, last>> /\ \A f \in Flush : stage'[f] \in Over
    BY <1>1, Zenon DEF ubi_finish_read_metadata, flushes, IdleInv, Idle, Over
  <2> QED
    BY <1>0, <2>1, NoNeed, Zenon DEF NeedInv
<1>2. ASSUME Stops PROVE NeedInv'
  <2>1. last' = last /\ \A f \in Flush : stage'[f] \in Over
    BY <1>2, Zenon DEF Stops, Over
  <2>2. \A f \in Flush, s \in Stripe : need'[f][s] = 0
    BY <1>2, Zenon DEF Stops
  <2>3. \A f \in Flush, s \in Stripe : need'[f][s] <= last'[s]
    BY <1>a, <2>1, <2>2
  <2> QED
    BY <2>1, <2>3, NoNeed, Zenon DEF NeedInv
<1>5. ASSUME NEW s \in Stripe, write_stripe_io_completion(s) PROVE NeedInv'
  <2>1. /\ stripe_status[s] = "NOT_FETCHED" /\ UNCHANGED <<stage, fetched_at, need, last>>
        /\ stripe_status' = [stripe_status EXCEPT ![s] = "FETCHED"]
        /\ order' = [order EXCEPT ![s] = stripes_fetched + 1]
    BY <1>5, Zenon DEF write_stripe_io_completion, flushes
  <2>a. PICK v \in {0, Unwritten} : data' = [data EXCEPT ![s] = v] /\ data_d' \in {data_d, data'}
    BY <1>5, StripeOutcome, Zenon
  <2>2. ASSUME NEW t \in Stripe, t # s
        PROVE  /\ stripe_status'[t] = stripe_status[t] /\ order'[t] = order[t] /\ data'[t] = data[t]
               /\ data_d'[t] \in {data_d[t], data[t]}
    BY <2>1, <2>a, <2>2 DEF TypeOK
  <2>3. ASSUME NEW f \in Flush, NEW t \in Stripe PROVE Needs(f, t)'
    <3>1. CASE t = s
      BY <1>0, <2>1, <3>1, Zenon DEF Needs
    <3>2. CASE t # s
      <4>1. last[t] >= last[t] /\ data[t] >= data[t]
        BY <1>a
      <4> QED
        BY <1>0, <2>1, <2>2, <3>2, <4>1, NeedKept, Zenon
    <3> QED
      BY <3>1, <3>2, Zenon
  <2> QED
    BY <2>3, Zenon DEF NeedInv
<1>6. ASSUME NEW s \in Stripe, ClientWrite(s) PROVE NeedInv'
  <2>1. /\ UNCHANGED <<stripe_status, order, stage, fetched_at, need>>
        /\ last' = [last EXCEPT ![s] = last[s] + 1]
        /\ data' = [data EXCEPT ![s] = last[s] + 1] /\ data_d' \in {data_d, data'}
    BY <1>6, Zenon DEF ClientWrite, Durable, memory, flushes
  <2>2. ASSUME NEW t \in Stripe
        PROVE  /\ last'[t] \in {last[t], last[t] + 1}
               /\ data'[t] = data[t] \/ data'[t] = last[t] + 1
               /\ data_d'[t] \in {data_d[t], data'[t]}
    BY <2>1 DEF TypeOK
  <2>3. \A t \in Stripe : last'[t] >= last[t] /\ data'[t] >= data[t]
    BY <1>a, <2>2
  <2> QED
    BY <1>0, <2>1, <2>2, <2>3, NeedKept, Zenon DEF NeedInv
<1>7. ASSUME NEW f \in Flush, ubi_submit_flush_request(f) PROVE NeedInv'
  <2>1. UNCHANGED <<stripe_status, order, data, data_d, last, fetched_at>>
    BY <1>7, Zenon DEF ubi_submit_flush_request, memory, basedev
  <2>2. /\ stage'[f] \in {"ok", "failed", "data"}
        /\ \A g \in Flush : g # f => stage'[g] = stage[g] /\ need'[g] = need[g]
    <3>1. PICK to \in Stages : /\ to \in {"ok", "failed", "data"}
                              /\ stage' = [stage EXCEPT ![f] = to]
      BY <1>7, Zenon DEF ubi_submit_flush_request, Goes, Succeeds, Stages
    <3>2. \A g \in Flush : g # f => need'[g] = need[g]
      BY <1>7, Zenon DEF ubi_submit_flush_request, TypeOK
    <3> QED
      BY <3>1, <3>2, StageMoves, Zenon
  <2>3. /\ stage'[f] # "data" => need'[f] = need[f]
        /\ stage'[f] = "data" => \A s \in Stripe :
             need'[f][s] = IF stripe_status[s] = "FETCHED" /\ data[s] > 0 THEN data[s] ELSE 0
    BY <1>7 DEF ubi_submit_flush_request, Goes, Succeeds, TypeOK
  <2>4. ASSUME NEW s \in Stripe PROVE Needs(f, s)'
    <3>1. CASE stage'[f] # "data"
      BY <1>0, <2>1, <2>2, <2>3, <3>1, NoNeed, Zenon DEF Over
    <3>2. CASE stage'[f] = "data"
      <4>1. \/ need'[f][s] = 0
            \/ need'[f][s] = data[s] /\ stripe_status[s] = "FETCHED"
        BY <2>3, <3>2, Zenon
      <4>2. need'[f][s] <= last[s] /\ (need'[f][s] > 0 => data[s] >= need'[f][s])
        BY <1>a, <4>1
      <4> QED
        BY <2>1, <3>2, <4>1, <4>2 DEF Needs, MdStages
    <3> QED
      BY <3>1, <3>2, Zenon
  <2>5. ASSUME NEW g \in Flush, g # f, NEW s \in Stripe PROVE Needs(g, s)'
    <3>1. last[s] >= last[s] /\ data[s] >= data[s]
      BY <1>a
    <3> QED
      BY <1>0, <2>1, <2>2, <2>5, <3>1, NeedKept, Zenon
  <2> QED
    BY <2>4, <2>5, Zenon DEF NeedInv
<1>8. ASSUME NEW f \in Flush, DataFlush(f) PROVE NeedInv'
  <2>1. UNCHANGED <<stripe_status, order, data, need, last, fetched_at>>
    BY <1>8, Zenon DEF DataFlush, memory
  <2>2. /\ stage[f] = "data" /\ stage'[f] \in {"data_ok", "data_err"}
        /\ \A g \in Flush : g # f => stage'[g] = stage[g]
    <3>1. PICK to \in Stages : /\ to \in {"data_ok", "data_err"}
                              /\ stage' = [stage EXCEPT ![f] = to]
      BY <1>8, Zenon DEF DataFlush, Goes, Stages
    <3>2. stage[f] = "data"
      BY <1>8, Zenon DEF DataFlush, Goes
    <3> QED
      BY <3>1, <3>2, StageMoves, Zenon
  <2>3. \A s \in Stripe : data_d'[s] \in {data_d[s], data[s]}
    BY <1>8, Zenon DEF DataFlush
  <2>4. stage'[f] = "data_ok" => \A s \in Stripe : s \in f.range => data_d'[s] = data[s]
    BY <1>8, Zenon DEF DataFlush, Goes, TypeOK
  <2>5. ASSUME NEW s \in Stripe PROVE Needs(f, s)'
    BY <1>0, <2>1, <2>2, <2>4, Zenon DEF Needs, MdStages
  <2>6. ASSUME NEW g \in Flush, g # f, NEW s \in Stripe PROVE Needs(g, s)'
    <3>1. last[s] >= last[s] /\ data[s] >= data[s]
      BY <1>a
    <3> QED
      BY <1>0, <2>1, <2>2, <2>3, <2>6, <3>1, NeedKept, Zenon
  <2> QED
    BY <2>5, <2>6 DEF NeedInv
<1>9. ASSUME NEW f \in Flush, ubi_data_flush_completion(f) PROVE NeedInv'
  <2>1. UNCHANGED <<stripe_status, order, data, data_d, need, last>>
    BY <1>9, Zenon DEF ubi_data_flush_completion, memory, basedev
  <2>0. PICK to \in Stages :
          /\ stage' = [stage EXCEPT ![f] = to]
          /\ \/ to \in {"lost", "ok", "failed"}
             \/ to = "md" /\ stage[f] = "data_ok" /\ fetched_at' = [fetched_at EXCEPT ![f] = stripes_fetched]
    BY <1>9, Zenon DEF ubi_data_flush_completion, Goes, Succeeds, Stages
  <2>2. ASSUME NEW g \in Flush, g # f PROVE stage'[g] = stage[g] /\ fetched_at'[g] = fetched_at[g]
    <3>1. fetched_at' = fetched_at \/ fetched_at' = [fetched_at EXCEPT ![f] = stripes_fetched]
      BY <1>9, Zenon DEF ubi_data_flush_completion
    <3>2. fetched_at \in [Flush -> Nat]
      BY Zenon DEF TypeOK
    <3>3. fetched_at'[g] = fetched_at[g]
      BY <2>2, <3>1, <3>2, Zenon
    <3> QED
      BY <2>0, <2>2, <3>3, StageMoves, Zenon
  <2>3. \/ stage'[f] \in {"lost", "ok", "failed"}
        \/ stage[f] = "data_ok" /\ stage'[f] = "md" /\ fetched_at'[f] = stripes_fetched
    <3>1. fetched_at \in [Flush -> Nat]
      BY Zenon DEF TypeOK
    <3> QED
      BY <2>0, <3>1, StageMoves, Zenon
  <2>4. ASSUME NEW s \in Stripe PROVE Needs(f, s)'
    <3>1. CASE stage'[f] \in Over
      BY <1>0, <2>1, <3>1, NoNeed, Zenon
    <3>2. CASE stage[f] = "data_ok" /\ stage'[f] = "md" /\ fetched_at'[f] = stripes_fetched
      <4>1. order[s] <= stripes_fetched
        BY <3>2, UpWhileFlushing, Zenon DEF OrderInv
      <4> QED
        BY <1>0, <2>1, <3>2, <4>1, Zenon DEF Needs
    <3> QED
      BY <2>3, <3>1, <3>2, Zenon DEF Over
  <2>5. ASSUME NEW g \in Flush, g # f, NEW s \in Stripe PROVE Needs(g, s)'
    <3>1. last[s] >= last[s] /\ data[s] >= data[s]
      BY <1>a
    <3> QED
      BY <1>0, <2>1, <2>2, <2>5, <3>1, NeedKept, Zenon
  <2> QED
    BY <2>4, <2>5 DEF NeedInv
<1>10. ASSUME NEW f \in Flush, NEW c \in Cell, MetadataCell(f, c) PROVE NeedInv'
  <2>1. UNCHANGED <<stripe_status, order, stage, data, data_d, need, last, fetched_at>>
    BY <1>10, Zenon DEF MetadataCell, memory
  <2> QED
    BY <2>1, Zenon DEF NeedInv, Needs
<1>11. ASSUME NEW f \in Flush, MetadataWritten(f) PROVE NeedInv'
  <2>1. UNCHANGED <<stripe_status, order, data, data_d, need, last, fetched_at>>
    BY <1>11, Zenon DEF MetadataWritten, memory, basedev
  <2>2. PICK to \in Stages : stage' = [stage EXCEPT ![f] = to] /\ MovesOn(f, to)
    BY <1>11, Zenon DEF MetadataWritten, Goes, Stages, MovesOn, MdStages
  <2> QED
    BY <2>1, <2>2, NeedMoves, Zenon
<1>12. ASSUME NEW f \in Flush, ubi_metadata_write_completion(f) PROVE NeedInv'
  <2>1. UNCHANGED <<stripe_status, order, data, data_d, need, last, fetched_at>>
    BY <1>12, Zenon DEF ubi_metadata_write_completion, FailedWrite, memory, basedev
  <2>2. PICK to \in Stages : stage' = [stage EXCEPT ![f] = to] /\ MovesOn(f, to)
    BY <1>12, Zenon DEF ubi_metadata_write_completion, FailedWrite, Goes, Stages, MovesOn, MdStages
  <2> QED
    BY <2>1, <2>2, NeedMoves, Zenon
<1>13. ASSUME NEW f \in Flush, MetadataFlush(f) PROVE NeedInv'
  <2>1. UNCHANGED <<stripe_status, order, data, data_d, need, last, fetched_at>>
    BY <1>13, Zenon DEF MetadataFlush, memory, basedev
  <2>2. PICK to \in Stages : stage' = [stage EXCEPT ![f] = to] /\ MovesOn(f, to)
    BY <1>13, Zenon DEF MetadataFlush, Goes, Stages, MovesOn, MdStages
  <2> QED
    BY <2>1, <2>2, NeedMoves, Zenon
<1>14. ASSUME NEW f \in Flush, ubi_metadata_flush_completion(f) PROVE NeedInv'
  <2>1. UNCHANGED <<stripe_status, order, data, data_d, need, last, fetched_at>>
    BY <1>14, Zenon DEF ubi_metadata_flush_completion, memory, basedev
  <2>2. PICK to \in Stages : stage' = [stage EXCEPT ![f] = to] /\ MovesOn(f, to)
    BY <1>14, Zenon DEF ubi_metadata_flush_completion, Goes, Stages, MovesOn, MdStages, Succeeds
  <2> QED
    BY <2>1, <2>2, NeedMoves, Zenon
<1>15. CASE UNCHANGED vars
  BY <1>15, Zenon DEF vars, memory, flushes, basedev, NeedInv, Needs
<1> QED
  BY <1>1, <1>2, <1>5, <1>6, <1>7, <1>8, <1>9, <1>10, <1>11, <1>12, <1>13, <1>14, <1>15, Zenon
     DEF Next, BaseStep, Callback, Kill, PowerLoss, ubi_destruct

\* A flush may succeed when what it has to make durable is durable.
LEMMA PromiseMade ==
  ASSUME TypeOK, NeedInv, PromiseInv, NEW f \in Flush, NEW from, Succeeds(f, from),
         UNCHANGED <<up, stripe_status, data, data_d, md_d, last>>,
         \A s \in Stripe : s \in f.range /\ need[f][s] > 0 =>
            /\ stripe_status[s] = "FETCHED" /\ md_d[Magic] = 1 /\ md_d[s] = 1
            /\ data[s] >= need[f][s] /\ data_d[s] >= need[f][s]
  PROVE  PromiseInv'
<1>1. \A s \in Stripe : promised'[s] # promised[s] => s \in f.range /\ promised'[s] = need[f][s]
  BY Promises, Zenon
<1>2. \A s \in Stripe : need[f][s] <= last[s]
  BY Zenon DEF NeedInv, Needs
<1>3. ASSUME NEW s \in Stripe, promised'[s] = promised[s]
      PROVE  /\ promised'[s] <= last[s]
             /\ promised'[s] > 0 => /\ md_d[Magic] = 1 /\ md_d[s] = 1
                                    /\ data[s] >= promised'[s] /\ data_d[s] >= promised'[s]
                                    /\ up => stripe_status[s] = "FETCHED"
  BY <1>3, Zenon DEF PromiseInv
<1>4. ASSUME NEW s \in Stripe, promised'[s] # promised[s]
      PROVE  /\ promised'[s] <= last[s]
             /\ promised'[s] > 0 => /\ md_d[Magic] = 1 /\ md_d[s] = 1
                                    /\ data[s] >= promised'[s] /\ data_d[s] >= promised'[s]
                                    /\ up => stripe_status[s] = "FETCHED"
  <2>1. s \in f.range /\ promised'[s] = need[f][s] /\ need[f][s] <= last[s]
    BY <1>1, <1>2, <1>4, Zenon
  <2> QED
    BY <2>1, Zenon
<1> QED
  BY <1>3, <1>4, Zenon DEF PromiseInv

\* What a flush has promised stays durable.
LEMMA PromiseNext ==
  ASSUME IInv, SafeSetting, [Next]_vars
  PROVE  PromiseInv'
<1>0. TypeOK /\ OrderInv /\ MetadataInv /\ ProgressInv /\ NeedInv /\ PromiseInv
  BY Zenon DEF IInv
<1>a. ASSUME UNCHANGED <<up, stripe_status, data, data_d, last, promised>>,
             \A c \in Cell : md_d[c] = 1 => md_d'[c] = 1
      PROVE  PromiseInv'
  BY <1>0, <1>a, CellFacts, Zenon DEF PromiseInv
<1>b. ASSUME ~ up', UNCHANGED <<basedev, last, promised>> PROVE PromiseInv'
  BY <1>0, <1>b, Zenon DEF PromiseInv, basedev
<1>1. CASE ubi_finish_read_metadata
  <2>1. UNCHANGED <<data, data_d, md_d, last, promised>> /\ md_d = md
    BY <1>0, <1>1, Zenon DEF ubi_finish_read_metadata, basedev, MetadataInv
  <2>2. \A s \in Stripe : md[Magic] = 1 /\ md[s] = 1 => stripe_status'[s] = "FETCHED"
    BY <1>1 DEF ubi_finish_read_metadata, Fetched
  <2> QED
    BY <1>0, <2>1, <2>2, Zenon DEF PromiseInv
<1>2. CASE Kill \/ ubi_destruct
  BY <1>2, <1>b, Zenon DEF Kill, ubi_destruct, Stops
<1>3. CASE PowerLoss
  <2>1. /\ \A s \in Stripe : data_d'[s] \in {data_d[s], data[s]}
        /\ \A c \in Cell : md_d'[c] \in {md_d[c], md[c]}
    BY <1>3, Zenon DEF PowerLoss
  <2>2. \A c \in Cell : md_d[c] = 1 => md_d'[c] = 1
    BY <1>0, <2>1 DEF MetadataInv, HeaderInv, TypeOK
  <2>3. ~ up' /\ data' = data_d' /\ UNCHANGED <<last, promised>>
    BY <1>3, Zenon DEF PowerLoss, Stops
  <2>4. ASSUME NEW s \in Stripe
        PROVE  /\ data'[s] <= last[s] /\ data_d'[s] <= last[s]
               /\ promised[s] > 0 => data'[s] >= promised[s] /\ data_d'[s] >= promised[s]
    BY <1>0, <2>1, <2>3, Zenon DEF PromiseInv
  <2> QED
    BY <1>0, <2>2, <2>3, <2>4, CellFacts, Zenon DEF PromiseInv
<1>5. ASSUME NEW s \in Stripe, write_stripe_io_completion(s) PROVE PromiseInv'
  <2>1. /\ up /\ stripe_status[s] = "NOT_FETCHED" /\ UNCHANGED <<up, md_d, last, promised>>
        /\ stripe_status' = [stripe_status EXCEPT ![s] = "FETCHED"]
    BY <1>5, Zenon DEF write_stripe_io_completion
  <2>a. PICK v \in {0, Unwritten} : data' = [data EXCEPT ![s] = v] /\ data_d' \in {data_d, data'}
    BY <1>5, StripeOutcome, Zenon
  <2>b. v \in Int /\ v <= 0
    BY DEF Unwritten
  <2>2. ~ (promised[s] > 0) /\ last[s] \in Nat
    BY <1>0, <2>1, Zenon DEF PromiseInv, TypeOK
  <2>3. ASSUME NEW t \in Stripe
        PROVE  /\ t # s => data'[t] = data[t] /\ data_d'[t] \in {data_d[t], data[t]}
               /\ t = s => data'[t] = v /\ data_d'[t] \in {data_d[t], v}
               /\ stripe_status[t] = "FETCHED" => stripe_status'[t] = "FETCHED"
    BY <1>0, <2>1, <2>a, Zenon DEF TypeOK
  <2>4. ASSUME NEW t \in Stripe
        PROVE  data[t] <= last[t] /\ data_d[t] <= last[t] /\ promised[t] <= last[t]
    BY <1>0, Zenon DEF PromiseInv
  <2>5. ASSUME NEW t \in Stripe PROVE data'[t] <= last[t] /\ data_d'[t] <= last[t]
    BY <2>2, <2>b, <2>3, <2>4
  <2> QED
    BY <1>0, <2>1, <2>2, <2>3, <2>4, <2>5, Zenon DEF PromiseInv
<1>6. ASSUME NEW s \in Stripe, ClientWrite(s) PROVE PromiseInv'
  <2>1. /\ UNCHANGED <<up, stripe_status, md_d, promised>> /\ last' = [last EXCEPT ![s] = last[s] + 1]
        /\ data' = [data EXCEPT ![s] = last[s] + 1] /\ data_d' \in {data_d, data'}
    BY <1>6, Zenon DEF ClientWrite, Durable, memory
  <2> QED
    BY <1>0, <2>1 DEF PromiseInv, TypeOK
<1>7. ASSUME NEW f \in Flush, ubi_submit_flush_request(f) PROVE PromiseInv'
  <2>1. promised' = promised \/ (no_sync /\ Succeeds(f, "new"))
    BY <1>7, Zenon DEF ubi_submit_flush_request
  <2>2. promised' = promised
    BY <1>0, <2>1, Zenon DEF Succeeds, TypeOK
  <2> QED
    BY <1>7, <1>a, <2>2, Zenon DEF ubi_submit_flush_request, memory, basedev
<1>8. ASSUME NEW f \in Flush, DataFlush(f) PROVE PromiseInv'
  <2>1. UNCHANGED <<up, stripe_status, data, md_d, promised, last>>
    BY <1>8, Zenon DEF DataFlush, memory
  <2>2. \A s \in Stripe : data_d'[s] = data_d[s] \/ data_d'[s] = data[s]
    BY <1>8, Zenon DEF DataFlush
  <2> QED
    BY <1>0, <2>1, <2>2, Zenon DEF PromiseInv
<1>9. ASSUME NEW f \in Flush, ubi_data_flush_completion(f) PROVE PromiseInv'
  <2>0. UNCHANGED <<up, stripe_status, data, data_d, md_d, last>>
    BY <1>9, Zenon DEF ubi_data_flush_completion, memory, basedev
  <2>1. promised' = promised \/ (Succeeds(f, "data_ok") /\ MetadataClean)
    BY <1>9, Zenon DEF ubi_data_flush_completion
  <2>2. CASE promised' = promised
    BY <2>0, <2>2, <1>a, Zenon
  <2>3. CASE Succeeds(f, "data_ok") /\ MetadataClean
    <3>1. up /\ stage[f] = "data_ok"
      BY <1>0, <2>3, Zenon DEF Succeeds, Goes, MetadataInv, IdleInv, Idle
    <3>2. \A s \in Stripe : stripe_status[s] = "FETCHED" => md_d[Magic] = 1 /\ md_d[s] = 1
      BY <1>0, <2>3, <3>1, Zenon DEF MetadataClean, OrderInv, ProgressInv, Records
    <3>3. \A s \in Stripe : s \in f.range /\ need[f][s] > 0 =>
            stripe_status[s] = "FETCHED" /\ data[s] >= need[f][s] /\ data_d[s] >= need[f][s]
      BY <1>0, <3>1, Zenon DEF NeedInv, Needs
    <3> QED
      BY <1>0, <2>0, <2>3, <3>2, <3>3, PromiseMade, Zenon
  <2> QED
    BY <2>1, <2>2, <2>3, Zenon
<1>10. ASSUME NEW f \in Flush, NEW c \in Cell, MetadataCell(f, c) PROVE PromiseInv'
  <2>1. up /\ ~ bounce
    BY <1>0, <1>10, Zenon DEF MetadataCell, MetadataInv, IdleInv, Idle, SafeSetting
  <2>2. md' = [md EXCEPT ![c] = metadata[c]] /\ md_d' \in {md_d, md'}
    BY <1>10, <2>1, Zenon DEF MetadataCell, Durable
  <2>3. ASSUME NEW d \in Cell PROVE md_d[d] = 1 => md_d'[d] = 1
    <3>1. md_d[d] = 1 => md[d] = 1 /\ metadata[d] = 1
      BY <1>0, <2>1 DEF TypeOK, MetadataInv, HeaderInv
    <3> QED
      BY <1>0, <2>2, <3>1 DEF TypeOK
  <2> QED
    BY <1>10, <1>a, <2>3, Zenon DEF MetadataCell, memory
<1>11. ASSUME NEW f \in Flush, MetadataWritten(f) \/ ubi_metadata_write_completion(f) PROVE PromiseInv'
  BY <1>11, <1>a, Zenon DEF MetadataWritten, ubi_metadata_write_completion, memory, basedev
<1>13. ASSUME NEW f \in Flush, MetadataFlush(f) PROVE PromiseInv'
  <2>1. \A d \in Cell : md_d[d] = 1 => md_d'[d] = 1
    BY <1>0, <1>13 DEF MetadataFlush, MetadataInv, HeaderInv, TypeOK
  <2> QED
    BY <1>13, <1>a, <2>1, Zenon DEF MetadataFlush, memory
<1>14. ASSUME NEW f \in Flush, ubi_metadata_flush_completion(f) PROVE PromiseInv'
  <2>0. UNCHANGED <<up, stripe_status, data, data_d, md_d, last>>
    BY <1>14, Zenon DEF ubi_metadata_flush_completion, basedev
  <2>1. promised' = promised \/ Succeeds(f, "md_flush_ok")
    BY <1>14, Zenon DEF ubi_metadata_flush_completion
  <2>2. CASE promised' = promised
    BY <2>0, <2>2, <1>a, Zenon
  <2>3. CASE Succeeds(f, "md_flush_ok")
    <3>1. stage[f] = "md_flush_ok"
      BY <2>3, Zenon DEF Succeeds, Goes
    <3>2. \A s \in Stripe : s \in f.range /\ need[f][s] > 0 =>
            /\ stripe_status[s] = "FETCHED" /\ order[s] <= fetched_at[f]
            /\ data[s] >= need[f][s] /\ data_d[s] >= need[f][s]
      BY <1>0, <3>1, Zenon DEF NeedInv, Needs, MdStages
    <3>3. \A s \in Stripe : stripe_status[s] = "FETCHED" /\ order[s] <= fetched_at[f]
                              => md_d[Magic] = 1 /\ md_d[s] = 1
      BY <1>0, <3>1, Zenon DEF ProgressInv, FlushProgress, Records
    <3> QED
      BY <1>0, <2>0, <2>3, <3>2, <3>3, PromiseMade, Zenon
  <2> QED
    BY <2>1, <2>2, <2>3, Zenon
<1>15. CASE UNCHANGED vars
  BY <1>15, <1>a, Zenon DEF vars, memory, basedev
<1> QED
  BY <1>1, <1>2, <1>3, <1>5, <1>6, <1>7, <1>8, <1>9, <1>10, <1>11, <1>13, <1>14, <1>15, Zenon
     DEF Next, BaseStep, Callback

\* A disk that was never created satisfies the invariant.
LEMMA InvInit == Init => IInv
<1> SUFFICES ASSUME Init PROVE IInv
  BY Zenon
<1>1. TypeOK
  <2>1. stage \in [Flush -> Stages] /\ fetched_at \in [Flush -> Nat] /\ todo \in [Flush -> SUBSET Cell]
    BY Zenon DEF Init, Stages
  <2>2. copied \in [Flush -> [Cell -> {0, 1}]] /\ need \in [Flush -> [Stripe -> Nat]]
    BY Zenon DEF Init
  <2>3. data \in [Stripe -> Int] /\ data_d \in [Stripe -> Int] /\ md_d \in [Cell -> {0, 1}]
    BY DEF Init
  <2> QED
    BY <2>1, <2>2, <2>3, Zenon DEF Init, TypeOK
<1>2. OrderInv /\ ImageInv
  <2>1. OrderInv
    BY Zenon DEF Init, OrderInv
  <2>2. ASSUME ~ stale_headers, NEW s \in Stripe PROVE ~ HeaderSet(s)
    <3>1. ~ up /\ md[s] = 0 /\ \A f \in Flush : copied[f][s] = 0
      BY <2>2, CellFacts, Zenon DEF Init
    <3>2. md[s] # 1 /\ \A f \in Flush : copied[f][s] # 1
      BY <3>1
    <3> QED
      BY <3>1, <3>2, Zenon DEF HeaderSet
  <2> QED
    BY <2>1, <2>2, Zenon DEF ImageInv
<1>3. MetadataInv
  <2>1. \A c \in Cell : md_d[c] <= md[c]
    <3>1. md_d = md /\ \A c \in Cell : md[c] \in Int
      BY <1>1 DEF Init, TypeOK
    <3> QED
      BY <3>1
  <2> QED
    BY <2>1, Zenon DEF Init, MetadataInv, IdleInv, CacheInv, HeaderInv, Idle
<1>4. ProgressInv
  BY Zenon DEF Init, ProgressInv, FlushProgress, Records
<1>5. NeedInv
  BY DEF Init, NeedInv, Needs
<1>6. PromiseInv
  BY DEF Init, PromiseInv
<1> QED
  BY <1>1, <1>2, <1>3, <1>4, <1>5, <1>6, Zenon DEF IInv

\* Every step preserves the invariant.
LEMMA InvNext ==
  ASSUME Countable, SafeSetting, IInv, [Next]_vars
  PROVE  IInv'
<1>0. IdleInv /\ CacheInv
  BY Zenon DEF IInv, MetadataInv
<1>1. TypeOK' /\ OrderInv' /\ ImageInv'
  BY <1>0, TypeNext, OrderNext, ImageNext, Zenon DEF IInv
<1>2. MetadataInv' /\ ProgressInv' /\ NeedInv' /\ PromiseInv'
  BY <1>0, <1>1, MetadataNext, ProgressNext, NeedNext, PromiseNext, Zenon DEF IInv
<1> QED
  BY <1>1, <1>2, Zenon DEF IInv

\* No step takes a durable header back.
LEMMA HeadersNext ==
  ASSUME TypeOK, IdleInv, HeaderInv, ~ bounce, [Next]_vars, NEW c \in Cell, md_d[c] = 1
  PROVE  md_d'[c] = 1
<1>0. md[c] = 1 /\ (up => metadata[c] = 1)
  <2>1. md[c] \in {0, 1} /\ metadata[c] \in {0, 1}
    BY Zenon DEF TypeOK
  <2>2. md_d[c] <= md[c] /\ (up => md[c] <= metadata[c])
    BY Zenon DEF HeaderInv
  <2> QED
    BY <2>1, <2>2
<1>1. CASE PowerLoss
  BY <1>0, <1>1, Zenon DEF PowerLoss
<1>2. ASSUME NEW f \in Flush, NEW d \in Cell, MetadataCell(f, d) PROVE md_d'[c] = 1
  <2>1. up
    BY <1>2, UpWhileFlushing, Zenon DEF MetadataCell
  <2>2. md'[c] = 1
    BY <1>0, <1>2, <2>1, Zenon DEF MetadataCell, TypeOK
  <2> QED
    BY <1>2, <2>2, Zenon DEF MetadataCell, Durable
<1>3. ASSUME NEW f \in Flush, MetadataFlush(f) PROVE md_d'[c] = 1
  BY <1>0, <1>3, Zenon DEF MetadataFlush
<1>4. CASE UNCHANGED md_d
  BY <1>4, Zenon
<1> QED
  BY <1>1, <1>2, <1>3, <1>4, Zenon
     DEF Next, BaseStep, Callback, vars, basedev, ubi_finish_read_metadata, Kill, ubi_destruct,
         write_stripe_io_completion, ClientWrite, ubi_submit_flush_request, DataFlush,
         ubi_data_flush_completion, MetadataWritten, ubi_metadata_write_completion,
         ubi_metadata_flush_completion

\* What the invariant says of the properties.
LEMMA Consequences == IInv => FlushedSurvives /\ CleanIsDurable
<1> SUFFICES ASSUME IInv PROVE FlushedSurvives /\ CleanIsDurable
  BY Zenon
<1>1. FlushedSurvives
  BY Zenon DEF IInv, PromiseInv, FlushedSurvives, Recovered
<1>2. CleanIsDurable
  <2>1. SUFFICES ASSUME up, MetadataClean, NEW s \in Stripe, stripe_status[s] = "FETCHED"
                 PROVE  md_d[s] = 1 /\ md_d[Magic] = 1
    BY Zenon DEF CleanIsDurable
  <2>2. Records(md_d, stripes_flushed) /\ order[s] <= stripes_flushed
    BY <2>1, Zenon DEF IInv, OrderInv, ProgressInv, MetadataClean
  <2> QED
    BY <2>1, <2>2, Zenon DEF Records
<1> QED
  BY <1>1, <1>2, Zenon

\* What the layers of the invariant that need no safe setting say of them.
LEMMA ImageConsequence ==
  ~ write_cache /\ ~ stale_headers /\ CacheInv /\ ImageInv => ImageOrWritten
<1> SUFFICES ASSUME ~ write_cache, ~ stale_headers, CacheInv, ImageInv, NEW s \in Stripe
             PROVE  Recovered(s) >= 0 \/ Recovered(s) = Unwritten
  BY Zenon DEF ImageOrWritten
<1>1. CASE md_d[Magic] = 1 /\ md_d[s] = 1
  BY <1>1, Zenon DEF CacheInv, ImageInv, HeaderSet, Recovered
<1>2. CASE ~ (md_d[Magic] = 1 /\ md_d[s] = 1)
  BY <1>2 DEF Recovered
<1> QED
  BY <1>1, <1>2, Zenon

\* They hold initially.
LEMMA LayersInit == Init => TypeOK /\ IdleInv /\ CacheInv /\ HeaderInv /\ OrderInv /\ ImageInv
  BY InvInit, Zenon DEF IInv, MetadataInv

----------------------------------------------------------------------------
\* Counting.

\* The facts about finite sets that the counting lemmas use.  They are proved
\* below, from the library's theorems.
FiniteSetFacts ==
  /\ Cardinality({}) = 0
  /\ \A S : S \subseteq Stripe => IsFiniteSet(S) /\ Cardinality(S) \in Nat
  /\ \A S, x : IsFiniteSet(S) /\ x \notin S => Cardinality(S \cup {x}) = Cardinality(S) + 1

\* There are finitely many stripes to count.
LEMMA CountType == ASSUME FiniteSetFacts PROVE Countable
BY Zenon DEF FiniteSetFacts, Countable, Count, Fetched

\* While the bdev is up, stripes_fetched is the number of fetched stripes.
CountInv == up => stripes_fetched = Cardinality({s \in Stripe : stripe_status[s] = "FETCHED"})

\* A fetched stripe is counted once, by ubi_finish_read_metadata or when it is
\* fetched.
LEMMA CountNext ==
  ASSUME FiniteSetFacts, TypeOK, CountInv, [Next]_vars
  PROVE  CountInv'
<1> DEFINE F == {s \in Stripe : stripe_status[s] = "FETCHED"}
<1>1. CASE ubi_finish_read_metadata
  <2>1. CASE md[Magic] = 0
    <3>1. F' = {} /\ stripes_fetched' = 0
      BY <1>1, <2>1, Zenon DEF ubi_finish_read_metadata
    <3> QED
      BY <3>1, Zenon DEF CountInv, FiniteSetFacts
  <2>2. CASE md[Magic] # 0
    <3>1. stripe_status' = [s \in Stripe |-> IF s \in Fetched(md) THEN "FETCHED" ELSE "NOT_FETCHED"]
          /\ stripes_fetched' = Cardinality(Fetched(md))
      BY <1>1, <2>2, Zenon DEF ubi_finish_read_metadata, Count
    <3>2. F' = Fetched(md)
      BY <3>1, Zenon DEF Fetched
    <3> QED
      BY <3>1, <3>2, Zenon DEF CountInv
  <2> QED
    BY <2>1, <2>2, Zenon
<1>2. ASSUME NEW s \in Stripe, write_stripe_io_completion(s) PROVE CountInv'
  <2>1. /\ up /\ stripe_status[s] = "NOT_FETCHED" /\ stripes_fetched' = stripes_fetched + 1
        /\ stripe_status' = [stripe_status EXCEPT ![s] = "FETCHED"]
    BY <1>2, Zenon DEF write_stripe_io_completion
  <2>2. F' = F \cup {s} /\ s \notin F
    BY <2>1, Zenon DEF TypeOK
  <2>3. Cardinality(F') = Cardinality(F) + 1
    BY <2>2, Zenon DEF FiniteSetFacts
  <2> QED
    BY <2>1, <2>3, Zenon DEF CountInv
<1>3. CASE ~ up'
  BY <1>3, Zenon DEF CountInv
<1>4. CASE up' = up /\ UNCHANGED <<stripe_status, stripes_fetched>>
  BY <1>4, Zenon DEF CountInv
<1>5. CASE Kill \/ PowerLoss \/ ubi_destruct
  BY <1>3, <1>5, Zenon DEF Kill, PowerLoss, ubi_destruct, Stops
<1>6. ASSUME NEW s \in Stripe, ClientWrite(s) PROVE CountInv'
  BY <1>4, <1>6, Zenon DEF ClientWrite, memory
<1>7. ASSUME NEW f \in Flush, ubi_submit_flush_request(f) \/ BaseStep(f) \/ Callback(f)
      PROVE  CountInv'
  BY <1>4, <1>7, Zenon DEF ubi_submit_flush_request, BaseStep, Callback, DataFlush, MetadataCell,
     MetadataWritten, MetadataFlush, ubi_data_flush_completion, ubi_metadata_write_completion,
     ubi_metadata_flush_completion, memory
<1>8. CASE UNCHANGED vars
  BY <1>4, <1>8, Zenon DEF vars, memory
<1> QED
  BY <1>1, <1>2, <1>5, <1>6, <1>7, <1>8, Zenon DEF Next

\* Before the first creation nothing is counted, and a right count orders the counters.
LEMMA CountFacts ==
  /\ Init => CountInv
  /\ OrderInv /\ CountInv => CountersAgree
<1>1. Init => CountInv
  BY Zenon DEF Init, CountInv
<1>2. OrderInv /\ CountInv => CountersAgree
  BY Zenon DEF OrderInv, CountInv, CountersAgree
<1> QED
  BY <1>1, <1>2, Zenon

\* The two operators under names of their own, and what they mean: the instance
\* below brings in its own copy of FiniteSets.
Finite(S) == IsFiniteSet(S)
Size(S)   == Cardinality(S)

\* A set is finite when a sequence lists it.
LEMMA FiniteMeans ==
  \A S : Finite(S) <=> \E seq \in Seq(S) : \A s \in S : \E n \in 1 .. Len(seq) : seq[n] = s
BY Zenon DEF Finite, IsFiniteSet

\* The size of a set is counted by removing its elements one by one.
LEMMA SizeMeans ==
  \A S : Size(S) = LET CS[T \in SUBSET S] ==
                        IF T = {} THEN 0 ELSE 1 + CS[T \ {CHOOSE x : x \in T}]
                  IN  CS[S]
BY Zenon DEF Size, Cardinality

\* There are finitely many stripes.
LEMMA StripesFinite == Finite(Stripe)
BY FlushAssumption, Zenon DEF Finite

----------------------------------------------------------------------------
\* The theorems.
LOCAL INSTANCE FiniteSetTheorems

\* The facts about finite sets that the lemmas assume.
LEMMA FactsHold == FiniteSetFacts
<1>1. \A S : Finite(S) <=> IsFiniteSet(S)
  BY FiniteMeans, Zenon DEF IsFiniteSet
<1>2. \A S : Size(S) = Cardinality(S)
  BY SizeMeans, Zenon DEF Cardinality
<1>3. Size({}) = 0
  BY <1>2, FS_EmptySet, Zenon
<1>4. \A S : S \subseteq Stripe => Finite(S) /\ Size(S) \in Nat
  BY <1>1, <1>2, StripesFinite, FS_Subset, FS_CardinalityType, Zenon
<1>5. \A S, x : Finite(S) /\ x \notin S => Size(S \cup {x}) = Size(S) + 1
  BY <1>1, <1>2, FS_AddElement, Zenon
<1> QED
  BY <1>3, <1>4, <1>5, Zenon DEF FiniteSetFacts, Finite, Size

\* Every step preserves the types, whatever fails.
LEMMA TypesNext == TypeOK /\ [Next]_vars => TypeOK'
BY FactsHold, CountType, TypeNext, Zenon

\* Whatever fails and however the process ends, every variable has its type and
\* no flush outlives the process.
THEOREM TypeCorrect == Spec => [](TypeOK /\ IdleInv)
BY LayersInit, TypesNext, IdleNext, PTL DEF Spec

\* stripes_fetched counts the fetched stripes and stripes_flushed never overtakes
\* it, whatever fails: comparing the two, ubi_data_flush_completion never takes
\* dirty metadata for clean because of a stripe that was counted twice or not at all.
THEOREM CountersAgreeAlways == Spec => []CountersAgree
<1>1. TypeOK /\ IdleInv /\ OrderInv /\ [Next]_vars => OrderInv'
  BY FactsHold, CountType, OrderNext, Zenon
<1>2. TypeOK /\ CountInv /\ [Next]_vars => CountInv'
  BY FactsHold, CountNext, Zenon
<1> QED
  BY <1>1, <1>2, CountFacts, LayersInit, TypeCorrect, PTL DEF Spec

\* A durable stripe header stays durable: overlapping metadata writes, which all
\* read ubi_bdev->metadata, never take back what an earlier flush persisted.  The
\* base bdev has to read it while it writes; all failures and all ends of the
\* process are covered.
THEOREM HeadersStayAlways == ASSUME ~ bounce PROVE Spec => HeadersStay
<1>1. TypeOK /\ IdleInv /\ HeaderInv /\ [Next]_vars => HeaderInv'
  BY HeaderNext, Zenon
<1>2. TypeOK /\ IdleInv /\ HeaderInv /\ [Next]_vars
      => [\A c \in Cell : md_d[c] = 1 => md_d'[c] = 1]_vars
  BY HeadersNext, Zenon
<1> QED
  BY <1>1, <1>2, LayersInit, TypeCorrect, PTL DEF Spec, HeadersStay

\* Without a write cache, and on a base bdev whose stripe headers were clear when
\* the disk was created, no stripe but one whose base write failed is ever recovered
\* as what was there before, whatever else fails, and also when metadata writes take
\* effect in another order.
THEOREM ImageOrWrittenAlways ==
  ASSUME ~ write_cache, ~ stale_headers PROVE Spec => []ImageOrWritten
<1>1. TypeOK /\ IdleInv /\ CacheInv /\ ImageInv /\ [Next]_vars => CacheInv' /\ ImageInv'
  BY CacheNext, ImageNext, Zenon
<1>2. CacheInv /\ ImageInv => ImageOrWritten
  BY ImageConsequence, Zenon
<1> QED
  BY <1>1, <1>2, LayersInit, TypeCorrect, PTL DEF Spec

\* In the safe setting the invariant holds in every reachable state.
THEOREM Invariance == ASSUME SafeSetting PROVE Spec => []IInv
<1>1. IInv /\ [Next]_vars => IInv'
  BY FactsHold, CountType, InvNext, Zenon
<1> QED
  BY <1>1, InvInit, PTL DEF Spec

\* What was written before a successful flush was submitted survives every later
\* crash: ubi_data_flush_completion and its successors make the data, and the
\* headers that make it visible after a restart, durable before they complete
\* the request, also when several flushes and fetches overlap.
THEOREM FlushedSurvivesAlways == ASSUME SafeSetting PROVE Spec => []FlushedSurvives
BY Consequences, Invariance, PTL

\* When ubi_data_flush_completion skips the metadata write, the metadata is durable.
THEOREM CleanIsDurableAlways == ASSUME SafeSetting PROVE Spec => []CleanIsDurable
BY Consequences, Invariance, PTL
=============================================================================
