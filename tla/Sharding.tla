------------------------------ MODULE Sharding ------------------------------
(***************************************************************************)
(* Asymmetric tensor parallelism: an engine of Tp workers goes on with     *)
(* NewTp of them, and every layer cuts its weights anew.  Weights are in   *)
(* rows of one head each.  A gated delta net has keys, keys and values in  *)
(* its convolution (patch_mamba_mixer2), the same rows in its projection   *)
(* (patch_linear) and values in A_log and out_proj (patch_qwen3_5).  The   *)
(* linear layers are those of weights that weight_loader loads, which bf16 *)
(* is kept on (patch_ascend_linear); see LoadersAgree for the others.      *)
(***************************************************************************)
EXTENDS Integers, Sequences

CONSTANTS MaxTp,   \* bound: workers of the engine
          MaxUnit  \* bound: heads of each kind, over the number of workers

VARIABLES tp, newTp,     \* engine_parallel_config: tp and new_tp
          keys, values,  \* linear_num_key_heads, linear_num_value_heads
          queries, kv,   \* num_attention_heads, num_key_value_heads
          rank,          \* the worker that loads its weights now
          group,         \* the group of rows the loader is at, 4 when it is done
          boundary, loadedBoundary, \* of the loader
          conv           \* conv[r][i]: the row of the whole weight in row i of worker r
shape == <<tp, newTp, keys, values, queries, kv>>
vars == <<shape, rank, group, boundary, loadedBoundary, conv>>

Ranks == 1..newTp

\* get_tp_asymmetric_shardings: what the division leaves goes to the last workers.
Shardings ==
    [r \in Ranks |-> (tp \div newTp) + (IF r > newTp - (tp % newTp) THEN 1 ELSE 0)]
\* sum(shardings[:rank])
Before(r) == LET sum[k \in 0..(r - 1)] == IF k = 0 THEN 0 ELSE sum[k - 1] + Shardings[k]
             IN sum[r - 1]

\* "head_num >= world_size, head_num divisible by world_size"
\* (vllm/v1/executor/utils.py); fewer key heads than workers are allowed in
\* attention when one is a multiple of the other (patch_linear).
Init == /\ tp \in 2..MaxTp /\ newTp \in 1..(tp - 1)
        /\ keys \in {tp * u : u \in 1..MaxUnit} /\ values \in {keys * u : u \in 1..MaxUnit}
        /\ queries \in {tp * u : u \in 1..MaxUnit}
        /\ kv \in {h \in 1..queries : queries % h = 0 /\ (tp % h = 0 \/ h % tp = 0)}
        /\ rank = 1 /\ group = 1 /\ boundary = 0 /\ loadedBoundary = 0
        /\ conv = <<<<>>>>

(***************************************************************************)
(* The loader of the convolution (mamba_v2_sharded_weight_loader)          *)
(***************************************************************************)
FullDim == <<keys, keys, values>>
Base(rows) == rows \div tp

\* Mutant: a worker skips as if those before it had shards like its own.
MutLoadGroup ==
    LET shardSize == Shardings[rank] * Base(FullDim[group])
        start == loadedBoundary + (rank - 1) * shardSize
    IN  /\ group \leq 3
        /\ conv' = [conv EXCEPT ![rank] = @ \o [i \in 1..shardSize |-> start + i]]
        /\ boundary' = boundary + shardSize
        /\ loadedBoundary' = loadedBoundary + FullDim[group]
        /\ group' = group + 1
        /\ UNCHANGED <<shape, rank>>
\* One entry of shard_spec (extra is 0 and there are no duplicate groups).
LoadGroup ==
    LET shardSize == Shardings[rank] * Base(FullDim[group])
        skip == Before(rank) * Base(FullDim[group])
        take == IF shardSize < FullDim[group] - skip THEN shardSize ELSE FullDim[group] - skip
        start == loadedBoundary + skip
    IN  /\ group \leq 3
        /\ conv' = [conv EXCEPT ![rank] = SubSeq(@, 1, boundary) \o [i \in 1..take |-> start + i]]
        /\ boundary' = boundary + shardSize
        /\ loadedBoundary' = loadedBoundary + FullDim[group]
        /\ group' = group + 1
        /\ UNCHANGED <<shape, rank>>

NextWorker == /\ group = 4 /\ rank < newTp
              /\ rank' = rank + 1 /\ group' = 1 /\ boundary' = 0 /\ loadedBoundary' = 0
              /\ conv' = Append(conv, <<>>)
              /\ UNCHANGED shape

Next == LoadGroup \/ NextWorker

(***************************************************************************)
(* The other layers                                                        *)
(***************************************************************************)
Rows(start, size) == [i \in 1..size |-> start + i]
\* MergedColumnParallelLinearAsymmetric.weight_loader: the rows of the r-th worker.
MergedRows(r, rows) == Rows(Before(r) * Base(rows), Shardings[r] * Base(rows))
\* MergedColumnParallelLinearAsymmetric.weight_loader_v2 with what it calls, for
\* the quantisation methods that support it: all workers are taken for equal.
MergedRowsV2(r, rows) == Rows((r - 1) * (rows \div newTp), rows \div newTp)
\* RowParallelLinearAsymmetric.weight_loader.
RowParallelRows(r, rows) ==
    LET size == Base(rows) * Shardings[r] IN Rows((size \div Shardings[r]) * Before(r), size)
\* asymmetric_weight_loader of A_log and dt_bias, local_num_v_heads long.
HeadRows(r) == Rows(Before(r) * Base(values), (values * Shardings[r]) \div tp)
\* get_state_shape: the rows the convolution's state may have.  The code cuts the
\* product with a floating-point share to an integer; that product is exact for
\* up to ExactTp workers, and beyond may fall short of it.
ExactTp == 10
StateRows(r) == LET rows == ((2 * keys + values) * Shardings[r]) \div tp
                IN IF tp \leq ExactTp THEN {rows} ELSE {rows - 1, rows}

\* QKVParallelLinearAsymmetric: the constructor fails for a worker whose shard and
\* the workers of a key head do not fit (its num_kv_heads is never set).
Fits(r) == \/ tp < kv
           \/ LET sharing == tp \div kv IN Shardings[r] % sharing = 0 \/ sharing % Shardings[r] = 0
\* Mutant: the heads before are counted as if each worker before had as many.
MutKvHeads(r) ==
    LET heads == (kv * Shardings[r]) \div tp
        held == IF heads = 0 THEN 1 ELSE heads
    IN  Rows((r - 1) * held, held)
KvHeads(r) ==
    LET heads == (kv * Shardings[r]) \div tp IN
    Rows((kv * Before(r)) \div tp, IF heads = 0 THEN 1 ELSE heads)
QueryHeads(r) == Rows((queries * Before(r)) \div tp, Base(queries) * Shardings[r])

(***************************************************************************)
(* Properties                                                              *)
(***************************************************************************)
\* The rows of a worker that has loaded are of the same heads in the convolution,
\* the projection, A_log and the output; and the state has as many as the
\* convolution, where the old engine has no more than ExactTp workers.
Shifted(rows, by) == [i \in DOMAIN rows |-> rows[i] + by]
Loaded == {r \in Ranks : r < rank \/ (r = rank /\ group = 4)}
RowsOfConv(r) ==
    MergedRows(r, keys) \o Shifted(MergedRows(r, keys), keys)
        \o Shifted(MergedRows(r, values), 2 * keys)
LayersAgree ==
    \A r \in Loaded :
        /\ conv[r] = RowsOfConv(r)
        /\ tp \leq ExactTp => StateRows(r) = {Len(conv[r])}
        /\ MergedRows(r, values) = HeadRows(r) /\ HeadRows(r) = RowParallelRows(r, values)
\* Once all workers have loaded, each row of the convolution is in exactly one
\* place: between the shards, which are unequal and begin where those of other
\* sizes end, no row is missing and none is there twice.
Held(row) == {p \in UNION {{r} \X DOMAIN conv[r] : r \in Ranks} : conv[p[1]][p[2]] = row}
WeightsAreWhole ==
    Loaded = Ranks =>
        \A row \in 1..(2 * keys + values) : \E p \in Held(row) : Held(row) = {p}

\* Grouped attention survives the new cut: where every worker's layer can be
\* built, each query head finds on its own worker the key head it had before.
QueriesFindTheirKeys ==
    (\A r \in Ranks : Fits(r)) =>
        \A r \in Ranks : \A i \in DOMAIN QueryHeads(r) :
            LET local == (i - 1) \div (Len(QueryHeads(r)) \div Len(KvHeads(r)))
                head == (QueryHeads(r)[i] - 1) \div (queries \div kv)
            IN  /\ local + 1 \in DOMAIN KvHeads(r)
                /\ KvHeads(r)[local + 1] = head + 1

\* The layers "support the asymmetric" cut (the comments of patch_linear), those
\* of a quantised model as well: either loader of a projection gives a worker the
\* same rows.  Refuted: weight_loader_v2 takes all workers for equal.
LoadersAgree == \A r \in Ranks : MergedRowsV2(r, values) = MergedRows(r, values)

\* patch_qwen3_5.py replaces tp_size by world_split_size // split_size around the
\* forward pass, which divides the value heads by it: the heads the pass counts
\* are the heads the worker holds.
ForwardCountsItsHeads ==
    \A r \in Ranks : values \div (tp \div Shardings[r]) = Len(HeadRows(r))
=============================================================================
