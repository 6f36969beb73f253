--------------------------- MODULE GasPriceOracle ---------------------------
(***************************************************************************)
(* GasPriceOracle::suggested_price (core/gas_price_oracle.cpp): walk back *)
(* from a block, pool the lowest kSamples priority fees of every block    *)
(* (fees below kDefaultMinPrice and the beneficiary's own transactions    *)
(* dropped) until kMaxSamples are pooled or block 1 is done, then take    *)
(* the kPercentile sample of the sorted pool, clamped to kDefaultMaxPrice.*)
(* The chain is any chain of StartBlock blocks over small fee values; a         *)
(* transaction is its priority fee (priority_fee_per_gas against the      *)
(* block's base fee) and whether the block's beneficiary sent it.         *)
(***************************************************************************)
EXTENDS Integers, Sequences, SequencesExt, TLC

CONSTANTS
    StartBlock,           \* block_number passed to suggested_price
    Fees,           \* priority fees a transaction may pay
    MaxTxs,         \* transactions per block (bound)
    kDefaultPrice, kDefaultMaxPrice, kDefaultMinPrice,
    kCheckBlocks, kSamples, kPercentile

kMaxSamples == kCheckBlocks * kSamples

Tx == [fee: Fees, coinbase: BOOLEAN]
Block == UNION {[1..n -> Tx] : n \in 0..MaxTxs}

VARIABLES
    chain,          \* block number -> its transactions
    block_number,   \* next block to load
    tx_prices,      \* pooled samples, in load order
    price,          \* the suggested price, once computed
    pc              \* "walk" while loading blocks, then "done"

vars == <<chain, block_number, tx_prices, price, pc>>

MinOf(a, b) == IF a < b THEN a ELSE b

\* The fees load_block_prices keeps from a block: the ones at least
\* kDefaultMinPrice paid by someone other than the beneficiary.
Qualifying(txs) ==
    LET kept == SelectSeq(txs, LAMBDA tx : tx.fee >= kDefaultMinPrice /\ ~tx.coinbase)
    IN  [i \in DOMAIN kept |-> kept[i].fee]

\* Seeded fault for BlockSamplesLowest: the block's fees are not sorted
\* before the first `limit` are taken.
BlockPricesUnsorted(txs, limit) ==
    SubSeq(Qualifying(txs), 1, MinOf(limit, Len(Qualifying(txs))))

\* load_block_prices: sort the kept fees ascending and append the first
\* `limit` of them (the loop breaks once ++count reaches limit).
BlockPrices(txs, limit) ==
    LET sorted == SortSeq(Qualifying(txs), LAMBDA a, b : a < b)
    IN  SubSeq(sorted, 1, MinOf(limit, Len(sorted)))

\* Seeded fault for PriceIsPercentile: the position counts from the pool
\* size instead of the last index.
PercentileOffByOne(pool) ==
    LET sorted == SortSeq(pool, LAMBDA a, b : a < b)
        position == (Len(pool) * kPercentile) \div 100
        p == IF Len(pool) > 0 /\ Len(pool) > position THEN sorted[position + 1]
             ELSE kDefaultPrice
    IN  MinOf(p, kDefaultMaxPrice)

\* The tail of suggested_price: sort the pool, pick the sample at
\* (size - 1) * kPercentile / 100, clamp to kDefaultMaxPrice.
Percentile(pool) ==
    LET sorted == SortSeq(pool, LAMBDA a, b : a < b)
        position == ((Len(pool) - 1) * kPercentile) \div 100
        p == IF Len(pool) > 0 /\ Len(pool) > position THEN sorted[position + 1]
             ELSE kDefaultPrice
    IN  MinOf(p, kDefaultMaxPrice)

Init ==
    /\ chain \in [1..StartBlock -> Block]
    /\ block_number = StartBlock
    /\ tx_prices = <<>>
    /\ price = kDefaultPrice
    /\ pc = "walk"

\* One iteration of the walk: co_await load_block_prices(block_number--).
LoadBlockPrices ==
    /\ pc = "walk"
    /\ Len(tx_prices) < kMaxSamples /\ block_number > 0
    /\ tx_prices' = tx_prices \o BlockPrices(chain[block_number], kSamples)
    /\ block_number' = block_number - 1
    /\ UNCHANGED <<chain, price, pc>>

\* The walk ends; the price is computed from the pool.
SuggestPrice ==
    /\ pc = "walk"
    /\ ~(Len(tx_prices) < kMaxSamples /\ block_number > 0)
    /\ price' = Percentile(tx_prices)
    /\ pc' = "done"
    /\ UNCHANGED <<chain, block_number, tx_prices>>

Next == LoadBlockPrices \/ SuggestPrice

Spec == Init /\ [][Next]_vars

-----------------------------------------------------------------------------
(* Properties, against the algorithm as spec 4.8 states it.                *)

\* Every block's contribution is its lowest qualifying fees: as many as
\* kSamples allows, no qualifying fee left out is below one taken, and
\* nothing is taken that does not qualify.
BlockSamplesLowest ==
    \A b \in DOMAIN chain :
        LET q == Qualifying(chain[b])
            s == BlockPrices(chain[b], kSamples)
        IN  /\ Len(s) = MinOf(kSamples, Len(q))
            /\ ToBag(s) \sqsubseteq ToBag(q)
            /\ \A x \in Range(s), y \in BagToSet(ToBag(q) (-) ToBag(s)) : x <= y

\* The suggested price is the pool's percentile sample, stated by ranks
\* rather than by sorting: at most `position` samples are below it and
\* more than `position` are at most it; clamped to kDefaultMaxPrice, and
\* kDefaultPrice for an empty pool.
PriceIsPercentile ==
    pc = "done" =>
        IF tx_prices = <<>> THEN price = kDefaultPrice
        ELSE LET n == Len(tx_prices)
                 position == ((n - 1) * kPercentile) \div 100
                 below(p) == Cardinality({i \in 1..n : tx_prices[i] < p})
                 upto(p) == Cardinality({i \in 1..n : tx_prices[i] <= p})
             IN  \E p \in Range(tx_prices) :
                    /\ below(p) <= position /\ position < upto(p)
                    /\ price = MinOf(p, kDefaultMaxPrice)

\* Spec 4.8: the walk collects up to MAX_SAMPLES priority fees (the pool
\* is reserved for kMaxSamples).
PoolWithinMaxSamples == Len(tx_prices) <= kMaxSamples

=============================================================================
