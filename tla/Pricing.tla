------------------------------- MODULE Pricing -------------------------------
(****************************************************************************)
(* The pricing service, services/java-service: what a quote costs, and what *)
(* status a request is answered with.  Amounts are integer cents.           *)
(*                                                                          *)
(* A line of a batch is a JSON object: a function from the names of its     *)
(* fields to integers or to Text, anything that is not a number.  Injected  *)
(* faults and latency are off, as they are unless configured; the rules'    *)
(* names, timings and the counters of /health are left out.                 *)
(****************************************************************************)
EXTENDS Integers, Sequences

CONSTANTS
    Half,       \* 2^63: a long is in -Half..(Half - 1)
    MaxLines,   \* lines in a batch
    Text        \* a value that is not a number

-----------------------------------------------------------------------------
(****************************************************************************)
(* PricingEngine.                                                           *)
(****************************************************************************)

\* long arithmetic wraps, and % has the sign of the dividend.
Wrapped(n)      == ((n + Half) % (2 * Half)) - Half
Remainder(a, b) == IF a >= 0 THEN a % b ELSE -((-a) % b)

\* The one product that can wrap (GatewayProofs, NothingElseWraps).
UnitPrice(itemId) == 4900 + Remainder(Wrapped(itemId * 733), 345000)

\* The highest threshold that is reached.
VolumeBps(quantity) ==
    IF quantity >= 100 THEN 1500
    ELSE IF quantity >= 50 THEN 1000
    ELSE IF quantity >= 20 THEN 600
    ELSE IF quantity >= 10 THEN 300
    ELSE 0

TierBps(tier) ==
    IF tier = "internal" THEN 2500 ELSE IF tier = "paid" THEN 800 ELSE 0

\* Java's / rounds towards zero.
Part(amount, bps) ==
    IF amount >= 0 THEN (amount * bps) \div 10000 ELSE -(((-amount) * bps) \div 10000)

\* The tier's discount is on what the volume's left.
Discounted(subtotal, quantity, tier) ==
    LET volume == Part(subtotal, VolumeBps(quantity))
        more   == Part(subtotal - volume, TierBps(tier))
    IN  subtotal - (volume + more)

TotalCents(itemId, quantity, tier) ==
    LET discounted == Discounted(UnitPrice(itemId) * quantity, quantity, tier)
    IN  discounted + Part(discounted, 1800)

-----------------------------------------------------------------------------
(****************************************************************************)
(* PricingController and GlobalExceptionHandler.                            *)
(****************************************************************************)

\* quote() throws IllegalArgumentException, which is mapped to 400.
QuoteStatus(quantity) == IF quantity <= 0 THEN 400 ELSE 200

\* getOrDefault(name, 1)
Field(line, name) == IF name \in DOMAIN line THEN line[name] ELSE 1

\* A cast that fails throws what no handler maps: 500.
LineStatus(line) ==
    IF Text \in {Field(line, "itemId"), Field(line, "quantity")} THEN 500
    ELSE QuoteStatus(Field(line, "quantity"))

\* The first line that throws ends the batch.
BatchStatus(lines) ==
    LET thrown == {i \in DOMAIN lines : LineStatus(lines[i]) # 200}
        first  == CHOOSE i \in thrown : \A j \in thrown : i <= j
    IN  IF Len(lines) > MaxLines THEN 413
        ELSE IF thrown = {} THEN 200
        ELSE LineStatus(lines[first])
=============================================================================
