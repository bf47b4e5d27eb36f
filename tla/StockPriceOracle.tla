-------------------------- MODULE StockPriceOracle --------------------------
(***************************************************************************)
(* polaris/StockPriceOracle.sol: the last print of every stock, when the   *)
(* venue printed it and whether the venue was open.  The chain's clock     *)
(* lives here, because staleness is what the oracle exists to judge.  The  *)
(* `source` label is provenance for a receipt and is left out.             *)
(***************************************************************************)
EXTENDS Parties

CONSTANTS
    Owner,              \* the account that owns the contracts
    DefaultMaxAge, DefaultMaxAgeWhenClosed,         \* 15 minutes, 4 days
    TightestMaxAge, LoosestMaxAge,                  \* 60 seconds, 7 days
    Prices,             \* prints a relayer or the owner may offer
    AgeChoices,         \* <<open, closed>> bounds the owner may ask for
    DeviationChoices,   \* breakers the owner may ask for
    RelayerChoices,     \* accounts whose role the owner may change
    MaxTime             \* bound: the clock stops here

ASSUME OracleAssumption ==
    /\ Owner \in Accounts
    /\ DefaultMaxAge \in Nat /\ DefaultMaxAgeWhenClosed \in Nat
    /\ DefaultMaxAge <= DefaultMaxAgeWhenClosed
    /\ TightestMaxAge \in Nat /\ LoosestMaxAge \in Nat
    /\ Prices \subseteq Nat
    /\ AgeChoices \subseteq Nat \X Nat
    /\ DeviationChoices \subseteq Nat
    /\ RelayerChoices \subseteq Accounts
    /\ MaxTime \in Nat

VARIABLES
    now,                \* block.timestamp
    print,              \* stock -> Price; a zero usdPerShare is "no price"
    maxAge, maxAgeWhenClosed, maxDeviationBps,
    relayers            \* the accounts with isRelayer set

oracleVars == <<print, maxAge, maxAgeWhenClosed, maxDeviationBps, relayers>>

Price == [usdPerShare : Nat, printedAt : Nat, marketOpen : BOOLEAN]
NoPrint == [usdPerShare |-> 0, printedAt |-> 0, marketOpen |-> FALSE]

OracleTypeOK ==
    /\ now \in Nat
    /\ print \in [Stocks -> Price]
    /\ maxAge \in Nat /\ maxAgeWhenClosed \in Nat /\ maxDeviationBps \in Nat
    /\ relayers \subseteq Accounts

OracleInit ==
    /\ now = 0
    /\ print = [s \in Stocks |-> NoPrint]
    /\ maxAge = DefaultMaxAge
    /\ maxAgeWhenClosed = DefaultMaxAgeWhenClosed
    /\ maxDeviationBps = 2000
    /\ relayers = {Owner}

-----------------------------------------------------------------------------
Priced(s) == print[s].usdPerShare # 0

AgeLimit(marketOpen) == IF marketOpen THEN maxAge ELSE maxAgeWhenClosed

Age(s) == now - print[s].printedAt

(* getPrice answers, peek says fresh.                                      *)
Fresh(s) == Priced(s) /\ Age(s) <= AgeLimit(print[s].marketOpen)

\* A slip: no circuit breaker.
AnyMove(s, usd) == TRUE

WithinDeviation(s, usd) ==
    LET prev == print[s].usdPerShare
        diff == IF usd > prev THEN usd - prev ELSE prev - usd
    IN  Priced(s) => (diff * 10000) \div prev <= maxDeviationBps

(* What both ways of posting insist on.                                    *)
Postable(s, usd, at) ==
    /\ usd # 0
    /\ at <= now
    /\ Priced(s) => at >= print[s].printedAt

Store(s, usd, at, marketOpen) ==
    /\ print' = [print EXCEPT ![s] =
                    [usdPerShare |-> usd, printedAt |-> at, marketOpen |-> marketOpen]]
    /\ UNCHANGED <<now, maxAge, maxAgeWhenClosed, maxDeviationBps, relayers>>

PostPrice(relayer, s, usd, at, marketOpen) ==
    /\ relayer \in relayers
    /\ Postable(s, usd, at)
    /\ WithinDeviation(s, usd)
    /\ Store(s, usd, at, marketOpen)

PostPriceOverride(s, usd, at, marketOpen) ==
    /\ Postable(s, usd, at)
    /\ Store(s, usd, at, marketOpen)

SetRelayer(relayer, allowed) ==
    /\ relayers' = IF allowed THEN relayers \cup {relayer} ELSE relayers \ {relayer}
    /\ UNCHANGED <<now, print, maxAge, maxAgeWhenClosed, maxDeviationBps>>

SetMaxAge(whileOpen, whileClosed) ==
    /\ whileOpen >= TightestMaxAge
    /\ whileClosed >= whileOpen
    /\ whileClosed <= LoosestMaxAge
    /\ maxAge' = whileOpen /\ maxAgeWhenClosed' = whileClosed
    /\ UNCHANGED <<now, print, maxDeviationBps, relayers>>

SetMaxDeviation(bps) ==
    /\ bps >= 100 /\ bps <= 9000
    /\ maxDeviationBps' = bps
    /\ UNCHANGED <<now, print, maxAge, maxAgeWhenClosed, relayers>>

(* A block with a later timestamp.                                         *)
Tick ==
    /\ now < MaxTime
    /\ now' = now + 1
    /\ UNCHANGED oracleVars

OracleNext ==
    \/ \E r \in Accounts, s \in Stocks, usd \in Prices, at \in 0..now, open \in BOOLEAN :
          PostPrice(r, s, usd, at, open)
    \/ \E s \in Stocks, usd \in Prices, at \in 0..now, open \in BOOLEAN :
          PostPriceOverride(s, usd, at, open)
    \/ \E r \in RelayerChoices, allowed \in BOOLEAN : SetRelayer(r, allowed)
    \/ \E bounds \in AgeChoices : SetMaxAge(bounds[1], bounds[2])
    \/ \E bps \in DeviationChoices : SetMaxDeviation(bps)
    \/ Tick

=============================================================================
