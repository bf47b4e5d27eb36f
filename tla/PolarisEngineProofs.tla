------------------------ MODULE PolarisEngineProofs ------------------------
(***************************************************************************)
(* The books of the stock-credit system balance for every number of        *)
(* accounts, stocks and loans, and for every choice of the parameters.     *)
(*                                                                         *)
(* The invariants need one another.  lockedOf stays a natural number only  *)
(* because it is the sum of the active loans' shares; the pool's cap on a  *)
(* repaid principal never bites only because outstanding is the sum of     *)
(* their principals; custody is exact only if both move with the ledger.   *)
(* Their conjunction is inductive.                                         *)
(***************************************************************************)
EXTENDS PolarisEngine, PrefixSumTheorems, CreditMathTheorems

Books ==
    /\ LockedMatchesLoans
    /\ CustodyIsExact
    /\ OutstandingMatchesLoans
    /\ PoolIsWhole

IInv == TypeOK /\ Books

-----------------------------------------------------------------------------
(* Sums over the book.                                                     *)

LEMMA LoanFields ==
    ASSUME NEW book \in Seq(Loan), NEW i \in 1..Len(book)
    PROVE  /\ book[i] \in Loan
           /\ book[i].borrower \in Accounts /\ book[i].merchant \in Accounts
           /\ book[i].stock \in Stocks /\ book[i].shares \in Nat
           /\ book[i].principal \in Nat /\ book[i].fee \in Nat
<1>1. book[i] \in Loan
    OBVIOUS
<1> QED
    BY <1>1 DEF Loan

LEMMA SummandTypes ==
    ASSUME NEW book \in Seq(Loan), NEW s
    PROVE  /\ ActiveShares(book, s) \in [1..Len(book) -> Nat]
           /\ ActivePrincipal(book) \in [1..Len(book) -> Nat]
<1>1. \A i \in 1..Len(book) : book[i].shares \in Nat /\ book[i].principal \in Nat
    BY LoanFields
<1> QED
    BY <1>1 DEF ActiveShares, ActivePrincipal

(* What an active loan holds is part of the totals.                        *)
LEMMA ActiveIsCounted ==
    ASSUME NEW book \in Seq(Loan), NEW i \in 1..Len(book), book[i].status = "Active"
    PROVE  /\ book[i].shares <= SumTo(ActiveShares(book, book[i].stock), Len(book))
           /\ book[i].principal <= SumTo(ActivePrincipal(book), Len(book))
<1>1. Len(book) \in Nat
    OBVIOUS
<1>2. \A k \in 1..Len(book) :
        ActiveShares(book, book[i].stock)[k]
            <= SumTo(ActiveShares(book, book[i].stock), Len(book))
    BY <1>1, SummandTypes, SumBounds
<1>3. \A k \in 1..Len(book) : ActivePrincipal(book)[k] <= SumTo(ActivePrincipal(book), Len(book))
    BY <1>1, SummandTypes, SumBounds
<1>4. /\ ActiveShares(book, book[i].stock)[i] = book[i].shares
      /\ ActivePrincipal(book)[i] = book[i].principal
    BY DEF ActiveShares, ActivePrincipal
<1> QED
    BY <1>2, <1>3, <1>4

(* The shares of stock s that a loan holds while it is active.             *)
Holding(l, s) == IF l.stock = s THEN l.shares ELSE 0
WithStatus(book, id, outcome) == [book EXCEPT ![id].status = outcome]

(* A new active loan adds itself to the totals.                            *)
LEMMA TotalsAfterOpen ==
    ASSUME NEW book \in Seq(Loan), NEW l \in Loan, l.status = "Active", NEW s
    PROVE  /\ SumTo(ActiveShares(Append(book, l), s), Len(Append(book, l)))
                = SumTo(ActiveShares(book, s), Len(book)) + Holding(l, s)
           /\ SumTo(ActivePrincipal(Append(book, l)), Len(Append(book, l)))
                = SumTo(ActivePrincipal(book), Len(book)) + l.principal
<1> DEFINE n == Len(book)
           new == Append(book, l)
<1>1. n \in Nat /\ new \in Seq(Loan) /\ Len(new) = n+1
    OBVIOUS
<1>2. (\A i \in 1..n : new[i] = book[i]) /\ new[n+1] = l
    OBVIOUS
<1>3. /\ ActiveShares(book, s) \in [1..n -> Int] /\ ActivePrincipal(book) \in [1..n -> Int]
      /\ ActiveShares(new, s) \in [1..(n+1) -> Int] /\ ActivePrincipal(new) \in [1..(n+1) -> Int]
    <2>1. /\ ActiveShares(new, s) \in [1..Len(new) -> Nat]
          /\ ActivePrincipal(new) \in [1..Len(new) -> Nat]
        BY <1>1, SummandTypes
    <2> QED BY <2>1, <1>1, SummandTypes
<1>4. \A i \in 1..n : /\ ActiveShares(new, s)[i] = ActiveShares(book, s)[i]
                      /\ ActivePrincipal(new)[i] = ActivePrincipal(book)[i]
    BY <1>1, <1>2 DEF ActiveShares, ActivePrincipal
<1>5. /\ ActiveShares(new, s)[n+1] = IF l.stock = s THEN l.shares ELSE 0
      /\ ActivePrincipal(new)[n+1] = l.principal
    BY <1>1, <1>2 DEF ActiveShares, ActivePrincipal
<1> HIDE DEF n, new
<1>6. SumTo(ActiveShares(new, s), n+1) = SumTo(ActiveShares(book, s), n) + ActiveShares(new, s)[n+1]
    BY <1>1, <1>3, <1>4, SumExtend
<1>7. SumTo(ActivePrincipal(new), n+1) = SumTo(ActivePrincipal(book), n) + ActivePrincipal(new)[n+1]
    BY <1>1, <1>3, <1>4, SumExtend
<1> QED
    BY <1>1, <1>5, <1>6, <1>7 DEF n, new, Holding

(* A loan that leaves Active takes itself out of them.                     *)
LEMMA TotalsAfterClose ==
    ASSUME NEW book \in Seq(Loan), NEW id \in 1..Len(book), book[id].status = "Active",
           NEW outcome \in Status, outcome # "Active", NEW s
    PROVE  /\ WithStatus(book, id, outcome) \in Seq(Loan)
           /\ Len(WithStatus(book, id, outcome)) = Len(book)
           /\ SumTo(ActiveShares(WithStatus(book, id, outcome), s), Len(book))
                = SumTo(ActiveShares(book, s), Len(book)) - Holding(book[id], s)
           /\ SumTo(ActivePrincipal(WithStatus(book, id, outcome)), Len(book))
                = SumTo(ActivePrincipal(book), Len(book)) - book[id].principal
<1> DEFINE n == Len(book)
           closed == [book[id] EXCEPT !.status = outcome]
           new == [book EXCEPT ![id] = closed]
<1>1. closed \in Loan /\ closed.status = outcome
    BY LoanFields DEF Loan
<1> HIDE DEF closed
<1>2. n \in Nat /\ new \in Seq(Loan) /\ Len(new) = n
    BY <1>1
<1>3. \A i \in 1..n : new[i] = IF i = id THEN closed ELSE book[i]
    OBVIOUS
<1>4. /\ ActiveShares(book, s) \in [1..n -> Nat] /\ ActivePrincipal(book) \in [1..n -> Nat]
      /\ ActiveShares(new, s) \in [1..n -> Nat] /\ ActivePrincipal(new) \in [1..n -> Nat]
    <2>1. /\ ActiveShares(new, s) \in [1..Len(new) -> Nat]
          /\ ActivePrincipal(new) \in [1..Len(new) -> Nat]
        BY <1>2, SummandTypes
    <2> QED BY <2>1, <1>2, SummandTypes
<1>5. \A i \in 1..n : i # id => /\ ActiveShares(new, s)[i] = ActiveShares(book, s)[i]
                                /\ ActivePrincipal(new)[i] = ActivePrincipal(book)[i]
    BY <1>2, <1>3 DEF ActiveShares, ActivePrincipal
<1>6. /\ ActiveShares(new, s)[id] = 0 /\ ActivePrincipal(new)[id] = 0
      /\ ActiveShares(book, s)[id] = IF book[id].stock = s THEN book[id].shares ELSE 0
      /\ ActivePrincipal(book)[id] = book[id].principal
    BY <1>1, <1>2, <1>3 DEF ActiveShares, ActivePrincipal
<1>7. SumTo(ActiveShares(book, s), n) \in Nat /\ SumTo(ActivePrincipal(book), n) \in Nat
    <2> HIDE DEF n, new
    <2> QED BY <1>2, <1>4, SumBounds
<1>8. new = WithStatus(book, id, outcome)
    BY DEF closed, WithStatus
<1> HIDE DEF n, new
<1>9. SumTo(ActiveShares(new, s), n)
        = SumTo(ActiveShares(book, s), n) + ActiveShares(new, s)[id] - ActiveShares(book, s)[id]
    <2>1. id \in 1..n /\ ActiveShares(book, s) \in [1..n -> Int] /\ ActiveShares(new, s) \in [1..n -> Int]
        BY <1>4 DEF n
    <2> QED BY <2>1, <1>2, <1>5, SumUpdate
<1>10. SumTo(ActivePrincipal(new), n)
        = SumTo(ActivePrincipal(book), n) + ActivePrincipal(new)[id] - ActivePrincipal(book)[id]
    <2>1. id \in 1..n /\ ActivePrincipal(book) \in [1..n -> Int] /\ ActivePrincipal(new) \in [1..n -> Int]
        BY <1>4 DEF n
    <2> QED BY <2>1, <1>2, <1>5, SumUpdate
<1>11. ActiveShares(book, s)[id] \in Int /\ ActivePrincipal(book)[id] \in Int
    BY <1>4 DEF n
<1> QED
    BY <1>2, <1>6, <1>7, <1>8, <1>9, <1>10, <1>11 DEF n, Holding

-----------------------------------------------------------------------------
(* The ledger of shares and the claims on it.                              *)

Ledgers == [Stocks -> [Holders -> Nat]]
Claims == [Accounts -> [Stocks -> Nat]]
WithClaim(claims, a, s, v) == [claims EXCEPT ![a][s] = v]

LEMMA EngineIsNoAccount == Engine \in Holders /\ Engine \notin Accounts /\ Accounts \subseteq Holders
BY PartiesAssumption DEF Engine, Contract, Holders, Accounts

(* A transfer takes exactly the amount from the sender, arrives as it may, *)
(* and touches nobody else.                                                *)
LEMMA TransferEffect ==
    ASSUME NEW ledger \in Ledgers, NEW s \in Stocks, NEW from \in Holders, NEW to \in Holders,
           from # to, NEW amount \in Nat, amount <= ledger[s][from]
    PROVE  LET new == AfterTransfer(ledger, s, from, to, amount)
           IN  /\ new \in Ledgers
               /\ new[s][from] = ledger[s][from] - amount
               /\ new[s][to] = ledger[s][to] + Arriving(s, amount)
               /\ \A t \in Stocks, h \in Holders :
                    t # s \/ h \notin {from, to} => new[t][h] = ledger[t][h]
<1>1. Arriving(s, amount) \in Nat
    BY DEF Arriving
<1> QED
    BY <1>1 DEF AfterTransfer, Ledgers

(* Setting one claim changes the sum of the claims on that stock alone.    *)
LEMMA ClaimUpdate ==
    ASSUME NEW claims \in Claims, NEW a \in Accounts, NEW s \in Stocks, NEW v \in Nat
    PROVE  /\ WithClaim(claims, a, s, v) \in Claims
           /\ \A t \in Stocks :
                /\ SumTo(Deferred(claims, t), NumAccounts) \in Nat
                /\ SumTo(Deferred(WithClaim(claims, a, s, v), t), NumAccounts)
                      = SumTo(Deferred(claims, t), NumAccounts)
                        + (IF t = s THEN v - claims[a][s] ELSE 0)
<1> DEFINE new == WithClaim(claims, a, s, v)
<1>1. new \in Claims
    BY DEF Claims, WithClaim
<1>2. \A b \in Accounts, t \in Stocks :
        new[b][t] = IF b = a /\ t = s THEN v ELSE claims[b][t]
    BY DEF Claims, WithClaim
<1> HIDE DEF new
<1>3. ASSUME NEW t \in Stocks
      PROVE  /\ SumTo(Deferred(claims, t), NumAccounts) \in Nat
             /\ SumTo(Deferred(new, t), NumAccounts)
                    = SumTo(Deferred(claims, t), NumAccounts)
                      + (IF t = s THEN v - claims[a][s] ELSE 0)
    <2> DEFINE c == Deferred(claims, t)
               d == Deferred(new, t)
    <2>1. c \in [1..NumAccounts -> Nat] /\ d \in [1..NumAccounts -> Nat]
        BY <1>1 DEF Deferred, Claims, Accounts
    <2>2. \A i \in 1..NumAccounts : i # a => d[i] = c[i]
        BY <1>2 DEF Deferred, Accounts
    <2>3. d[a] = (IF t = s THEN v ELSE claims[a][t]) /\ c[a] = claims[a][t]
        BY <1>2 DEF Deferred
    <2>4. claims[a][t] \in Nat
        BY DEF Claims
    <2> HIDE DEF c, d
    <2>5. SumTo(c, NumAccounts) \in Nat
        BY <2>1, PartiesAssumption, SumBounds
    <2>6. SumTo(d, NumAccounts) = SumTo(c, NumAccounts) + d[a] - c[a]
        <3>1. c \in [1..NumAccounts -> Int] /\ d \in [1..NumAccounts -> Int] /\ a \in 1..NumAccounts
            BY <2>1 DEF Accounts
        <3> QED BY <3>1, <2>2, PartiesAssumption, SumUpdate
    <2> QED
        BY <2>3, <2>4, <2>5, <2>6 DEF c, d
<1> QED
    BY <1>1, <1>3 DEF new

LEMMA DeferredIsNatural ==
    ASSUME NEW claims \in Claims, NEW t \in Stocks
    PROVE  SumTo(Deferred(claims, t), NumAccounts) \in Nat
<1>1. Deferred(claims, t) \in [1..NumAccounts -> Nat]
    BY DEF Deferred, Claims, Accounts
<1> QED
    BY <1>1, PartiesAssumption, SumBounds

(* Shares handed over leave custody or become a claim: either way they are *)
(* no longer in custody for anything else.                                 *)
LEMMA DeliverEffect ==
    ASSUME NEW ledger \in Ledgers, claimable \in Claims, NEW s \in Stocks,
           NEW to \in Accounts, NEW amount \in Nat, Deliver(ledger, s, to, amount)
    PROVE  /\ shares' \in Ledgers /\ claimable' \in Claims
           /\ \A t \in Stocks :
                shares'[t][Engine] - SumTo(Deferred(claimable', t), NumAccounts)
                  = ledger[t][Engine] - SumTo(Deferred(claimable, t), NumAccounts)
                    - (IF t = s THEN amount ELSE 0)
<1>1. CASE Transferable(ledger, s, Engine, to, amount)
    <2>1. shares' = AfterTransfer(ledger, s, Engine, to, amount) /\ claimable' = claimable
        BY <1>1 DEF Deliver
    <2>2. amount <= ledger[s][Engine]
        BY <1>1 DEF Transferable
    <2>3. /\ shares' \in Ledgers
          /\ shares'[s][Engine] = ledger[s][Engine] - amount
          /\ \A t \in Stocks : t # s => shares'[t][Engine] = ledger[t][Engine]
        BY <2>1, <2>2, EngineIsNoAccount, TransferEffect
    <2>4. \A t \in Stocks : ledger[t][Engine] \in Nat /\ SumTo(Deferred(claimable, t), NumAccounts) \in Nat
        <3>1. \A t \in Stocks : ledger[t][Engine] \in Nat
            BY EngineIsNoAccount DEF Ledgers
        <3>2. \A t \in Stocks : SumTo(Deferred(claimable, t), NumAccounts) \in Nat
            BY ClaimUpdate
        <3> QED BY <3>1, <3>2
    <2> QED
        BY <2>1, <2>3, <2>4
<1>2. CASE ~Transferable(ledger, s, Engine, to, amount)
    <2> DEFINE v == claimable[to][s] + amount
               new == WithClaim(claimable, to, s, v)
    <2>1. shares' = ledger /\ claimable' = new
        BY <1>2 DEF Deliver, Claims, WithClaim
    <2>2. claimable[to][s] \in Nat /\ v \in Nat /\ v - claimable[to][s] = amount
        BY DEF Claims
    <2> HIDE DEF v
    <2>3. /\ new \in Claims
          /\ \A t \in Stocks :
                /\ SumTo(Deferred(claimable, t), NumAccounts) \in Nat
                /\ SumTo(Deferred(new, t), NumAccounts)
                      = SumTo(Deferred(claimable, t), NumAccounts)
                        + (IF t = s THEN v - claimable[to][s] ELSE 0)
        BY <2>2, ClaimUpdate
    <2> HIDE DEF new
    <2>4. \A t \in Stocks : ledger[t][Engine] \in Nat
        BY EngineIsNoAccount DEF Ledgers
    <2> QED
        BY <2>1, <2>2, <2>3, <2>4
<1> QED
    BY <1>1, <1>2

-----------------------------------------------------------------------------
(* What repay, refund and liquidate share keeps every book but custody,    *)
(* whose other half is the delivery of the shares.                         *)

LEMMA PaidIn ==
    ASSUME stable \in [Holders -> Nat], NEW from \in Accounts, NEW amount \in Nat,
           PayStable(from, Pool, amount)
    PROVE  stable' \in [Holders -> Nat] /\ stable'[Pool] = stable[Pool] + amount
BY EngineIsNoAccount DEF PayStable, Pool, Engine

LEMMA PaidOut ==
    ASSUME stable \in [Holders -> Nat], NEW to \in Accounts, NEW amount \in Nat,
           PayStable(Pool, to, amount)
    PROVE  stable' \in [Holders -> Nat] /\ stable'[Pool] = stable[Pool] - amount
BY EngineIsNoAccount DEF PayStable, Pool, Engine

LEMMA CloseEffect ==
    ASSUME IInv, NEW id \in LoanIds, NEW payer \in Accounts,
           NEW outcome \in Status, outcome # "Active", CloseLoan(id, payer, outcome)
    PROVE  /\ OracleTypeOK' /\ PoolTypeOK' /\ ParamTypeOK'
           /\ blocked' = blocked /\ skimming' = skimming /\ orderToLoan' = orderToLoan
           /\ loans' \in Seq(Loan) /\ Len(loans') = Len(loans)
           /\ lockedOf' \in [Stocks -> Nat]
           /\ \A s \in Stocks : lockedOf'[s] = lockedOf[s] - Holding(loans[id], s)
           /\ LockedMatchesLoans' /\ OutstandingMatchesLoans' /\ PoolIsWhole'
           /\ outstanding' = outstanding - loans[id].principal
           /\ earned' = earned + loans[id].fee
           /\ stable'[Pool] = stable[Pool] + Debt(loans[id])
<1> DEFINE l == loans[id]
<1>1. /\ loans \in Seq(Loan) /\ id \in 1..Len(loans) /\ l.status = "Active"
      /\ l.stock \in Stocks /\ l.shares \in Nat /\ l.principal \in Nat /\ l.fee \in Nat
    <2>1. loans \in Seq(Loan) /\ id \in 1..Len(loans) /\ l.status = "Active"
        BY DEF IInv, TypeOK, BookTypeOK, LoanIds, CloseLoan
    <2> QED BY <2>1, LoanFields
<1>2. /\ loans' = [loans EXCEPT ![id].status = outcome]
      /\ lockedOf' = [lockedOf EXCEPT ![l.stock] = @ - l.shares]
      /\ OnRepaid(payer, l.principal, l.fee)
      /\ UNCHANGED <<now, oracleVars, blocked, skimming, orderToLoan, listVars, paramVars, sequencer>>
    BY DEF CloseLoan, Release
<1>3. /\ loans' \in Seq(Loan) /\ Len(loans') = Len(loans)
      /\ \A s \in Stocks :
            SumTo(ActiveShares(loans', s), Len(loans'))
              = SumTo(ActiveShares(loans, s), Len(loans)) - Holding(l, s)
      /\ SumTo(ActivePrincipal(loans'), Len(loans'))
              = SumTo(ActivePrincipal(loans), Len(loans)) - l.principal
    <2>1. ASSUME NEW s
          PROVE  /\ loans' \in Seq(Loan) /\ Len(loans') = Len(loans)
                 /\ SumTo(ActiveShares(loans', s), Len(loans'))
                      = SumTo(ActiveShares(loans, s), Len(loans)) - Holding(l, s)
                 /\ SumTo(ActivePrincipal(loans'), Len(loans'))
                      = SumTo(ActivePrincipal(loans), Len(loans)) - l.principal
        <3>1. loans' = WithStatus(loans, id, outcome)
            BY <1>2 DEF WithStatus
        <3> QED BY <3>1, <1>1, TotalsAfterClose
    <2> QED BY <2>1
<1>4. l.shares <= lockedOf[l.stock] /\ l.principal <= outstanding
    BY <1>1, ActiveIsCounted DEF IInv, Books, LockedMatchesLoans, OutstandingMatchesLoans
<1>5. lockedOf \in [Stocks -> Nat] /\ outstanding \in Nat /\ earned \in Nat
      /\ contributed \in Int /\ stable \in [Holders -> Nat]
    BY DEF IInv, TypeOK, BookTypeOK, PoolTypeOK
<1>6. /\ lockedOf' \in [Stocks -> Nat]
      /\ \A s \in Stocks : lockedOf'[s] = lockedOf[s] - Holding(l, s)
    BY <1>1, <1>2, <1>4, <1>5 DEF Holding
<1>7. LockedMatchesLoans'
    BY <1>3, <1>6 DEF IInv, Books, LockedMatchesLoans
<1>8. /\ stable' \in [Holders -> Nat]
      /\ stable'[Pool] = stable[Pool] + (l.principal + l.fee)
    <2>1. PayStable(payer, Pool, l.principal + l.fee) /\ l.principal + l.fee \in Nat
        BY <1>1, <1>2 DEF OnRepaid
    <2> HIDE DEF l
    <2> QED BY <2>1, <1>5, PaidIn
<1>9. /\ outstanding' = outstanding - l.principal /\ earned' = earned + l.fee
      /\ contributed' = contributed
    BY <1>1, <1>2, <1>4, <1>5 DEF OnRepaid, CappedPrincipal
<1> HIDE DEF l
<1>10. PoolTypeOK'
    <2>1. outstanding' \in Nat /\ earned' \in Nat /\ contributed' \in Int
        BY <1>1, <1>4, <1>5, <1>9
    <2>2. engineWired' \in BOOLEAN
        BY <1>2 DEF IInv, TypeOK, PoolTypeOK, OnRepaid
    <2> QED BY <2>1, <2>2, <1>8 DEF PoolTypeOK
<1>11. OutstandingMatchesLoans'
    BY <1>3, <1>9 DEF IInv, Books, OutstandingMatchesLoans
<1>12. PoolIsWhole'
    <2>1. stable[Pool] \in Nat
        BY <1>5, EngineIsNoAccount DEF Pool, Engine
    <2>2. stable[Pool] + outstanding = contributed + earned
        BY DEF IInv, Books, PoolIsWhole
    <2>3. stable'[Pool] + outstanding' = contributed' + earned'
        <3>1. l.principal \in Nat /\ l.fee \in Nat
            BY <1>1
        <3>2. outstanding \in Nat /\ earned \in Nat /\ contributed \in Int
            BY <1>5
        <3>3. stable'[Pool] = stable[Pool] + (l.principal + l.fee)
            BY <1>8
        <3> QED BY <2>1, <2>2, <3>1, <3>2, <3>3, <1>9
    <2> QED BY <2>3 DEF PoolIsWhole
<1>13. OracleTypeOK'
    BY <1>2 DEF IInv, TypeOK, OracleTypeOK, oracleVars
<1>14. ParamTypeOK'
    BY <1>2 DEF IInv, TypeOK, ParamTypeOK, listVars, paramVars
<1> QED
    BY <1>2, <1>3, <1>6, <1>7, <1>8, <1>9, <1>10, <1>11, <1>12, <1>13, <1>14 DEF l, Debt

(* A loan closed and its shares delivered to the borrower: repay, refund.  *)
LEMMA ExitKeepsBooks ==
    ASSUME IInv, NEW id \in LoanIds, NEW payer \in Accounts,
           NEW outcome \in Status, outcome # "Active", CloseLoan(id, payer, outcome),
           Deliver(shares, loans[id].stock, loans[id].borrower, loans[id].shares)
    PROVE  IInv'
<1> DEFINE l == loans[id]
<1>1. loans \in Seq(Loan) /\ id \in 1..Len(loans)
    BY DEF IInv, TypeOK, BookTypeOK, LoanIds
<1>2. l.stock \in Stocks /\ l.borrower \in Accounts /\ l.shares \in Nat
    BY <1>1, LoanFields
<1>3. shares \in Ledgers /\ claimable \in Claims
    BY DEF IInv, TypeOK, TokenTypeOK, BookTypeOK, Ledgers, Claims
<1>4. /\ shares' \in Ledgers /\ claimable' \in Claims
      /\ \A t \in Stocks :
            shares'[t][Engine] - SumTo(Deferred(claimable', t), NumAccounts)
              = shares[t][Engine] - SumTo(Deferred(claimable, t), NumAccounts)
                - (IF t = l.stock THEN l.shares ELSE 0)
    BY <1>2, <1>3, DeliverEffect
<1>5. /\ OracleTypeOK' /\ PoolTypeOK' /\ ParamTypeOK'
      /\ blocked' = blocked /\ skimming' = skimming /\ orderToLoan' = orderToLoan
      /\ loans' \in Seq(Loan) /\ Len(loans') = Len(loans)
      /\ lockedOf' \in [Stocks -> Nat]
      /\ \A s \in Stocks : lockedOf'[s] = lockedOf[s] - Holding(l, s)
      /\ LockedMatchesLoans' /\ OutstandingMatchesLoans' /\ PoolIsWhole'
    BY CloseEffect
<1>6. TypeOK'
    BY <1>4, <1>5 DEF IInv, TypeOK, TokenTypeOK, BookTypeOK, Ledgers, Claims
<1>7. CustodyIsExact'
    <2>1. \A t \in Stocks :
            /\ shares[t][Engine] \in Nat /\ shares'[t][Engine] \in Nat
            /\ lockedOf[t] \in Nat
            /\ SumTo(Deferred(claimable, t), NumAccounts) \in Nat
            /\ SumTo(Deferred(claimable', t), NumAccounts) \in Nat
        <3>1. \A t \in Stocks : shares[t][Engine] \in Nat /\ shares'[t][Engine] \in Nat
            BY <1>3, <1>4, EngineIsNoAccount DEF Ledgers
        <3>2. \A t \in Stocks : lockedOf[t] \in Nat
            BY DEF IInv, TypeOK, BookTypeOK
        <3> QED BY <3>1, <3>2, <1>3, <1>4, DeferredIsNatural
    <2>2. \A t \in Stocks :
            shares[t][Engine] = lockedOf[t] + SumTo(Deferred(claimable, t), NumAccounts)
        BY DEF IInv, Books, CustodyIsExact
    <2>3. \A t \in Stocks : lockedOf'[t] = lockedOf[t] - (IF t = l.stock THEN l.shares ELSE 0)
        BY <1>5 DEF Holding
    <2>4. \A t \in Stocks :
            shares'[t][Engine] = lockedOf'[t] + SumTo(Deferred(claimable', t), NumAccounts)
        BY <1>2, <1>4, <2>1, <2>2, <2>3
    <2> QED BY <2>4 DEF CustodyIsExact
<1> QED
    BY <1>5, <1>6, <1>7 DEF IInv, Books

-----------------------------------------------------------------------------
(* One step per action.                                                    *)

LEMMA OpenKeepsBooks ==
    ASSUME IInv,
           NEW b \in Borrowers, NEW s \in Stocks, NEW sh \in ShareAmounts, NEW m \in Merchants,
           NEW ref \in OrderRefs, NEW amount \in BorrowAmounts, NEW tenor \in Tenors,
           OpenLoan(b, s, sh, m, ref, amount, tenor)
    PROVE  IInv'
<1> DEFINE l == [borrower |-> b, merchant |-> m, stock |-> s, shares |-> sh,
                 principal |-> amount, fee |-> FeeFor(amount, tenor, fees),
                 openedAt |-> now, dueAt |-> now + tenor,
                 openPrice |-> print[s].usdPerShare,
                 openedWhileClosed |-> ~print[s].marketOpen, status |-> "Active"]
<1>1. /\ b \in Accounts /\ m \in Accounts
      /\ sh \in Nat /\ amount \in Nat /\ tenor \in Nat
    BY EngineAssumption
<1>2. /\ loans \in Seq(Loan) /\ lockedOf \in [Stocks -> Nat] /\ claimable \in Claims
      /\ orderToLoan \in [OrderKey -> Nat] /\ shares \in Ledgers
    BY DEF IInv, TypeOK, BookTypeOK, TokenTypeOK, Claims, Ledgers
<1>3. stable \in [Holders -> Nat] /\ outstanding \in Nat /\ earned \in Nat /\ contributed \in Int
    BY DEF IInv, TypeOK, PoolTypeOK
<1>4. l \in Loan /\ l.status = "Active" /\ l.stock = s /\ l.shares = sh /\ l.principal = amount
    <2>1. FeeFor(amount, tenor, fees) \in Nat
        BY <1>1, FeeIsNatural DEF IInv, TypeOK, ParamTypeOK
    <2>2. now \in Nat /\ print[s].usdPerShare \in Nat /\ now + tenor \in Nat
        BY <1>1 DEF IInv, TypeOK, OracleTypeOK, Price
    <2>3. (~print[s].marketOpen) \in BOOLEAN
        OBVIOUS
    <2> QED BY <2>1, <2>2, <2>3, <1>1 DEF Loan, Status
<1>5. /\ loans' = Append(loans, l)
      /\ orderToLoan' = [orderToLoan EXCEPT ![<<m, ref, b>>] = Len(loans) + 1]
      /\ lockedOf' = [lockedOf EXCEPT ![s] = @ + sh]
      /\ Transferable(shares, s, b, Engine, sh) /\ Arriving(s, sh) = sh
      /\ shares' = AfterTransfer(shares, s, b, Engine, sh)
      /\ Draw(m, amount)
      /\ UNCHANGED <<now, oracleVars, blocked, skimming, claimable, listVars, paramVars, sequencer>>
    BY DEF OpenLoan, ReceivedInFull
<1> HIDE DEF l
<1>6. /\ loans' \in Seq(Loan)
      /\ \A t \in Stocks :
            SumTo(ActiveShares(loans', t), Len(loans'))
              = SumTo(ActiveShares(loans, t), Len(loans)) + Holding(l, t)
      /\ SumTo(ActivePrincipal(loans'), Len(loans'))
              = SumTo(ActivePrincipal(loans), Len(loans)) + amount
    <2>1. loans' \in Seq(Loan)
        BY <1>2, <1>4, <1>5
    <2> QED BY <2>1, <1>2, <1>4, <1>5, TotalsAfterOpen
<1>7. /\ lockedOf' \in [Stocks -> Nat]
      /\ \A t \in Stocks : lockedOf'[t] = lockedOf[t] + Holding(l, t)
    BY <1>1, <1>2, <1>4, <1>5 DEF Holding
<1>8. /\ stable' \in [Holders -> Nat] /\ stable'[Pool] = stable[Pool] - amount
      /\ outstanding' = outstanding + amount /\ earned' = earned /\ contributed' = contributed
    <2>1. /\ PayStable(Pool, m, amount) /\ outstanding' = outstanding + amount
          /\ earned' = earned /\ contributed' = contributed
        BY <1>5 DEF Draw
    <2> QED BY <2>1, <1>1, <1>3, PaidOut
<1>9. /\ shares' \in Ledgers
      /\ \A t \in Stocks : shares'[t][Engine] = shares[t][Engine] + Holding(l, t)
    <2>1. sh <= shares[s][b]
        BY <1>5 DEF Transferable
    <2>2. b \in Holders /\ Engine \in Holders /\ b # Engine
        BY <1>1, EngineIsNoAccount
    <2>3. /\ shares' \in Ledgers
          /\ shares'[s][Engine] = shares[s][Engine] + sh
          /\ \A t \in Stocks : t # s => shares'[t][Engine] = shares[t][Engine]
        BY <1>1, <1>2, <1>5, <2>1, <2>2, TransferEffect
    <2>4. \A t \in Stocks : shares[t][Engine] \in Nat
        BY <1>2, <2>2 DEF Ledgers
    <2> QED BY <2>3, <2>4, <1>4 DEF Holding
<1>10. TypeOK'
    <2>1. OracleTypeOK' /\ ParamTypeOK'
        BY <1>5 DEF IInv, TypeOK, OracleTypeOK, ParamTypeOK, oracleVars, listVars, paramVars
    <2>2. PoolTypeOK'
        <3>1. outstanding' \in Nat /\ earned' \in Nat /\ contributed' \in Int
            BY <1>1, <1>3, <1>8
        <3>2. engineWired' \in BOOLEAN
            BY <1>5 DEF Draw, IInv, TypeOK, PoolTypeOK
        <3> QED BY <3>1, <3>2, <1>8 DEF PoolTypeOK
    <2>3. TokenTypeOK'
        BY <1>5, <1>9 DEF IInv, TypeOK, TokenTypeOK, Ledgers
    <2>4. orderToLoan' \in [OrderKey -> Nat]
        <3> DEFINE key == <<m, ref, b>>
                   n == Len(loans) + 1
        <3>1. n \in Nat /\ orderToLoan' = [orderToLoan EXCEPT ![key] = n]
            BY <1>2, <1>5
        <3> HIDE DEF key, n
        <3> QED BY <3>1, <1>2
    <2>5. BookTypeOK'
        BY <1>2, <1>5, <1>6, <1>7, <2>4 DEF BookTypeOK, Claims
    <2> QED BY <2>1, <2>2, <2>3, <2>5 DEF TypeOK
<1>11. LockedMatchesLoans'
    BY <1>6, <1>7 DEF IInv, Books, LockedMatchesLoans
<1>12. OutstandingMatchesLoans'
    BY <1>6, <1>8 DEF IInv, Books, OutstandingMatchesLoans
<1>13. PoolIsWhole'
    <2>1. stable[Pool] \in Nat
        BY <1>3, EngineIsNoAccount DEF Pool, Engine
    <2>2. stable[Pool] + outstanding = contributed + earned
        BY DEF IInv, Books, PoolIsWhole
    <2>3. stable'[Pool] + outstanding' = contributed' + earned'
        BY <2>1, <2>2, <1>1, <1>3, <1>8
    <2> QED BY <2>3 DEF PoolIsWhole
<1>14. CustodyIsExact'
    <2>1. \A t \in Stocks :
            shares[t][Engine] = lockedOf[t] + SumTo(Deferred(claimable, t), NumAccounts)
        BY DEF IInv, Books, CustodyIsExact
    <2>2. \A t \in Stocks :
            /\ lockedOf[t] \in Nat /\ Holding(l, t) \in Nat
            /\ SumTo(Deferred(claimable, t), NumAccounts) \in Nat
        <3>1. \A t \in Stocks : lockedOf[t] \in Nat /\ Holding(l, t) \in Nat
            BY <1>1, <1>2, <1>4 DEF Holding
        <3> QED BY <3>1, <1>2, DeferredIsNatural
    <2>3. claimable' = claimable
        BY <1>5
    <2>4. \A t \in Stocks :
            shares'[t][Engine] = lockedOf'[t] + SumTo(Deferred(claimable', t), NumAccounts)
        BY <2>1, <2>2, <2>3, <1>7, <1>9
    <2> QED BY <2>4 DEF CustodyIsExact
<1> QED
    BY <1>10, <1>11, <1>12, <1>13, <1>14 DEF IInv, Books

LEMMA RepayKeepsBooks ==
    ASSUME IInv, NEW id \in LoanIds, NEW a \in Accounts, Repay(a, id)
    PROVE  IInv'
<1>1. /\ CloseLoan(id, a, "Repaid")
      /\ Deliver(shares, loans[id].stock, loans[id].borrower, loans[id].shares)
    BY DEF Repay
<1>2. "Repaid" \in Status /\ "Repaid" # "Active"
    BY DEF Status
<1> QED
    BY <1>1, <1>2, ExitKeepsBooks

LEMMA RefundKeepsBooks ==
    ASSUME IInv, NEW id \in LoanIds, NEW a \in Accounts, Refund(a, id)
    PROVE  IInv'
<1>1. /\ CloseLoan(id, a, "Refunded")
      /\ Deliver(shares, loans[id].stock, loans[id].borrower, loans[id].shares)
    BY DEF Refund
<1>2. "Refunded" \in Status /\ "Refunded" # "Active"
    BY DEF Status
<1> QED
    BY <1>1, <1>2, ExitKeepsBooks

(* The seized shares leave custody for the liquidator; the rest is         *)
(* delivered to the borrower.  Together they are what the loan held.       *)
LEMMA LiquidateKeepsBooks ==
    ASSUME IInv, NEW id \in LoanIds, NEW a \in Liquidators, Liquidate(a, id)
    PROVE  IInv'
<1> DEFINE l        == loans[id]
           wanted   == SharesToSeize(Debt(l), print[l.stock].usdPerShare, risk)
           seized   == IF wanted >= l.shares THEN l.shares ELSE wanted
           ledger   == AfterTransfer(shares, l.stock, Engine, a, seized)
<1>1. /\ IsLiquidatable(id)
      /\ CloseLoan(id, a, "Liquidated")
      /\ Transferable(shares, l.stock, Engine, a, seized)
      /\ Deliver(ledger, l.stock, l.borrower, l.shares - seized)
    BY DEF Liquidate
<1>2. a \in Accounts /\ "Liquidated" \in Status /\ "Liquidated" # "Active"
    BY EngineAssumption DEF Status
<1>3. loans \in Seq(Loan) /\ id \in 1..Len(loans) /\ shares \in Ledgers /\ claimable \in Claims
    BY DEF IInv, TypeOK, BookTypeOK, TokenTypeOK, LoanIds, Ledgers, Claims
<1>4. /\ l.stock \in Stocks /\ l.borrower \in Accounts
      /\ l.shares \in Nat /\ l.principal \in Nat /\ l.fee \in Nat
    BY <1>3, LoanFields
<1>5. wanted \in Nat
    <2>1. print[l.stock].usdPerShare \in Positive
        BY <1>1, <1>4 DEF IsLiquidatable, Fresh, Priced, Positive, IInv, TypeOK, OracleTypeOK, Price
    <2>2. Debt(l) \in Nat
        BY <1>4 DEF Debt
    <2>3. risk \in RiskParams
        BY DEF IInv, TypeOK, ParamTypeOK
    <2> QED BY <2>1, <2>2, <2>3, SeizureIsBounded
<1> HIDE DEF wanted
<1>6. seized \in Nat /\ l.shares - seized \in Nat
    <2> HIDE DEF l
    <2> QED BY <1>4, <1>5
<1> HIDE DEF seized
<1>7. /\ ledger \in Ledgers
      /\ \A t \in Stocks :
            ledger[t][Engine] = shares[t][Engine] - (IF t = l.stock THEN seized ELSE 0)
    <2>1. seized <= shares[l.stock][Engine]
        BY <1>1 DEF Transferable
    <2>2. Engine \in Holders /\ a \in Holders /\ Engine # a
        BY <1>2, EngineIsNoAccount
    <2>3. /\ ledger \in Ledgers
          /\ ledger[l.stock][Engine] = shares[l.stock][Engine] - seized
          /\ \A t \in Stocks : t # l.stock => ledger[t][Engine] = shares[t][Engine]
        BY <1>3, <1>4, <1>6, <2>1, <2>2, TransferEffect
    <2>4. \A t \in Stocks : shares[t][Engine] \in Nat
        BY <1>3, <2>2 DEF Ledgers
    <2> QED BY <2>3, <2>4
<1>8. /\ shares' \in Ledgers /\ claimable' \in Claims
      /\ \A t \in Stocks :
            shares'[t][Engine] - SumTo(Deferred(claimable', t), NumAccounts)
              = ledger[t][Engine] - SumTo(Deferred(claimable, t), NumAccounts)
                - (IF t = l.stock THEN l.shares - seized ELSE 0)
    <2> HIDE DEF ledger, l
    <2> QED BY <1>1, <1>3, <1>4, <1>6, <1>7, DeliverEffect
<1>9. /\ OracleTypeOK' /\ PoolTypeOK' /\ ParamTypeOK'
      /\ blocked' = blocked /\ skimming' = skimming /\ orderToLoan' = orderToLoan
      /\ loans' \in Seq(Loan) /\ Len(loans') = Len(loans)
      /\ lockedOf' \in [Stocks -> Nat]
      /\ \A s \in Stocks : lockedOf'[s] = lockedOf[s] - Holding(l, s)
      /\ LockedMatchesLoans' /\ OutstandingMatchesLoans' /\ PoolIsWhole'
    BY <1>1, <1>2, CloseEffect
<1>10. TypeOK'
    BY <1>8, <1>9 DEF IInv, TypeOK, TokenTypeOK, BookTypeOK, Ledgers, Claims
<1>11. CustodyIsExact'
    <2>1. \A t \in Stocks :
            /\ shares[t][Engine] \in Nat /\ shares'[t][Engine] \in Nat
            /\ lockedOf[t] \in Nat
            /\ SumTo(Deferred(claimable, t), NumAccounts) \in Nat
            /\ SumTo(Deferred(claimable', t), NumAccounts) \in Nat
        <3>1. \A t \in Stocks : shares[t][Engine] \in Nat /\ shares'[t][Engine] \in Nat
            BY <1>3, <1>8, EngineIsNoAccount DEF Ledgers
        <3>2. \A t \in Stocks : lockedOf[t] \in Nat
            BY DEF IInv, TypeOK, BookTypeOK
        <3> QED BY <3>1, <3>2, <1>3, <1>8, DeferredIsNatural
    <2>2. \A t \in Stocks :
            shares[t][Engine] = lockedOf[t] + SumTo(Deferred(claimable, t), NumAccounts)
        BY DEF IInv, Books, CustodyIsExact
    <2>3. \A t \in Stocks : lockedOf'[t] = lockedOf[t] - (IF t = l.stock THEN l.shares ELSE 0)
        BY <1>9 DEF Holding
    <2> HIDE DEF l, ledger
    <2>4. \A t \in Stocks :
            shares'[t][Engine] = lockedOf'[t] + SumTo(Deferred(claimable', t), NumAccounts)
        <3>1. TAKE t \in Stocks
        <3>2. /\ shares'[t][Engine] \in Nat /\ shares[t][Engine] \in Nat /\ lockedOf[t] \in Nat
              /\ SumTo(Deferred(claimable, t), NumAccounts) \in Nat
              /\ SumTo(Deferred(claimable', t), NumAccounts) \in Nat
              /\ shares[t][Engine] = lockedOf[t] + SumTo(Deferred(claimable, t), NumAccounts)
            BY <2>1, <2>2
        <3>3. CASE t = l.stock
            <4>1. /\ ledger[t][Engine] = shares[t][Engine] - seized
                  /\ lockedOf'[t] = lockedOf[t] - l.shares
                  /\ shares'[t][Engine] - SumTo(Deferred(claimable', t), NumAccounts)
                        = ledger[t][Engine] - SumTo(Deferred(claimable, t), NumAccounts)
                          - (l.shares - seized)
                BY <3>3, <1>7, <1>8, <2>3
            <4>2. l.shares \in Nat /\ seized \in Nat
                BY <1>4, <1>6
            <4> QED BY <3>2, <4>1, <4>2
        <3>4. CASE t # l.stock
            BY <3>2, <3>4, <1>7, <1>8, <2>3
        <3> QED BY <3>3, <3>4
    <2> QED BY <2>4 DEF CustodyIsExact
<1> QED
    BY <1>9, <1>10, <1>11 DEF IInv, Books

(* A claim leaves custody for its owner and stops being owed.              *)
LEMMA ClaimKeepsBooks ==
    ASSUME IInv, NEW a \in Accounts, NEW s \in Stocks, Claim(a, s)
    PROVE  IInv'
<1> DEFINE amount == claimable[a][s]
<1>1. /\ Transferable(shares, s, Engine, a, amount)
      /\ shares' = AfterTransfer(shares, s, Engine, a, amount)
      /\ claimable' = WithClaim(claimable, a, s, 0)
      /\ UNCHANGED <<now, oracleVars, poolVars, blocked, skimming, loans, lockedOf, orderToLoan,
                     listVars, paramVars, sequencer>>
    BY DEF Claim, WithClaim
<1>2. shares \in Ledgers /\ claimable \in Claims /\ amount \in Nat
    BY DEF IInv, TypeOK, TokenTypeOK, BookTypeOK, Ledgers, Claims
<1>3. /\ claimable' \in Claims
      /\ \A t \in Stocks :
            /\ SumTo(Deferred(claimable, t), NumAccounts) \in Nat
            /\ SumTo(Deferred(claimable', t), NumAccounts)
                  = SumTo(Deferred(claimable, t), NumAccounts) + (IF t = s THEN 0 - amount ELSE 0)
    BY <1>1, <1>2, ClaimUpdate
<1> HIDE DEF amount
<1>4. /\ shares' \in Ledgers
      /\ \A t \in Stocks : shares'[t][Engine] = shares[t][Engine] - (IF t = s THEN amount ELSE 0)
    <2>1. amount <= shares[s][Engine]
        BY <1>1 DEF Transferable
    <2>2. Engine \in Holders /\ a \in Holders /\ Engine # a
        BY EngineIsNoAccount
    <2>3. /\ shares' \in Ledgers
          /\ shares'[s][Engine] = shares[s][Engine] - amount
          /\ \A t \in Stocks : t # s => shares'[t][Engine] = shares[t][Engine]
        BY <1>1, <1>2, <2>1, <2>2, TransferEffect
    <2>4. \A t \in Stocks : shares[t][Engine] \in Nat
        BY <1>2, <2>2 DEF Ledgers
    <2> QED BY <2>3, <2>4
<1>5. TypeOK'
    <2>1. TokenTypeOK' /\ BookTypeOK'
        BY <1>1, <1>3, <1>4 DEF IInv, TypeOK, TokenTypeOK, BookTypeOK, Ledgers, Claims
    <2>2. OracleTypeOK' /\ PoolTypeOK' /\ ParamTypeOK'
        BY <1>1 DEF IInv, TypeOK, OracleTypeOK, PoolTypeOK, ParamTypeOK,
                    oracleVars, poolVars, listVars, paramVars
    <2> QED BY <2>1, <2>2 DEF TypeOK
<1>6. LockedMatchesLoans' /\ OutstandingMatchesLoans' /\ PoolIsWhole'
    BY <1>1 DEF IInv, Books, LockedMatchesLoans, OutstandingMatchesLoans, PoolIsWhole, poolVars
<1>7. CustodyIsExact'
    <2>1. \A t \in Stocks :
            /\ shares[t][Engine] = lockedOf[t] + SumTo(Deferred(claimable, t), NumAccounts)
            /\ lockedOf[t] \in Nat
        BY DEF IInv, Books, CustodyIsExact, TypeOK, BookTypeOK
    <2>2. lockedOf' = lockedOf
        BY <1>1
    <2>3. \A t \in Stocks :
            shares'[t][Engine] = lockedOf'[t] + SumTo(Deferred(claimable', t), NumAccounts)
        BY <1>2, <1>3, <1>4, <2>1, <2>2
    <2> QED BY <2>3 DEF CustodyIsExact
<1> QED
    BY <1>5, <1>6, <1>7 DEF IInv, Books

(* Everything else leaves the book, the pool's cash and the ledger alone,  *)
(* or moves cash between the pool and its funders.                         *)
LEMMA QuietKeepsBooks ==
    ASSUME IInv, OracleTypeOK', ParamTypeOK', TokenTypeOK',
           UNCHANGED <<poolVars, shares, bookVars>>
    PROVE  IInv'
<1>1. PoolTypeOK' /\ BookTypeOK'
    BY DEF IInv, TypeOK, PoolTypeOK, BookTypeOK, poolVars, bookVars
<1>2. Books'
    BY DEF IInv, Books, LockedMatchesLoans, CustodyIsExact, OutstandingMatchesLoans,
           PoolIsWhole, poolVars, bookVars
<1> QED
    BY <1>1, <1>2 DEF IInv, TypeOK

LEMMA AdminKeepsBooks == ASSUME IInv, EngineAdmin PROVE IInv'
<1>1. UNCHANGED <<now, oracleVars, poolVars, tokenVars, bookVars, sequencer>>
    BY DEF EngineAdmin
<1>2. OracleTypeOK' /\ TokenTypeOK'
    BY <1>1 DEF IInv, TypeOK, OracleTypeOK, TokenTypeOK, oracleVars, tokenVars
<1>3. ParamTypeOK'
    <2>1. CASE \E s \in StockToggles, v \in BOOLEAN : SetAcceptedStock(s, v)
        BY <2>1, <1>1, EngineAssumption
           DEF SetAcceptedStock, IInv, TypeOK, ParamTypeOK, paramVars
    <2>2. CASE \E m \in MerchantToggles, v \in BOOLEAN : SetMerchant(m, v)
        BY <2>2, <1>1, EngineAssumption
           DEF SetMerchant, IInv, TypeOK, ParamTypeOK, paramVars
    <2>3. CASE \E v \in GateChoices : SetMerchantGate(v)
        BY <2>3, <1>1, EngineAssumption
           DEF SetMerchantGate, IInv, TypeOK, ParamTypeOK, paramVars
    <2>4. CASE \E new \in RiskChoices : SetRiskParams(new)
        BY <2>4, <1>1, EngineAssumption
           DEF SetRiskParams, IInv, TypeOK, ParamTypeOK, listVars
    <2>5. CASE \E new \in FeeChoices : SetFees(new)
        BY <2>5, <1>1, EngineAssumption
           DEF SetFees, IInv, TypeOK, ParamTypeOK, listVars
    <2>6. CASE \E v \in FeedChoices, grace \in GraceChoices : SetSequencerUptimeFeed(v, grace)
        BY <2>6, <1>1, EngineAssumption
           DEF SetSequencerUptimeFeed, IInv, TypeOK, ParamTypeOK, listVars
    <2> QED BY <2>1, <2>2, <2>3, <2>4, <2>5, <2>6 DEF EngineAdmin
<1> QED
    BY <1>1, <1>2, <1>3, QuietKeepsBooks DEF tokenVars

LEMMA SetOracleKeepsBooks == ASSUME IInv, NEW seeded \in OracleSwaps, SetOracle(seeded) PROVE IInv'
<1>1. /\ UNCHANGED <<now, poolVars, tokenVars, bookVars, listVars, paramVars, sequencer>>
      /\ print' = [s \in Stocks |-> IF s \in seeded THEN print[s] ELSE NoPrint]
      /\ maxAge' = DefaultMaxAge /\ maxAgeWhenClosed' = DefaultMaxAgeWhenClosed
      /\ maxDeviationBps' = 2000 /\ relayers' = {Owner}
    BY DEF SetOracle
<1>2. print' \in [Stocks -> Price]
    BY <1>1 DEF IInv, TypeOK, OracleTypeOK, NoPrint, Price
<1>3. OracleTypeOK'
    BY <1>1, <1>2, OracleAssumption DEF IInv, TypeOK, OracleTypeOK
<1>4. ParamTypeOK' /\ TokenTypeOK'
    BY <1>1 DEF IInv, TypeOK, ParamTypeOK, TokenTypeOK, listVars, paramVars, tokenVars
<1> QED
    BY <1>1, <1>3, <1>4, QuietKeepsBooks DEF tokenVars

LEMMA SequencerKeepsBooks == ASSUME IInv, NEW up \in BOOLEAN, SequencerStatus(up) PROVE IInv'
<1>1. /\ UNCHANGED <<now, oracleVars, poolVars, tokenVars, bookVars, listVars, paramVars>>
      /\ sequencer' = [up |-> up, startedAt |-> now]
    BY DEF SequencerStatus
<1>2. ParamTypeOK' /\ TokenTypeOK' /\ OracleTypeOK'
    BY <1>1 DEF IInv, TypeOK, ParamTypeOK, TokenTypeOK, OracleTypeOK,
                listVars, paramVars, tokenVars, oracleVars
<1> QED
    BY <1>1, <1>2, QuietKeepsBooks DEF tokenVars

LEMMA OracleKeepsBooks ==
    ASSUME IInv, OracleNext,
           UNCHANGED <<poolVars, tokenVars, bookVars, listVars, paramVars, sequencer>>
    PROVE  IInv'
<1>1. ASSUME NEW s \in Stocks, NEW usd \in Prices, NEW at \in 0..now, NEW open \in BOOLEAN,
             Store(s, usd, at, open)
      PROVE  OracleTypeOK'
    <2>1. usd \in Nat /\ at \in Nat
        BY OracleAssumption DEF IInv, TypeOK, OracleTypeOK
    <2> QED BY <1>1, <2>1 DEF Store, IInv, TypeOK, OracleTypeOK, Price
<1>2. OracleTypeOK'
    <2>1. CASE \E r \in Accounts, s \in Stocks, usd \in Prices, at \in 0..now, open \in BOOLEAN :
                  PostPrice(r, s, usd, at, open)
        BY <2>1, <1>1 DEF PostPrice
    <2>2. CASE \E s \in Stocks, usd \in Prices, at \in 0..now, open \in BOOLEAN :
                  PostPriceOverride(s, usd, at, open)
        BY <2>2, <1>1 DEF PostPriceOverride
    <2>3. CASE \E r \in RelayerChoices, allowed \in BOOLEAN : SetRelayer(r, allowed)
        BY <2>3, OracleAssumption DEF SetRelayer, IInv, TypeOK, OracleTypeOK
    <2>4. CASE \E bounds \in AgeChoices : SetMaxAge(bounds[1], bounds[2])
        BY <2>4, OracleAssumption DEF SetMaxAge, IInv, TypeOK, OracleTypeOK
    <2>5. CASE \E bps \in DeviationChoices : SetMaxDeviation(bps)
        BY <2>5, OracleAssumption DEF SetMaxDeviation, IInv, TypeOK, OracleTypeOK
    <2>6. CASE Tick
        BY <2>6 DEF Tick, IInv, TypeOK, OracleTypeOK, oracleVars
    <2> QED BY <2>1, <2>2, <2>3, <2>4, <2>5, <2>6 DEF OracleNext
<1>3. ParamTypeOK' /\ TokenTypeOK'
    BY DEF IInv, TypeOK, ParamTypeOK, TokenTypeOK, listVars, paramVars, tokenVars
<1> QED
    BY <1>2, <1>3, QuietKeepsBooks DEF tokenVars

LEMMA TokenKeepsBooks ==
    ASSUME IInv, TokenNext,
           UNCHANGED <<now, oracleVars, poolVars, bookVars, listVars, paramVars, sequencer>>
    PROVE  IInv'
<1>1. shares' = shares /\ TokenTypeOK'
    <2>1. CASE \E s \in Stocks, who \in Blockable, v \in BOOLEAN : SetBlocked(s, who, v)
        BY <2>1, TokenAssumption DEF SetBlocked, IInv, TypeOK, TokenTypeOK
    <2>2. CASE \E s \in SkimChoices, v \in BOOLEAN : SetSkimming(s, v)
        BY <2>2, TokenAssumption DEF SetSkimming, IInv, TypeOK, TokenTypeOK
    <2> QED BY <2>1, <2>2 DEF TokenNext
<1>2. OracleTypeOK' /\ ParamTypeOK'
    BY DEF IInv, TypeOK, OracleTypeOK, ParamTypeOK, oracleVars, listVars, paramVars
<1> QED
    BY <1>1, <1>2, QuietKeepsBooks

LEMMA PoolKeepsBooks ==
    ASSUME IInv, PoolNext,
           UNCHANGED <<now, oracleVars, tokenVars, bookVars, listVars, paramVars, sequencer>>
    PROVE  IInv'
<1>1. /\ stable \in [Holders -> Nat] /\ stable[Pool] \in Nat
      /\ outstanding \in Nat /\ earned \in Nat /\ contributed \in Int
    BY EngineIsNoAccount DEF IInv, TypeOK, PoolTypeOK, Pool, Engine
<1>2. stable[Pool] + outstanding = contributed + earned
    BY DEF IInv, Books, PoolIsWhole
<1>3. outstanding' = outstanding /\ PoolTypeOK' /\ PoolIsWhole'
    <2>1. ASSUME NEW a \in Funders, NEW amount \in FundAmounts, Fund(a, amount)
          PROVE  outstanding' = outstanding /\ PoolTypeOK' /\ PoolIsWhole'
        <3>1. a \in Accounts /\ amount \in Nat
            BY PoolAssumption
        <3>2. /\ PayStable(a, Pool, amount) /\ contributed' = contributed + amount
              /\ outstanding' = outstanding /\ earned' = earned
            BY <2>1 DEF Fund
        <3>3. stable' \in [Holders -> Nat] /\ stable'[Pool] = stable[Pool] + amount
            BY <1>1, <3>1, <3>2, PaidIn
        <3>4. contributed' \in Int /\ stable'[Pool] + outstanding' = contributed' + earned'
            BY <1>1, <1>2, <3>1, <3>2, <3>3
        <3>5. engineWired' \in BOOLEAN
            BY <2>1 DEF Fund, IInv, TypeOK, PoolTypeOK
        <3> QED BY <1>1, <3>2, <3>3, <3>4, <3>5 DEF PoolTypeOK, PoolIsWhole
    <2>2. ASSUME NEW a \in Funders, NEW amount \in FundAmounts, Withdraw(a, amount)
          PROVE  outstanding' = outstanding /\ PoolTypeOK' /\ PoolIsWhole'
        <3>1. a \in Accounts /\ amount \in Nat
            BY PoolAssumption
        <3>2. /\ PayStable(Pool, a, amount) /\ contributed' = contributed - amount
              /\ outstanding' = outstanding /\ earned' = earned
            BY <2>2 DEF Withdraw
        <3>3. stable' \in [Holders -> Nat] /\ stable'[Pool] = stable[Pool] - amount
            BY <1>1, <3>1, <3>2, PaidOut
        <3>4. contributed' \in Int /\ stable'[Pool] + outstanding' = contributed' + earned'
            BY <1>1, <1>2, <3>1, <3>2, <3>3
        <3>5. engineWired' \in BOOLEAN
            BY <2>2 DEF Withdraw, IInv, TypeOK, PoolTypeOK
        <3> QED BY <1>1, <3>2, <3>3, <3>4, <3>5 DEF PoolTypeOK, PoolIsWhole
    <2>3. ASSUME NEW wired \in EngineChoices, SetEngine(wired)
          PROVE  outstanding' = outstanding /\ PoolTypeOK' /\ PoolIsWhole'
        BY <2>3, PoolAssumption DEF SetEngine, IInv, TypeOK, PoolTypeOK, Books, PoolIsWhole
    <2> QED BY <2>1, <2>2, <2>3 DEF PoolNext
<1>4. OracleTypeOK' /\ ParamTypeOK' /\ TokenTypeOK' /\ BookTypeOK'
    BY DEF IInv, TypeOK, OracleTypeOK, ParamTypeOK, TokenTypeOK, BookTypeOK,
           oracleVars, listVars, paramVars, tokenVars, bookVars
<1>5. LockedMatchesLoans' /\ CustodyIsExact' /\ OutstandingMatchesLoans'
    BY <1>3 DEF IInv, Books, LockedMatchesLoans, CustodyIsExact, OutstandingMatchesLoans,
                tokenVars, bookVars
<1> QED
    BY <1>3, <1>4, <1>5 DEF IInv, TypeOK, Books

-----------------------------------------------------------------------------
(* The books balance at deployment, and every step keeps them balanced.    *)

LEMMA InitBalances == Init => IInv
<1> SUFFICES ASSUME Init PROVE IInv
    OBVIOUS
<1>1. OracleTypeOK
    BY OracleAssumption DEF Init, OracleInit, OracleTypeOK, NoPrint, Price
<1>2. PoolTypeOK
    <2>1. stable \in [Holders -> Nat]
        BY PoolAssumption DEF Init, PoolInit, Holders, Accounts, Pool, Contract
    <2>2. outstanding = 0 /\ earned = 0 /\ contributed = 0 /\ engineWired = TRUE
        BY DEF Init, PoolInit
    <2> QED BY <2>1, <2>2 DEF PoolTypeOK
<1>3. TokenTypeOK
    BY TokenAssumption DEF Init, TokenInit, TokenTypeOK, Holders, Accounts, Engine, Contract
<1>4. BookTypeOK
    BY DEF Init, BookTypeOK
<1>5. ParamTypeOK
    BY EngineAssumption DEF Init, ParamTypeOK
<1>6. loans = <<>> /\ Len(loans) = 0 /\ Len(loans) \in Nat /\ loans \in Seq(Loan)
    BY <1>4 DEF Init, BookTypeOK
<1>7. \A s \in Stocks : SumTo(ActiveShares(loans, s), Len(loans)) = 0
    <2>1. ASSUME NEW s \in Stocks PROVE SumTo(ActiveShares(loans, s), Len(loans)) = 0
        <3>1. ActiveShares(loans, s) \in [1..Len(loans) -> Int]
            <4>1. ActiveShares(loans, s) \in [1..Len(loans) -> Nat]
                BY <1>6, SummandTypes
            <4> QED BY <4>1
        <3>2. \A i \in 1..Len(loans) : ActiveShares(loans, s)[i] = 0
            BY <1>6
        <3> QED BY <1>6, <3>1, <3>2, SumOfZeros
    <2> QED BY <2>1
<1>8. SumTo(ActivePrincipal(loans), Len(loans)) = 0
    <2>1. ActivePrincipal(loans) \in [1..Len(loans) -> Int]
        <3>1. ActivePrincipal(loans) \in [1..Len(loans) -> Nat]
            BY <1>6, SummandTypes
        <3> QED BY <3>1
    <2>2. \A i \in 1..Len(loans) : ActivePrincipal(loans)[i] = 0
        BY <1>6
    <2> QED BY <1>6, <2>1, <2>2, SumOfZeros
<1>9. \A s \in Stocks : SumTo(Deferred(claimable, s), NumAccounts) = 0
    <2>1. ASSUME NEW s \in Stocks PROVE SumTo(Deferred(claimable, s), NumAccounts) = 0
        <3>1. Deferred(claimable, s) \in [1..NumAccounts -> Int]
            BY DEF Init, Deferred, Accounts
        <3>2. \A a \in 1..NumAccounts : Deferred(claimable, s)[a] = 0
            BY DEF Init, Deferred, Accounts
        <3> QED BY <3>1, <3>2, PartiesAssumption, SumOfZeros
    <2> QED BY <2>1
<1>10. LockedMatchesLoans
    BY <1>7 DEF Init, LockedMatchesLoans
<1>11. OutstandingMatchesLoans
    BY <1>8 DEF Init, PoolInit, OutstandingMatchesLoans
<1>12. PoolIsWhole
    BY EngineIsNoAccount DEF Init, PoolInit, PoolIsWhole, Pool, Engine
<1>13. CustodyIsExact
    <2>1. \A s \in Stocks : shares[s][Engine] = 0 /\ lockedOf[s] = 0
        BY EngineIsNoAccount DEF Init, TokenInit
    <2>2. \A s \in Stocks :
            shares[s][Engine] = lockedOf[s] + SumTo(Deferred(claimable, s), NumAccounts)
        <3>1. TAKE s \in Stocks
        <3> DEFINE owed == SumTo(Deferred(claimable, s), NumAccounts)
        <3>2. shares[s][Engine] = 0 /\ lockedOf[s] = 0 /\ owed = 0
            BY <2>1, <1>9
        <3> HIDE DEF owed
        <3>3. shares[s][Engine] = lockedOf[s] + owed
            BY <3>2
        <3> QED BY <3>3 DEF owed
    <2> QED BY <2>2 DEF CustodyIsExact
<1> QED
    BY <1>1, <1>2, <1>3, <1>4, <1>5, <1>10, <1>11, <1>12, <1>13 DEF IInv, TypeOK, Books

LEMMA NextBalances == IInv /\ [Next]_vars => IInv'
<1> SUFFICES ASSUME IInv, [Next]_vars PROVE IInv'
    OBVIOUS
<1>1. CASE Engaged
    <2>1. CASE \E b \in Borrowers, s \in Stocks, sh \in ShareAmounts, m \in Merchants,
                  ref \in OrderRefs, amount \in BorrowAmounts, tenor \in Tenors :
                  OpenLoan(b, s, sh, m, ref, amount, tenor)
        BY <2>1, OpenKeepsBooks
    <2>2. CASE \E id \in LoanIds, a \in Accounts : Repay(a, id) \/ Refund(a, id)
        BY <2>2, RepayKeepsBooks, RefundKeepsBooks
    <2>3. CASE \E id \in LoanIds, a \in Liquidators : Liquidate(a, id)
        BY <2>3, LiquidateKeepsBooks
    <2>4. CASE \E a \in Accounts, s \in Stocks : Claim(a, s)
        BY <2>4, ClaimKeepsBooks
    <2> QED BY <1>1, <2>1, <2>2, <2>3, <2>4 DEF Engaged
<1>2. CASE EngineAdmin
    BY <1>2, AdminKeepsBooks
<1>3. CASE \E seeded \in OracleSwaps : SetOracle(seeded)
    BY <1>3, SetOracleKeepsBooks
<1>4. CASE \E up \in BOOLEAN : SequencerStatus(up)
    BY <1>4, SequencerKeepsBooks
<1>5. CASE /\ OracleNext
           /\ UNCHANGED <<poolVars, tokenVars, bookVars, listVars, paramVars, sequencer>>
    BY <1>5, OracleKeepsBooks
<1>6. CASE /\ PoolNext
           /\ UNCHANGED <<now, oracleVars, tokenVars, bookVars, listVars, paramVars, sequencer>>
    BY <1>6, PoolKeepsBooks
<1>7. CASE /\ TokenNext
           /\ UNCHANGED <<now, oracleVars, poolVars, bookVars, listVars, paramVars, sequencer>>
    BY <1>7, TokenKeepsBooks
<1>8. CASE UNCHANGED vars
    <2>1. OracleTypeOK' /\ ParamTypeOK' /\ TokenTypeOK'
        BY <1>8 DEF vars, IInv, TypeOK, OracleTypeOK, ParamTypeOK, TokenTypeOK,
                    oracleVars, listVars, paramVars, tokenVars
    <2> QED BY <1>8, <2>1, QuietKeepsBooks DEF vars, tokenVars
<1> QED
    BY <1>1, <1>2, <1>3, <1>4, <1>5, <1>6, <1>7, <1>8 DEF Next

(* IInv is inductive, so it holds of every reachable state.                *)
THEOREM BooksBalance == Spec => []IInv
BY InitBalances, NextBalances, PTL DEF Spec

(* No balance, total or claim ever goes below zero, and the owner's        *)
(* parameters never leave the bounds their setters enforce.                *)
THEOREM TypeCorrect == Spec => []TypeOK
<1>1. IInv => TypeOK
    BY DEF IInv
<1> QED
    BY <1>1, BooksBalance, PTL

(* lockedOf is the sum of the shares of the active loans (D3).             *)
THEOREM LockedIsExact == Spec => []LockedMatchesLoans
<1>1. IInv => LockedMatchesLoans
    BY DEF IInv, Books
<1> QED
    BY <1>1, BooksBalance, PTL

(* The engine's shares are exactly what it has locked and what it owes: no *)
(* exit or claim can be paid with another borrower's shares.               *)
THEOREM CustodyIsAlwaysExact == Spec => []CustodyIsExact
<1>1. IInv => CustodyIsExact
    BY DEF IInv, Books
<1> QED
    BY <1>1, BooksBalance, PTL

(* The pool's outstanding is the principal of the active loans (D2), so    *)
(* the cap in onRepaid never hides a double booking.                       *)
THEOREM OutstandingIsExact == Spec => []OutstandingMatchesLoans
<1>1. IInv => OutstandingMatchesLoans
    BY DEF IInv, Books
<1> QED
    BY <1>1, BooksBalance, PTL

(* Cash plus outstanding principal is what was put in plus the fees.       *)
THEOREM PoolStaysWhole == Spec => []PoolIsWhole
<1>1. IInv => PoolIsWhole
    BY DEF IInv, Books
<1> QED
    BY <1>1, BooksBalance, PTL

(* Together: the engine's and the pool's running totals are always those   *)
(* of the loans on the book.                                               *)
THEOREM TotalsAlwaysMatch == Spec => []TotalsMatchLoans
<1>1. IInv => TotalsMatchLoans
    BY DEF IInv, Books, TotalsMatchLoans
<1> QED
    BY <1>1, BooksBalance, PTL

-----------------------------------------------------------------------------
(* Order keys and loans.                                                   *)

(* A step that changes neither the index nor who a loan is between.        *)
SameOrders ==
    /\ orderToLoan' = orderToLoan
    /\ Len(loans') = Len(loans)
    /\ \A i \in LoanIds : loans'[i].merchant = loans[i].merchant
                          /\ loans'[i].borrower = loans[i].borrower

LEMMA SameOrdersKeepIndex ==
    ASSUME OneLoanPerOrder, SameOrders PROVE OneLoanPerOrder'
BY DEF OneLoanPerOrder, SameOrders, LoanIds

LEMMA CloseKeepsOrders ==
    ASSUME TypeOK, NEW id \in LoanIds, NEW payer, NEW outcome, CloseLoan(id, payer, outcome)
    PROVE  SameOrders
<1>1. /\ loans' = [loans EXCEPT ![id].status = outcome]
      /\ orderToLoan' = orderToLoan
    BY DEF CloseLoan
<1>2. loans \in Seq(Loan) /\ \A i \in LoanIds : loans[i] \in Loan
    BY DEF TypeOK, BookTypeOK, LoanIds
<1>3. Len(loans') = Len(loans)
    BY <1>1, <1>2
<1>4. \A i \in LoanIds : loans'[i].merchant = loans[i].merchant
                         /\ loans'[i].borrower = loans[i].borrower
    <2>1. TAKE i \in LoanIds
    <2>2. loans[i] \in Loan
        BY <1>2
    <2>3. loans'[i] = IF i = id THEN [loans[i] EXCEPT !.status = outcome] ELSE loans[i]
        BY <1>1, <1>2 DEF LoanIds
    <2> QED BY <2>2, <2>3 DEF Loan
<1> QED
    BY <1>1, <1>3, <1>4 DEF SameOrders

LEMMA OpenKeepsIndex ==
    ASSUME TypeOK, OneLoanPerOrder,
           NEW b \in Borrowers, NEW s \in Stocks, NEW sh \in ShareAmounts, NEW m \in Merchants,
           NEW ref \in OrderRefs, NEW amount \in BorrowAmounts, NEW tenor \in Tenors,
           OpenLoan(b, s, sh, m, ref, amount, tenor)
    PROVE  OneLoanPerOrder'
<1> DEFINE n == Len(loans)
           key == <<m, ref, b>>
<1>1. key \in OrderKey /\ key[1] = m /\ key[3] = b
    BY DEF OrderKey
<1>2. loans \in Seq(Loan) /\ orderToLoan \in [OrderKey -> Nat] /\ n \in Nat
    BY DEF TypeOK, BookTypeOK
<1>3. PICK l : l.merchant = m /\ l.borrower = b /\ loans' = Append(loans, l)
    BY DEF OpenLoan
<1>4. orderToLoan[key] = 0 /\ orderToLoan' = [orderToLoan EXCEPT ![key] = n + 1]
    BY DEF OpenLoan, Unused
<1>5. Len(loans') = n + 1 /\ loans'[n+1] = l /\ \A i \in 1..n : loans'[i] = loans[i]
    BY <1>2, <1>3
<1> HIDE DEF key, n
<1>6. \A k \in OrderKey : orderToLoan'[k] = IF k = key THEN n + 1 ELSE orderToLoan[k]
    BY <1>1, <1>2, <1>4
<1>7. \A k \in OrderKey : orderToLoan[k] # 0 =>
        /\ orderToLoan[k] \in 1..n
        /\ loans[orderToLoan[k]].merchant = k[1] /\ loans[orderToLoan[k]].borrower = k[3]
    BY DEF OneLoanPerOrder, LoanIds, n
<1>8. \A k \in OrderKey : orderToLoan'[k] # 0 =>
        /\ orderToLoan'[k] \in 1..Len(loans')
        /\ loans'[orderToLoan'[k]].merchant = k[1] /\ loans'[orderToLoan'[k]].borrower = k[3]
    BY <1>1, <1>2, <1>3, <1>5, <1>6, <1>7
<1>9. \A id \in 1..Len(loans') : \E k \in OrderKey : orderToLoan'[k] = id
    <2>1. TAKE id \in 1..Len(loans')
    <2>2. CASE id = n + 1
        BY <2>2, <1>1, <1>6
    <2>3. CASE id \in 1..n
        <3>1. PICK k \in OrderKey : orderToLoan[k] = id
            BY <2>3 DEF OneLoanPerOrder, LoanIds, n
        <3>2. k # key
            BY <2>3, <3>1, <1>4
        <3> QED BY <3>1, <3>2, <1>6
    <2> QED BY <2>2, <2>3, <1>2, <1>5
<1>10. \A k1, k2 \in OrderKey :
        orderToLoan'[k1] = orderToLoan'[k2] /\ orderToLoan'[k1] # 0 => k1 = k2
    <2>1. \A k1, k2 \in OrderKey :
            orderToLoan[k1] = orderToLoan[k2] /\ orderToLoan[k1] # 0 => k1 = k2
        BY DEF OneLoanPerOrder
    <2>2. \A k \in OrderKey : orderToLoan[k] # n + 1
        BY <1>2, <1>7
    <2> QED BY <2>1, <2>2, <1>2, <1>6
<1> QED
    BY <1>8, <1>9, <1>10 DEF OneLoanPerOrder, LoanIds

LEMMA NextKeepsIndex == IInv /\ OneLoanPerOrder /\ [Next]_vars => OneLoanPerOrder'
<1> SUFFICES ASSUME IInv, OneLoanPerOrder, [Next]_vars PROVE OneLoanPerOrder'
    OBVIOUS
<1>1. TypeOK
    BY DEF IInv
<1>2. CASE \E b \in Borrowers, s \in Stocks, sh \in ShareAmounts, m \in Merchants,
              ref \in OrderRefs, amount \in BorrowAmounts, tenor \in Tenors :
              OpenLoan(b, s, sh, m, ref, amount, tenor)
    BY <1>1, <1>2, OpenKeepsIndex
<1>3. CASE \E id \in LoanIds, a \in Accounts : Repay(a, id) \/ Refund(a, id)
    BY <1>1, <1>3, CloseKeepsOrders, SameOrdersKeepIndex DEF Repay, Refund
<1>4. CASE \E id \in LoanIds, a \in Liquidators : Liquidate(a, id)
    BY <1>1, <1>4, CloseKeepsOrders, SameOrdersKeepIndex DEF Liquidate
<1>5. CASE UNCHANGED <<loans, orderToLoan>>
    BY <1>5, SameOrdersKeepIndex DEF SameOrders
<1>6. Next \/ UNCHANGED vars =>
        \/ Engaged \/ UNCHANGED <<loans, orderToLoan>>
    BY DEF Next, EngineAdmin, SetOracle, SequencerStatus, vars, bookVars
<1>7. (\E a \in Accounts, s \in Stocks : Claim(a, s)) => UNCHANGED <<loans, orderToLoan>>
    BY DEF Claim
<1> QED
    BY <1>2, <1>3, <1>4, <1>5, <1>6, <1>7 DEF Engaged

(* Order keys in use and loans correspond one to one, and a key's loan is  *)
(* between its own merchant and borrower.                                  *)
THEOREM OneLoanForEachOrder == Spec => []OneLoanPerOrder
<1>1. Init => OneLoanPerOrder
    BY DEF Init, OneLoanPerOrder, LoanIds
<1> QED
    BY <1>1, NextKeepsIndex, BooksBalance, PTL DEF Spec

-----------------------------------------------------------------------------
(* A new loan is safe at the print it was written at.                      *)

LEMMA OpenIsSafe ==
    ASSUME IInv,
           NEW b \in Borrowers, NEW s \in Stocks, NEW sh \in ShareAmounts, NEW m \in Merchants,
           NEW ref \in OrderRefs, NEW amount \in BorrowAmounts, NEW tenor \in Tenors,
           OpenLoan(b, s, sh, m, ref, amount, tenor),
           NEW id \in 1..Len(loans'), id \notin LoanIds
    PROVE  ~IsLiquidatable(id)'
<1> DEFINE l == [borrower |-> b, merchant |-> m, stock |-> s, shares |-> sh,
                 principal |-> amount, fee |-> FeeFor(amount, tenor, fees),
                 openedAt |-> now, dueAt |-> now + tenor,
                 openPrice |-> print[s].usdPerShare,
                 openedWhileClosed |-> ~print[s].marketOpen, status |-> "Active"]
           usd  == print[s].usdPerShare
           open == print[s].marketOpen
           debt == amount + FeeFor(amount, tenor, fees)
<1>1. sh \in Nat /\ amount \in Positive /\ tenor \in Nat
    BY EngineAssumption DEF OpenLoan, Positive
<1>2. /\ loans \in Seq(Loan) /\ risk \in RiskParams /\ ValidRisk(risk) /\ fees \in FeeParams
      /\ now \in Nat /\ usd \in Nat /\ open \in BOOLEAN
    BY DEF IInv, TypeOK, BookTypeOK, ParamTypeOK, OracleTypeOK, Price
<1>3. /\ loans' = Append(loans, l) /\ debt <= Allowed(sh, usd, open, risk)
      /\ now' = now /\ print' = print /\ risk' = risk
    BY DEF OpenLoan, WithinCeiling, oracleVars, paramVars
<1>4. loans'[id] = l
    <2> HIDE DEF l
    <2> QED BY <1>2, <1>3 DEF LoanIds
<1>5. /\ loans'[id].stock = s /\ loans'[id].shares = sh /\ loans'[id].dueAt = now + tenor
      /\ Debt(loans'[id]) = debt
    BY <1>4 DEF Debt
<1>6. debt \in Positive
    <2>1. FeeFor(amount, tenor, fees) \in Nat
        BY <1>1, <1>2, FeeIsNatural DEF Positive
    <2> QED BY <1>1, <2>1 DEF Positive
<1> HIDE DEF l, usd, open, debt
<1>7. HealthFactor(sh, usd, debt, risk) >= Wad
    BY <1>1, <1>2, <1>3, <1>6, WithinAllowedIsHealthy
<1>8. HealthFactor(sh, usd, debt, risk) \in Nat /\ Wad \in Nat
    BY <1>1, <1>2, <1>6, HealthIsNatural, ScaleAssumption DEF Positive
<1>9. Health(id)' \in {HealthFactor(sh, usd, debt, risk), Wad}
    BY <1>3, <1>5 DEF Health, Unassessable, usd
<1>10. ~(now' > loans'[id].dueAt) /\ ~(Health(id)' < Wad)
    BY <1>1, <1>2, <1>3, <1>5, <1>7, <1>8, <1>9
<1> QED
    BY <1>10 DEF IsLiquidatable, Overdue

(* Only openLoan adds a loan.                                              *)
LEMMA OnlyOpenAdds ==
    ASSUME IInv, [Next]_vars,
           ~ \E b \in Borrowers, s \in Stocks, sh \in ShareAmounts, m \in Merchants,
                ref \in OrderRefs, amount \in BorrowAmounts, tenor \in Tenors :
                OpenLoan(b, s, sh, m, ref, amount, tenor)
    PROVE  Len(loans') = Len(loans)
<1>1. ASSUME NEW id \in LoanIds, NEW payer, NEW outcome, CloseLoan(id, payer, outcome)
      PROVE  Len(loans') = Len(loans)
    BY <1>1, CloseKeepsOrders DEF IInv, SameOrders
<1>2. CASE \E id \in LoanIds, a \in Accounts : Repay(a, id) \/ Refund(a, id)
    BY <1>1, <1>2 DEF Repay, Refund
<1>3. CASE \E id \in LoanIds, a \in Liquidators : Liquidate(a, id)
    BY <1>1, <1>3 DEF Liquidate
<1>4. CASE \E a \in Accounts, s \in Stocks : Claim(a, s)
    BY <1>4 DEF Claim
<1>5. Engaged => Len(loans') = Len(loans)
    BY <1>2, <1>3, <1>4 DEF Engaged
<1>6. Next \/ UNCHANGED vars => Engaged \/ loans' = loans
    BY DEF Next, EngineAdmin, SetOracle, SequencerStatus, vars, bookVars
<1> QED
    BY <1>5, <1>6

(* A loan is never liquidatable the instant it opens.                      *)
THEOREM FreshLoansAreSafe == Spec => FreshLoanIsSafe
<1>1. IInv /\ [Next]_vars =>
        [\A id \in 1..Len(loans') : id \notin LoanIds => ~IsLiquidatable(id)']_vars
    <2> SUFFICES ASSUME IInv, [Next]_vars, NEW id \in 1..Len(loans'), id \notin LoanIds
                 PROVE  ~IsLiquidatable(id)'
        OBVIOUS
    <2>1. PICK b \in Borrowers, s \in Stocks, sh \in ShareAmounts, m \in Merchants,
               ref \in OrderRefs, amount \in BorrowAmounts, tenor \in Tenors :
               OpenLoan(b, s, sh, m, ref, amount, tenor)
        BY OnlyOpenAdds DEF LoanIds
    <2> QED BY <2>1, OpenIsSafe
<1> QED
    BY <1>1, BooksBalance, PTL DEF Spec, FreshLoanIsSafe

-----------------------------------------------------------------------------
(* What an exit returns, for a token that moves what it is asked to move.  *)

LEMMA NoSkimming == ASSUME SkimChoices = {} PROVE Spec => [](skimming = {})
<1>1. Init => skimming = {}
    BY DEF Init, TokenInit
<1>2. skimming = {} /\ [Next]_vars => (skimming = {})'
    <2> SUFFICES ASSUME skimming = {}, [Next]_vars PROVE skimming' = skimming
        OBVIOUS
    <2>1. Engaged => skimming' = skimming
        <3>1. ASSUME NEW b \in Borrowers, NEW s \in Stocks, NEW sh \in ShareAmounts,
                     NEW m \in Merchants, NEW ref \in OrderRefs,
                     NEW amount \in BorrowAmounts, NEW tenor \in Tenors,
                     OpenLoan(b, s, sh, m, ref, amount, tenor)
              PROVE  skimming' = skimming
            BY <3>1 DEF OpenLoan
        <3>2. ASSUME NEW id \in LoanIds, NEW payer, NEW outcome, CloseLoan(id, payer, outcome)
              PROVE  skimming' = skimming
            BY <3>2 DEF CloseLoan
        <3>3. (\E id \in LoanIds, a \in Accounts : Repay(a, id) \/ Refund(a, id))
                => skimming' = skimming
            BY <3>2 DEF Repay, Refund
        <3>4. (\E id \in LoanIds, a \in Liquidators : Liquidate(a, id)) => skimming' = skimming
            BY <3>2 DEF Liquidate
        <3>5. (\E a \in Accounts, s \in Stocks : Claim(a, s)) => skimming' = skimming
            BY DEF Claim
        <3> QED BY <3>1, <3>3, <3>4, <3>5 DEF Engaged
    <2>2. TokenNext => skimming' = skimming
        BY DEF TokenNext, SetBlocked
    <2>3. Next /\ ~Engaged /\ ~TokenNext => skimming' = skimming
        BY DEF Next, EngineAdmin, SetOracle, SequencerStatus, tokenVars
    <2> QED BY <2>1, <2>2, <2>3 DEF vars, tokenVars
<1> QED
    BY <1>1, <1>2, PTL DEF Spec

(* What is delivered reaches the recipient, in hand or as a claim.         *)
LEMMA DeliverGain ==
    ASSUME skimming = {}, NEW ledger \in Ledgers, claimable \in Claims, NEW s \in Stocks,
           NEW to \in Accounts, NEW amount \in Nat, Deliver(ledger, s, to, amount)
    PROVE  /\ shares'[s][to] \in Nat /\ claimable'[to][s] \in Nat
           /\ shares'[s][to] + claimable'[to][s] = ledger[s][to] + claimable[to][s] + amount
<1>1. ledger[s][to] \in Nat /\ claimable[to][s] \in Nat
    BY EngineIsNoAccount DEF Ledgers, Claims
<1>2. CASE Transferable(ledger, s, Engine, to, amount)
    <2>1. shares' = AfterTransfer(ledger, s, Engine, to, amount) /\ claimable' = claimable
        BY <1>2 DEF Deliver
    <2>2. amount <= ledger[s][Engine] /\ Arriving(s, amount) = amount
        BY <1>2 DEF Transferable, Arriving
    <2>3. shares'[s][to] = ledger[s][to] + amount
        BY <2>1, <2>2, EngineIsNoAccount, TransferEffect
    <2> QED BY <1>1, <2>1, <2>3
<1>3. CASE ~Transferable(ledger, s, Engine, to, amount)
    <2>1. shares' = ledger /\ claimable'[to][s] = claimable[to][s] + amount
        BY <1>3 DEF Deliver, Claims
    <2> QED BY <1>1, <2>1
<1> QED
    BY <1>2, <1>3

(* Only repay, refund and liquidate close a loan, each the one it names.   *)
LEMMA OnlyExitsClose ==
    ASSUME IInv, [Next]_vars, NEW id \in LoanIds, NEW outcome, outcome # "Active",
           Closes(id, outcome)
    PROVE  \/ outcome = "Repaid" /\ \E a \in Accounts : Repay(a, id)
           \/ outcome = "Refunded" /\ \E a \in Accounts : Refund(a, id)
           \/ outcome = "Liquidated" /\ \E a \in Liquidators : Liquidate(a, id)
<1>1. loans \in Seq(Loan) /\ id \in 1..Len(loans) /\ loans[id].status = "Active"
      /\ loans'[id].status = outcome /\ loans'[id] # loans[id]
    BY DEF IInv, TypeOK, BookTypeOK, LoanIds, Closes
<1>2. ASSUME NEW i \in LoanIds, NEW payer, NEW result, CloseLoan(i, payer, result)
      PROVE  i = id /\ outcome = result
    <2>1. loans' = [loans EXCEPT ![i].status = result]
        BY <1>2 DEF CloseLoan
    <2>2. i = id
        BY <1>1, <2>1
    <2>3. loans[id] \in Loan
        BY <1>1
    <2>4. loans'[id] = [loans[id] EXCEPT !.status = result]
        BY <1>1, <2>1, <2>2
    <2>5. loans'[id].status = result
        BY <2>3, <2>4 DEF Loan
    <2> QED BY <1>1, <2>2, <2>5
<1>3. ~ \E b \in Borrowers, s \in Stocks, sh \in ShareAmounts, m \in Merchants,
           ref \in OrderRefs, amount \in BorrowAmounts, tenor \in Tenors :
           OpenLoan(b, s, sh, m, ref, amount, tenor)
    <2> SUFFICES ASSUME NEW b \in Borrowers, NEW s \in Stocks, NEW sh \in ShareAmounts,
                        NEW m \in Merchants, NEW ref \in OrderRefs,
                        NEW amount \in BorrowAmounts, NEW tenor \in Tenors,
                        OpenLoan(b, s, sh, m, ref, amount, tenor)
                 PROVE  FALSE
        OBVIOUS
    <2>1. PICK l : loans' = Append(loans, l)
        BY DEF OpenLoan
    <2> QED BY <1>1, <2>1
<1>4. ~ \E a \in Accounts, s \in Stocks : Claim(a, s)
    BY <1>1 DEF Claim
<1>5. Next \/ UNCHANGED vars => Engaged \/ loans' = loans
    BY DEF Next, EngineAdmin, SetOracle, SequencerStatus, vars, bookVars
<1>6. Engaged
    BY <1>1, <1>5
<1>7. CASE \E i \in LoanIds, a \in Accounts : Repay(a, i) \/ Refund(a, i)
    <2>1. PICK i \in LoanIds, a \in Accounts : Repay(a, i) \/ Refund(a, i)
        BY <1>7
    <2>2. CASE Repay(a, i)
        BY <1>2, <2>2 DEF Repay
    <2>3. CASE Refund(a, i)
        BY <1>2, <2>3 DEF Refund
    <2> QED BY <2>1, <2>2, <2>3
<1>8. CASE \E i \in LoanIds, a \in Liquidators : Liquidate(a, i)
    <2>1. PICK i \in LoanIds, a \in Liquidators : Liquidate(a, i)
        BY <1>8
    <2>2. i = id /\ outcome = "Liquidated"
        BY <1>2, <2>1 DEF Liquidate
    <2> QED BY <2>1, <2>2
<1> QED
    BY <1>3, <1>4, <1>6, <1>7, <1>8 DEF Engaged

LEMMA ExitReturns ==
    ASSUME IInv, skimming = {}, NEW id \in LoanIds, NEW payer \in Accounts,
           NEW outcome \in Status, outcome # "Active", CloseLoan(id, payer, outcome),
           Deliver(shares, loans[id].stock, loans[id].borrower, loans[id].shares)
    PROVE  /\ Gain(loans[id]) = loans[id].shares
           /\ outstanding - outstanding' = loans[id].principal
           /\ earned' - earned = loans[id].fee
<1> DEFINE l == loans[id]
<1>1. /\ l.stock \in Stocks /\ l.borrower \in Accounts
      /\ l.shares \in Nat /\ l.principal \in Nat /\ l.fee \in Nat
    <2>1. loans \in Seq(Loan) /\ id \in 1..Len(loans)
        BY DEF IInv, TypeOK, BookTypeOK, LoanIds
    <2> QED BY <2>1, LoanFields
<1>2. shares \in Ledgers /\ claimable \in Claims /\ outstanding \in Nat /\ earned \in Nat
    BY DEF IInv, TypeOK, TokenTypeOK, BookTypeOK, PoolTypeOK, Ledgers, Claims
<1>3. outstanding' = outstanding - l.principal /\ earned' = earned + l.fee
    BY CloseEffect
<1>4. /\ shares'[l.stock][l.borrower] \in Nat /\ claimable'[l.borrower][l.stock] \in Nat
      /\ shares'[l.stock][l.borrower] + claimable'[l.borrower][l.stock]
            = shares[l.stock][l.borrower] + claimable[l.borrower][l.stock] + l.shares
    BY <1>1, <1>2, DeliverGain
<1>5. shares[l.stock][l.borrower] \in Nat /\ claimable[l.borrower][l.stock] \in Nat
    BY <1>1, <1>2, EngineIsNoAccount DEF Ledgers, Claims
<1> HIDE DEF l
<1>6. Gain(l) = l.shares
    BY <1>1, <1>4, <1>5 DEF Gain
<1>7. outstanding - outstanding' = l.principal /\ earned' - earned = l.fee
    BY <1>1, <1>2, <1>3
<1> QED
    BY <1>6, <1>7 DEF l

(* Repaying, or a merchant's refund, returns the collateral exactly, in    *)
(* hand or as a claim, and the pool books the whole principal and fee.     *)
THEOREM ExitsMakeWhole == ASSUME SkimChoices = {} PROVE Spec => ExitMakesWhole
<1>1. IInv /\ skimming = {} /\ [Next]_vars =>
        [\A id \in LoanIds : Closes(id, "Repaid") \/ Closes(id, "Refunded") =>
            LET l == loans[id]
            IN  /\ Gain(l) = l.shares
                /\ outstanding - outstanding' = l.principal
                /\ earned' - earned = l.fee]_vars
    <2> SUFFICES ASSUME IInv, skimming = {}, [Next]_vars, NEW id \in LoanIds,
                        Closes(id, "Repaid") \/ Closes(id, "Refunded")
                 PROVE  /\ Gain(loans[id]) = loans[id].shares
                        /\ outstanding - outstanding' = loans[id].principal
                        /\ earned' - earned = loans[id].fee
        OBVIOUS
    <2>1. PICK a \in Accounts : Repay(a, id) \/ Refund(a, id)
        BY OnlyExitsClose
    <2>2. PICK outcome \in {"Repaid", "Refunded"} :
            /\ CloseLoan(id, a, outcome)
            /\ Deliver(shares, loans[id].stock, loans[id].borrower, loans[id].shares)
        BY <2>1 DEF Repay, Refund
    <2>3. outcome \in Status /\ outcome # "Active"
        BY DEF Status
    <2> QED BY <2>2, <2>3, ExitReturns
<1> QED
    BY <1>1, BooksBalance, NoSkimming, PTL DEF Spec, ExitMakesWhole

-----------------------------------------------------------------------------
(* What a liquidation costs the borrower.                                  *)

LEMMA LiquidateIsBounded ==
    ASSUME IInv, skimming = {}, NEW id \in LoanIds, NEW a \in Liquidators, Liquidate(a, id)
    PROVE  /\ (loans[id].shares - Gain(loans[id]))
                * print[loans[id].stock].usdPerShare * StableUnit * Bps
                <= Debt(loans[id]) * (Bps + risk.liquidationBonusBps) * ShareUnit * PriceUnit
           /\ stable'[Pool] - stable[Pool] = Debt(loans[id])
<1> DEFINE l        == loans[id]
           usd      == print[l.stock].usdPerShare
           wanted   == SharesToSeize(Debt(l), usd, risk)
           seized   == IF wanted >= l.shares THEN l.shares ELSE wanted
           ledger   == AfterTransfer(shares, l.stock, Engine, a, seized)
           lost     == l.shares - Gain(l)
<1>1. /\ IsLiquidatable(id)
      /\ CloseLoan(id, a, "Liquidated")
      /\ Transferable(shares, l.stock, Engine, a, seized)
      /\ Deliver(ledger, l.stock, l.borrower, l.shares - seized)
    BY DEF Liquidate
<1>2. a \in Accounts /\ "Liquidated" \in Status /\ "Liquidated" # "Active"
    BY EngineAssumption DEF Status
<1>3. /\ loans \in Seq(Loan) /\ id \in 1..Len(loans) /\ shares \in Ledgers
      /\ claimable \in Claims /\ risk \in RiskParams
    BY DEF IInv, TypeOK, BookTypeOK, TokenTypeOK, ParamTypeOK, LoanIds, Ledgers, Claims
<1>4. /\ l.stock \in Stocks /\ l.borrower \in Accounts
      /\ l.shares \in Nat /\ l.principal \in Nat /\ l.fee \in Nat
    BY <1>3, LoanFields
<1>5. usd \in Positive
    BY <1>1, <1>4 DEF IsLiquidatable, Fresh, Priced, Positive, IInv, TypeOK, OracleTypeOK, Price
<1>6. Debt(l) \in Nat
    BY <1>4 DEF Debt
<1>7. stable'[Pool] = stable[Pool] + Debt(l)
    BY <1>1, <1>2, CloseEffect
<1>8. stable[Pool] \in Nat
    BY EngineIsNoAccount DEF IInv, TypeOK, PoolTypeOK, Pool, Engine
<1> HIDE DEF l, usd
<1>9. wanted \in Nat
    BY <1>3, <1>5, <1>6, SeizureIsBounded
<1> HIDE DEF wanted
<1>10. seized \in Nat /\ l.shares - seized \in Nat /\ seized <= wanted
    BY <1>4, <1>9
<1> HIDE DEF seized
<1>11. /\ ledger \in Ledgers
       /\ ledger[l.stock][l.borrower]
            = shares[l.stock][l.borrower] + (IF a = l.borrower THEN seized ELSE 0)
    <2>1. seized <= shares[l.stock][Engine] /\ Arriving(l.stock, seized) = seized
        BY <1>1 DEF Transferable, Arriving
    <2>2. /\ Engine \in Holders /\ a \in Holders /\ Engine # a
          /\ l.borrower \in Holders /\ l.borrower # Engine
        BY <1>2, <1>4, EngineIsNoAccount
    <2>3. /\ ledger \in Ledgers
          /\ ledger[l.stock][a] = shares[l.stock][a] + seized
          /\ l.borrower # a => ledger[l.stock][l.borrower] = shares[l.stock][l.borrower]
        BY <1>3, <1>4, <1>10, <2>1, <2>2, TransferEffect
    <2>4. shares[l.stock][l.borrower] \in Nat
        BY <1>3, <1>4, <2>2 DEF Ledgers
    <2> QED BY <2>3, <2>4
<1> HIDE DEF ledger
<1>12. /\ shares'[l.stock][l.borrower] \in Nat /\ claimable'[l.borrower][l.stock] \in Nat
       /\ shares'[l.stock][l.borrower] + claimable'[l.borrower][l.stock]
            = ledger[l.stock][l.borrower] + claimable[l.borrower][l.stock] + (l.shares - seized)
    BY <1>1, <1>3, <1>4, <1>10, <1>11, DeliverGain
<1>13. shares[l.stock][l.borrower] \in Nat /\ claimable[l.borrower][l.stock] \in Nat
    BY <1>3, <1>4, EngineIsNoAccount DEF Ledgers, Claims
<1>14. lost = IF a = l.borrower THEN 0 ELSE seized
    BY <1>4, <1>10, <1>11, <1>12, <1>13 DEF Gain
<1>15. lost \in Nat /\ lost <= wanted
    BY <1>9, <1>10, <1>14
<1> HIDE DEF lost
<1>16. lost * usd * StableUnit * Bps
            <= Debt(l) * (Bps + risk.liquidationBonusBps) * ShareUnit * PriceUnit
    BY <1>3, <1>5, <1>6, <1>15, SeizureWorth DEF wanted
<1>17. stable'[Pool] - stable[Pool] = Debt(l)
    BY <1>6, <1>7, <1>8
<1> QED
    BY <1>16, <1>17 DEF lost, usd, l

(* The shares that do not go back to the borrower are worth no more than   *)
(* debt plus bonus at the current print, and the pool receives the debt in *)
(* full, at every scale, print and parameter.                              *)
THEOREM SeizuresAreProportionate == ASSUME SkimChoices = {} PROVE Spec => SeizureIsProportionate
<1>1. IInv /\ skimming = {} /\ [Next]_vars =>
        [\A id \in LoanIds : Closes(id, "Liquidated") =>
            LET l    == loans[id]
                lost == l.shares - Gain(l)
            IN  /\ lost * print[l.stock].usdPerShare * StableUnit * Bps
                      <= Debt(l) * (Bps + risk.liquidationBonusBps) * ShareUnit * PriceUnit
                /\ stable'[Pool] - stable[Pool] = Debt(l)]_vars
    <2> SUFFICES ASSUME IInv, skimming = {}, [Next]_vars, NEW id \in LoanIds,
                        Closes(id, "Liquidated")
                 PROVE  /\ (loans[id].shares - Gain(loans[id]))
                             * print[loans[id].stock].usdPerShare * StableUnit * Bps
                             <= Debt(loans[id]) * (Bps + risk.liquidationBonusBps)
                                * ShareUnit * PriceUnit
                        /\ stable'[Pool] - stable[Pool] = Debt(loans[id])
        OBVIOUS
    <2>1. PICK a \in Liquidators : Liquidate(a, id)
        BY OnlyExitsClose
    <2> QED BY <2>1, LiquidateIsBounded
<1> QED
    BY <1>1, BooksBalance, NoSkimming, PTL DEF Spec, SeizureIsProportionate

-----------------------------------------------------------------------------
(* When a position may be taken.                                           *)

(* Every loan ever written is healthy at the print it was written at.      *)
SafeAtOpening(l) ==
    /\ Debt(l) \in Positive /\ l.openPrice \in Nat
    /\ HealthFactor(l.shares, l.openPrice, Debt(l), DefaultRisk) >= Wad

WrittenSafely == risk = DefaultRisk /\ \A id \in LoanIds : SafeAtOpening(loans[id])

LEMMA OpensSafely ==
    ASSUME IInv, WrittenSafely, NEW b \in Borrowers, NEW s \in Stocks, NEW sh \in ShareAmounts,
           NEW m \in Merchants, NEW ref \in OrderRefs, NEW amount \in BorrowAmounts,
           NEW tenor \in Tenors, OpenLoan(b, s, sh, m, ref, amount, tenor)
    PROVE  WrittenSafely'
<1> DEFINE l == [borrower |-> b, merchant |-> m, stock |-> s, shares |-> sh,
                 principal |-> amount, fee |-> FeeFor(amount, tenor, fees),
                 openedAt |-> now, dueAt |-> now + tenor,
                 openPrice |-> print[s].usdPerShare,
                 openedWhileClosed |-> ~print[s].marketOpen, status |-> "Active"]
           usd  == print[s].usdPerShare
           open == print[s].marketOpen
           debt == amount + FeeFor(amount, tenor, fees)
<1>1. sh \in Nat /\ amount \in Positive /\ tenor \in Nat
    BY EngineAssumption DEF OpenLoan, Positive
<1>2. /\ loans \in Seq(Loan) /\ risk \in RiskParams /\ ValidRisk(risk) /\ fees \in FeeParams
      /\ usd \in Nat /\ open \in BOOLEAN
    BY DEF IInv, TypeOK, BookTypeOK, ParamTypeOK, OracleTypeOK, Price
<1>3. /\ loans' = Append(loans, l) /\ debt <= Allowed(sh, usd, open, risk) /\ risk' = risk
    BY DEF OpenLoan, WithinCeiling, paramVars
<1>4. debt \in Positive
    <2>1. FeeFor(amount, tenor, fees) \in Nat
        BY <1>1, <1>2, FeeIsNatural DEF Positive
    <2> QED BY <1>1, <2>1 DEF Positive
<1>5. l.shares = sh /\ l.openPrice = usd /\ Debt(l) = debt
    BY DEF Debt
<1> HIDE DEF l, usd, open, debt
<1>6. HealthFactor(sh, usd, debt, risk) >= Wad
    BY <1>1, <1>2, <1>3, <1>4, WithinAllowedIsHealthy
<1>7. SafeAtOpening(l)
    BY <1>2, <1>4, <1>5, <1>6 DEF SafeAtOpening, WrittenSafely
<1>8. \A id \in 1..Len(loans') : loans'[id] = l \/ (id \in LoanIds /\ loans'[id] = loans[id])
    BY <1>2, <1>3 DEF LoanIds
<1> QED
    BY <1>3, <1>7, <1>8 DEF WrittenSafely, LoanIds

LEMMA CloseKeepsTerms ==
    ASSUME IInv, WrittenSafely, NEW id \in LoanIds, NEW payer, NEW outcome,
           CloseLoan(id, payer, outcome)
    PROVE  WrittenSafely'
<1>1. loans' = [loans EXCEPT ![id].status = outcome] /\ risk' = risk
    BY DEF CloseLoan, paramVars
<1>2. loans \in Seq(Loan) /\ \A i \in LoanIds : loans[i] \in Loan
    BY DEF IInv, TypeOK, BookTypeOK, LoanIds
<1>3. Len(loans') = Len(loans)
    BY <1>1, <1>2
<1>4. ASSUME NEW i \in LoanIds PROVE SafeAtOpening(loans'[i])
    <2>1. loans[i] \in Loan
        BY <1>2
    <2>2. loans'[i] = IF i = id THEN [loans[i] EXCEPT !.status = outcome] ELSE loans[i]
        BY <1>1, <1>2 DEF LoanIds
    <2>3. /\ loans'[i].shares = loans[i].shares /\ loans'[i].openPrice = loans[i].openPrice
          /\ Debt(loans'[i]) = Debt(loans[i])
        BY <2>1, <2>2 DEF Loan, Debt
    <2>4. SafeAtOpening(loans[i])
        BY DEF WrittenSafely
    <2> QED BY <2>3, <2>4 DEF SafeAtOpening
<1> QED
    BY <1>1, <1>3, <1>4 DEF WrittenSafely, LoanIds

LEMMA NextKeepsTerms ==
    ASSUME RiskChoices = {}, IInv, WrittenSafely, [Next]_vars
    PROVE  WrittenSafely'
<1>1. CASE \E b \in Borrowers, s \in Stocks, sh \in ShareAmounts, m \in Merchants,
              ref \in OrderRefs, amount \in BorrowAmounts, tenor \in Tenors :
              OpenLoan(b, s, sh, m, ref, amount, tenor)
    BY <1>1, OpensSafely
<1>2. CASE \E id \in LoanIds, a \in Accounts : Repay(a, id) \/ Refund(a, id)
    BY <1>2, CloseKeepsTerms DEF Repay, Refund
<1>3. CASE \E id \in LoanIds, a \in Liquidators : Liquidate(a, id)
    BY <1>3, CloseKeepsTerms DEF Liquidate
<1>4. CASE UNCHANGED <<loans, risk>>
    BY <1>4 DEF WrittenSafely, LoanIds
<1>5. (\E a \in Accounts, s \in Stocks : Claim(a, s)) => UNCHANGED <<loans, risk>>
    BY DEF Claim, paramVars
<1>6. EngineAdmin => UNCHANGED <<loans, risk>>
    BY DEF EngineAdmin, SetAcceptedStock, SetMerchant, SetMerchantGate, SetFees,
           SetSequencerUptimeFeed, bookVars, paramVars
<1>7. Next \/ UNCHANGED vars => Engaged \/ EngineAdmin \/ UNCHANGED <<loans, risk>>
    BY DEF Next, SetOracle, SequencerStatus, vars, bookVars, paramVars
<1> QED
    BY <1>1, <1>2, <1>3, <1>4, <1>5, <1>6, <1>7 DEF Engaged

LEMMA WrittenSafelyAlways == ASSUME RiskChoices = {} PROVE Spec => [](IInv /\ WrittenSafely)
<1>1. Init => WrittenSafely
    BY DEF Init, WrittenSafely, LoanIds
<1>2. IInv /\ WrittenSafely /\ [Next]_vars => WrittenSafely'
    BY NextKeepsTerms
<1> QED
    BY <1>1, <1>2, BooksBalance, PTL DEF Spec

(* Before its due date a position is taken only after the mark has fallen  *)
(* below the print the loan was written against, as long as the owner      *)
(* leaves the risk parameters alone: the haircut, every floor and a        *)
(* replaced oracle change nothing in that.                                 *)
THEOREM EarlySeizuresNeedAFall ==
    ASSUME RiskChoices = {} PROVE Spec => SeizedEarlyOnlyOnAFall
<1>1. IInv /\ WrittenSafely /\ [Next]_vars =>
        [\A id \in LoanIds : Closes(id, "Liquidated") /\ now <= loans[id].dueAt =>
            print[loans[id].stock].usdPerShare < loans[id].openPrice]_vars
    <2> SUFFICES ASSUME IInv, WrittenSafely, [Next]_vars, NEW id \in LoanIds,
                        Closes(id, "Liquidated"), now <= loans[id].dueAt
                 PROVE  print[loans[id].stock].usdPerShare < loans[id].openPrice
        OBVIOUS
    <2> DEFINE l == loans[id]
               usd == print[l.stock].usdPerShare
               debt == Debt(l)
    <2>1. PICK a \in Liquidators : Liquidate(a, id)
        BY OnlyExitsClose
    <2>2. l \in Loan /\ l.stock \in Stocks /\ l.shares \in Nat
        BY LoanFields DEF IInv, TypeOK, BookTypeOK, LoanIds
    <2>3. /\ now \in Nat /\ l.dueAt \in Nat /\ usd \in Nat /\ risk \in RiskParams
        <3>1. print[l.stock] \in Price
            BY <2>2 DEF IInv, TypeOK, OracleTypeOK
        <3> QED BY <2>2, <3>1 DEF Price, Loan, IInv, TypeOK, OracleTypeOK, ParamTypeOK
    <2>4. debt \in Positive /\ l.openPrice \in Nat
          /\ HealthFactor(l.shares, l.openPrice, debt, risk) >= Wad
        BY DEF WrittenSafely, SafeAtOpening
    <2>5. HealthFactor(l.shares, usd, debt, risk) < Wad
        <3>1. Fresh(l.stock) /\ (Overdue(l) \/ Health(id) < Wad)
            BY <2>1 DEF Liquidate, IsLiquidatable
        <3>2. ~Overdue(l)
            BY <2>3 DEF Overdue
        <3> QED BY <3>1, <3>2 DEF Health
    <2> HIDE DEF l, usd, debt
    <2>6. ASSUME l.openPrice <= usd PROVE FALSE
        <3> DEFINE h == HealthFactor(l.shares, l.openPrice, debt, risk)
                   k == HealthFactor(l.shares, usd, debt, risk)
        <3>1. h <= k /\ h \in Nat /\ k \in Nat /\ Wad \in Nat
            BY <2>2, <2>3, <2>4, <2>6, HealthClimbs, HealthIsNatural, ScaleAssumption DEF Positive
        <3>2. h >= Wad /\ k < Wad
            BY <2>4, <2>5
        <3> HIDE DEF h, k
        <3> QED BY <3>1, <3>2
    <2> QED BY <2>3, <2>4, <2>6 DEF l, usd
<1> QED
    BY <1>1, WrittenSafelyAlways, PTL DEF Spec, SeizedEarlyOnlyOnAFall


-----------------------------------------------------------------------------
(* One post by a relayer.                                                  *)

(* The owner may set anything that leaves at least the room the contract is*)
(* deployed with: a ceiling of 35 % or less, a threshold of 50 % or more,  *)
(* a breaker of 20 % or less.                                              *)
LeavesRoom(r) == r.maxLtvBps <= 3500 /\ r.liquidationThresholdBps >= 5000

RoomIsLeft ==
    /\ LeavesRoom(DefaultRisk) /\ \A r \in RiskChoices : LeavesRoom(r)
    /\ \A bps \in DeviationChoices : bps <= 2000

(* Every loan was written within 35 % of its collateral at its own print.  *)
Within35(debt, sh, usd) == Bps * debt <= 3500 * CollateralValueOf(sh, usd)
WithinRoom(l) ==
    /\ Debt(l) \in Positive /\ l.openPrice \in Nat
    /\ Within35(Debt(l), l.shares, l.openPrice)

(* More than 79.99 % of a print: as far as a breaker of 20 % lets one fall. *)
OneMoveFrom(prev, usd) == 7999 * prev <= 10000 * usd

RoomInv ==
    /\ LeavesRoom(risk) /\ maxDeviationBps <= 2000
    /\ \A id \in LoanIds : WithinRoom(loans[id])

SameTerms(l, m) ==
    /\ l.stock = m.stock /\ l.shares = m.shares
    /\ l.openPrice = m.openPrice /\ Debt(l) = Debt(m)

LEMMA LoansChange ==
    ASSUME [Next]_vars
    PROVE  \/ \E b \in Borrowers, s \in Stocks, sh \in ShareAmounts, m \in Merchants,
                 ref \in OrderRefs, amount \in BorrowAmounts, tenor \in Tenors :
                 OpenLoan(b, s, sh, m, ref, amount, tenor)
           \/ \E id \in LoanIds, a \in Accounts, outcome \in Status : CloseLoan(id, a, outcome)
           \/ loans' = loans
<1>1. CASE \E id \in LoanIds, a \in Accounts : Repay(a, id) \/ Refund(a, id)
    BY <1>1 DEF Repay, Refund, Status
<1>2. CASE \E id \in LoanIds, a \in Liquidators : Liquidate(a, id)
    <2>1. Liquidators \subseteq Accounts /\ "Liquidated" \in Status
        BY EngineAssumption DEF Status
    <2> QED BY <1>2, <2>1 DEF Liquidate
<1>3. CASE \E a \in Accounts, s \in Stocks : Claim(a, s)
    BY <1>3 DEF Claim
<1>4. EngineAdmin => loans' = loans
    BY DEF EngineAdmin, bookVars
<1>5. Next \/ UNCHANGED vars => Engaged \/ EngineAdmin \/ loans' = loans
    BY DEF Next, SetOracle, SequencerStatus, vars, bookVars
<1> QED
    BY <1>1, <1>2, <1>3, <1>4, <1>5 DEF Engaged

(* The product's own steps leave the owner's parameters and the oracle.    *)
LEMMA EngagedLeavesParameters ==
    ASSUME Engaged PROVE risk' = risk /\ maxDeviationBps' = maxDeviationBps
<1>1. ASSUME NEW id, NEW a, NEW outcome, CloseLoan(id, a, outcome)
      PROVE  UNCHANGED <<oracleVars, paramVars>>
    BY <1>1 DEF CloseLoan
<1>2. CASE \E id \in LoanIds, a \in Accounts : Repay(a, id) \/ Refund(a, id)
    <2>1. UNCHANGED <<oracleVars, paramVars>>
        BY <1>1, <1>2 DEF Repay, Refund
    <2> QED BY <2>1 DEF oracleVars, paramVars
<1>3. CASE \E id \in LoanIds, a \in Liquidators : Liquidate(a, id)
    <2>1. UNCHANGED <<oracleVars, paramVars>>
        BY <1>1, <1>3 DEF Liquidate
    <2> QED BY <2>1 DEF oracleVars, paramVars
<1>4. CASE \E b \in Borrowers, s \in Stocks, sh \in ShareAmounts, m \in Merchants,
              ref \in OrderRefs, amount \in BorrowAmounts, tenor \in Tenors :
              OpenLoan(b, s, sh, m, ref, amount, tenor)
    <2>1. UNCHANGED <<oracleVars, paramVars>>
        BY <1>4 DEF OpenLoan
    <2> QED BY <2>1 DEF oracleVars, paramVars
<1>5. CASE \E a \in Accounts, s \in Stocks : Claim(a, s)
    <2>1. UNCHANGED <<oracleVars, paramVars>>
        BY <1>5 DEF Claim
    <2> QED BY <2>1 DEF oracleVars, paramVars
<1> QED
    BY <1>2, <1>3, <1>4, <1>5 DEF Engaged

LEMMA TermsStay ==
    ASSUME IInv, [Next]_vars, NEW id \in LoanIds
    PROVE  id \in LoanIds' /\ SameTerms(loans'[id], loans[id])
<1>1. loans \in Seq(Loan) /\ loans[id] \in Loan
    BY DEF IInv, TypeOK, BookTypeOK, LoanIds
<1>2. CASE \E l : loans' = Append(loans, l)
    <2>1. PICK l : loans' = Append(loans, l)
        BY <1>2
    <2>2. loans'[id] = loans[id] /\ Len(loans') = Len(loans) + 1
        BY <1>1, <2>1 DEF LoanIds
    <2> QED BY <2>2, <1>1 DEF SameTerms, LoanIds
<1>3. CASE \E i \in LoanIds, a \in Accounts, outcome \in Status : CloseLoan(i, a, outcome)
    <2>1. PICK i \in LoanIds, outcome \in Status : loans' = [loans EXCEPT ![i].status = outcome]
        BY <1>3 DEF CloseLoan
    <2>2. Len(loans') = Len(loans)
        BY <1>1, <2>1
    <2>3. loans'[id] = IF id = i THEN [loans[id] EXCEPT !.status = outcome] ELSE loans[id]
        BY <1>1, <2>1 DEF LoanIds
    <2>4. SameTerms(loans'[id], loans[id])
        BY <1>1, <2>3 DEF SameTerms, Debt, Loan
    <2> QED BY <2>2, <2>4 DEF LoanIds
<1>4. CASE loans' = loans
    BY <1>4 DEF SameTerms, LoanIds
<1>5. (\E b \in Borrowers, s \in Stocks, sh \in ShareAmounts, m \in Merchants,
          ref \in OrderRefs, amount \in BorrowAmounts, tenor \in Tenors :
          OpenLoan(b, s, sh, m, ref, amount, tenor)) => \E l : loans' = Append(loans, l)
    BY DEF OpenLoan
<1> QED
    BY <1>2, <1>3, <1>4, <1>5, LoansChange

(* A ceiling of 35 % or less, whatever the haircut, in a single product.   *)
LEMMA AllowedLeavesRoom ==
    ASSUME NEW r \in RiskParams, ValidRisk(r), LeavesRoom(r), NEW open \in BOOLEAN,
           NEW sh \in Nat, NEW usd \in Nat, NEW debt \in Nat, debt <= Allowed(sh, usd, open, r)
    PROVE  Within35(debt, sh, usd)
<1> DEFINE v == CollateralValueOf(sh, usd)
           e == EffectiveLtvBps(r, open)
<1>1. v \in Nat
    BY CollateralIsNatural
<1>2. e \in Nat /\ e <= 3500
    <2>1. /\ r.maxLtvBps \in Nat /\ r.maxLtvBps <= 3500
          /\ Bps - r.closedMarketHaircutBps \in Nat /\ Bps - r.closedMarketHaircutBps <= Bps
        BY DEF RiskParams, ValidRisk, LeavesRoom, Bps
    <2> DEFINE cut == Bps - r.closedMarketHaircutBps
               q   == (r.maxLtvBps * cut) \div Bps
    <2>2. r.maxLtvBps * cut <= r.maxLtvBps * Bps /\ r.maxLtvBps * cut \in Nat
        <3>1. cut \in Nat /\ Bps \in Nat /\ cut <= Bps
            BY <2>1 DEF Bps
        <3> HIDE DEF cut
        <3>2. cut * r.maxLtvBps <= Bps * r.maxLtvBps
            BY <2>1, <3>1, ProductIsMonotone
        <3> QED BY <2>1, <3>1, <3>2
    <2>3. q \in Nat /\ Bps * q <= r.maxLtvBps * cut
        BY <2>2, BpsIsPositive, QuotientIsNatural, QuotientBounds
    <2>4. q <= r.maxLtvBps
        <3> HIDE DEF q, cut
        <3> QED BY <2>1, <2>2, <2>3 DEF Bps
    <2> QED BY <2>1, <2>3, <2>4 DEF EffectiveLtvBps
<1>3. v * e <= v * 3500 /\ v * e \in Nat
    <2> HIDE DEF v, e
    <2>1. e * v <= 3500 * v
        BY <1>1, <1>2, ProductIsMonotone
    <2> QED BY <1>1, <1>2, <2>1
<1>4. (v * e) \div Bps \in Nat /\ Bps * ((v * e) \div Bps) <= v * e
    BY <1>3, BpsIsPositive, QuotientIsNatural, QuotientBounds
<1>5. debt <= (v * e) \div Bps
    BY DEF Allowed
<1> DEFINE w == v * e
           q == w \div Bps
<1>6. w <= v * 3500 /\ w \in Nat /\ q \in Nat /\ Bps * q <= w /\ debt <= q
    BY <1>3, <1>4, <1>5
<1> HIDE DEF v, w, q
<1>7. Bps * debt <= 3500 * v
    BY <1>1, <1>6 DEF Bps
<1> QED BY <1>7 DEF v, Within35

LEMMA RoomInductive ==
    ASSUME RoomIsLeft, IInv, RoomInv, [Next]_vars
    PROVE  RoomInv'
<1>1. LeavesRoom(risk')
    <2>1. EngineAdmin => risk' = risk \/ risk' \in RiskChoices
        BY DEF EngineAdmin, SetAcceptedStock, SetMerchant, SetMerchantGate, SetRiskParams,
               SetFees, SetSequencerUptimeFeed, paramVars
    <2>2. Engaged => risk' = risk
        BY EngagedLeavesParameters
    <2>3. Next \/ UNCHANGED vars => Engaged \/ EngineAdmin \/ risk' = risk
        BY DEF Next, SetOracle, SequencerStatus, vars, paramVars
    <2> QED BY <2>1, <2>2, <2>3 DEF RoomIsLeft, RoomInv
<1>2. maxDeviationBps' <= 2000
    <2>1. OracleNext => maxDeviationBps' = maxDeviationBps \/ maxDeviationBps' \in DeviationChoices
        BY DEF OracleNext, PostPrice, PostPriceOverride, Store, SetRelayer, SetMaxAge,
               SetMaxDeviation, Tick, oracleVars
    <2>2. Engaged => maxDeviationBps' = maxDeviationBps
        BY EngagedLeavesParameters
    <2>3. (\E seeded \in OracleSwaps : SetOracle(seeded)) => maxDeviationBps' = 2000
        BY DEF SetOracle
    <2>4. EngineAdmin => maxDeviationBps' = maxDeviationBps
        BY DEF EngineAdmin, oracleVars
    <2>5. \/ maxDeviationBps' = maxDeviationBps \/ maxDeviationBps' \in DeviationChoices
          \/ maxDeviationBps' = 2000
        BY <2>1, <2>2, <2>3, <2>4 DEF Next, SequencerStatus, vars, oracleVars
    <2> QED BY <2>5 DEF RoomIsLeft, RoomInv
<1>3. ASSUME NEW id \in LoanIds PROVE WithinRoom(loans'[id])
    BY TermsStay DEF SameTerms, WithinRoom, RoomInv
<1>4. ASSUME NEW id \in LoanIds', id \notin LoanIds PROVE WithinRoom(loans'[id])
    <2>1. loans \in Seq(Loan)
        BY DEF IInv, TypeOK, BookTypeOK
    <2>2. PICK b \in Borrowers, s \in Stocks, sh \in ShareAmounts, m \in Merchants,
               ref \in OrderRefs, amount \in BorrowAmounts, tenor \in Tenors :
               OpenLoan(b, s, sh, m, ref, amount, tenor)
        <3>1. loans' # loans
            BY <1>4 DEF LoanIds
        <3>2. ~ \E i \in LoanIds, a \in Accounts, outcome \in Status : CloseLoan(i, a, outcome)
            BY <1>4, <2>1 DEF CloseLoan, LoanIds
        <3> QED BY <3>1, <3>2, LoansChange
    <2> DEFINE l == [borrower |-> b, merchant |-> m, stock |-> s, shares |-> sh,
                     principal |-> amount, fee |-> FeeFor(amount, tenor, fees),
                     openedAt |-> now, dueAt |-> now + tenor,
                     openPrice |-> print[s].usdPerShare,
                     openedWhileClosed |-> ~print[s].marketOpen, status |-> "Active"]
               usd  == print[s].usdPerShare
               open == print[s].marketOpen
               debt == amount + FeeFor(amount, tenor, fees)
    <2>3. sh \in Nat /\ amount \in Positive /\ tenor \in Nat
        BY <2>2, EngineAssumption DEF OpenLoan, Positive
    <2>4. /\ risk \in RiskParams /\ ValidRisk(risk) /\ fees \in FeeParams
          /\ usd \in Nat /\ open \in BOOLEAN
        BY DEF IInv, TypeOK, ParamTypeOK, OracleTypeOK, Price
    <2>5. loans' = Append(loans, l) /\ debt <= Allowed(sh, usd, open, risk)
        BY <2>2 DEF OpenLoan, WithinCeiling
    <2>6. debt \in Positive
        <3>1. FeeFor(amount, tenor, fees) \in Nat
            BY <2>3, <2>4, FeeIsNatural DEF Positive
        <3> QED BY <2>3, <3>1 DEF Positive
    <2>7. l.shares = sh /\ l.openPrice = usd /\ Debt(l) = debt
        BY DEF Debt
    <2> HIDE DEF l, usd, open, debt
    <2>8. Within35(debt, sh, usd)
        BY <2>3, <2>4, <2>5, <2>6, AllowedLeavesRoom DEF RoomInv, Positive
    <2>9. WithinRoom(l)
        BY <2>4, <2>6, <2>7, <2>8 DEF WithinRoom
    <2>10. loans'[id] = l
        BY <1>4, <2>1, <2>5 DEF LoanIds
    <2> QED BY <2>9, <2>10
<1> QED
    BY <1>1, <1>2, <1>3, <1>4 DEF RoomInv

LEMMA RoomAlways == ASSUME RoomIsLeft PROVE Spec => [](IInv /\ RoomInv)
<1>1. Init => RoomInv
    BY DEF Init, OracleInit, RoomInv, RoomIsLeft, LoanIds
<1>2. IInv /\ RoomInv /\ [Next]_vars => RoomInv'
    BY RoomInductive
<1> QED
    BY <1>1, <1>2, BooksBalance, PTL DEF Spec

(* The two floors of a valuation lose less than one unit between them.     *)
LEMMA CollateralBounds ==
    ASSUME NEW sh \in Nat, NEW usd \in Nat
    PROVE  /\ (ShareUnit * PriceUnit) * CollateralValueOf(sh, usd) <= usd * (sh * StableUnit)
           /\ usd * (sh * StableUnit)
                 < (ShareUnit * PriceUnit) * (CollateralValueOf(sh, usd) + 1)
<1> DEFINE a == sh * usd * StableUnit
           x == a \div ShareUnit
           v == x \div PriceUnit
<1>1. /\ ShareUnit \in Positive /\ PriceUnit \in Positive /\ StableUnit \in Nat
      /\ ShareUnit \in Nat /\ PriceUnit \in Nat
    BY ScaleAssumption DEF Positive
<1>2. a \in Nat /\ a = usd * (sh * StableUnit)
    BY <1>1, ProductIsNatural
<1>3. x \in Nat /\ ShareUnit * x <= a /\ a < ShareUnit * x + ShareUnit
    BY <1>1, <1>2, QuotientIsNatural, QuotientBounds
<1>4. v \in Nat /\ PriceUnit * v <= x /\ x < PriceUnit * v + PriceUnit
    BY <1>1, <1>3, QuotientIsNatural, QuotientBounds
<1>5. CollateralValueOf(sh, usd) = v
    BY DEF CollateralValueOf
<1> HIDE DEF a, x, v
<1>6. ShareUnit * (PriceUnit * v) <= a
    <2>1. PriceUnit * v \in Nat
        BY <1>1, <1>4, ProductIsNatural
    <2>2. (PriceUnit * v) * ShareUnit <= x * ShareUnit
        BY <1>1, <1>3, <1>4, <2>1, ProductIsMonotone
    <2>3. (PriceUnit * v) * ShareUnit = ShareUnit * (PriceUnit * v) /\ x * ShareUnit = ShareUnit * x
        BY <1>1, <1>3, <2>1
    <2>4. ShareUnit * (PriceUnit * v) \in Nat /\ ShareUnit * x \in Nat
        BY <1>1, <1>3, <2>1, ProductIsNatural
    <2> QED BY <1>2, <1>3, <2>2, <2>3, <2>4
<1>7. a < ShareUnit * (PriceUnit * (v + 1))
    <2>1. PriceUnit * (v + 1) \in Nat /\ x + 1 <= PriceUnit * (v + 1) /\ x + 1 \in Nat
        <3>1. PriceUnit * v \in Nat /\ PriceUnit * (v + 1) = PriceUnit * v + PriceUnit
            BY <1>1, <1>4, ProductIsNatural
        <3> QED BY <1>1, <1>3, <1>4, <3>1
    <2>2. (x + 1) * ShareUnit <= (PriceUnit * (v + 1)) * ShareUnit
        BY <1>1, <2>1, ProductIsMonotone
    <2> DEFINE p == PriceUnit * (v + 1)
    <2>3. p * ShareUnit = ShareUnit * p /\ ShareUnit * p \in Nat
        <3>1. p \in Nat
            BY <2>1
        <3> HIDE DEF p
        <3> QED BY <1>1, <3>1, ProductIsNatural
    <2>4. (x + 1) * ShareUnit = ShareUnit * x + ShareUnit /\ ShareUnit * x \in Nat
        BY <1>1, <1>3, ProductIsNatural
    <2> QED BY <1>1, <1>2, <1>3, <2>2, <2>3, <2>4
<1>8. \A y \in Nat : (ShareUnit * PriceUnit) * y = ShareUnit * (PriceUnit * y)
    BY <1>1
<1> QED
    BY <1>2, <1>4, <1>5, <1>6, <1>7, <1>8

(* A print of zero is worth nothing and carries no loan.                   *)
LEMMA NothingIsWorthless ==
    ASSUME NEW sh \in Nat, NEW debt \in Positive,
           Within35(debt, sh, 0)
    PROVE  FALSE
<1>1. (ShareUnit * PriceUnit) * CollateralValueOf(sh, 0) <= 0 * (sh * StableUnit)
    BY CollateralBounds
<1> DEFINE u == ShareUnit * PriceUnit
           v == CollateralValueOf(sh, 0)
           k == sh * StableUnit
<1>2. u \in Positive /\ v \in Nat /\ k \in Nat
    BY ScaleAssumption, ProductIsPositive, ProductIsNatural, CollateralIsNatural DEF Positive
<1>3. u * v <= 0 * k /\ Bps * debt <= 3500 * v
    BY <1>1 DEF Within35
<1> HIDE DEF u, v, k
<1>4. v = 0
    <2>1. ~(v > 0)
        <3>1. v > 0 => u * v \in Positive
            BY <1>2, ProductIsPositive DEF Positive
        <3> QED BY <1>2, <1>3, <3>1 DEF Positive
    <2> QED BY <1>2, <2>1
<1> QED BY <1>3, <1>4 DEF Bps, Positive

(* A print the breaker lets through is more than 79.99 % of the last one:  *)
(* the breaker's own floor gives away the last hundredth.                  *)
LEMMA BreakerBounds ==
    ASSUME NEW prev \in Positive, NEW usd \in Nat, NEW bound \in Nat, bound <= 2000,
           ((IF usd > prev THEN usd - prev ELSE prev - usd) * 10000) \div prev <= bound
    PROVE  OneMoveFrom(prev, usd)
<1>1. prev \in Nat
    BY DEF Positive
<1>2. CASE usd > prev
    BY <1>1, <1>2 DEF OneMoveFrom
<1>3. CASE ~(usd > prev)
    <2> DEFINE d == (prev - usd) * 10000
               q == d \div prev
    <2>1. d \in Nat
        BY <1>1, <1>3
    <2>2. q \in Nat /\ d < prev * q + prev
        BY <2>1, QuotientIsNatural, QuotientBounds
    <2>3. q <= 2000
        <3>1. q <= bound
            BY <1>3
        <3> HIDE DEF q
        <3> QED BY <2>2, <3>1
    <2>4. q * prev <= 2000 * prev
        <3> HIDE DEF q, d
        <3> QED BY <1>1, <2>2, <2>3, ProductIsMonotone
    <2>5. d < 2001 * prev
        <3> HIDE DEF q, d
        <3>1. prev * q = q * prev /\ q * prev \in Nat
            BY <1>1, <2>2, ProductIsNatural
        <3> QED BY <1>1, <2>1, <2>2, <2>4, <3>1
    <2> QED BY <1>1, <1>3, <2>5 DEF OneMoveFrom
<1> QED BY <1>2, <1>3

(* What is left of 35 % room after such a print covers the debt at 50 %,   *)
(* to the last unit of every floor.                                        *)
LEMMA OneMoveIsCovered ==
    ASSUME NEW sh \in Nat, NEW open \in Nat, NEW usd \in Nat, NEW debt \in Positive,
           OneMoveFrom(open, usd), Within35(debt, sh, open),
           NEW r \in RiskParams, LeavesRoom(r)
    PROVE  HealthFactor(sh, usd, debt, r) >= Wad
<1> DEFINE u == ShareUnit * PriceUnit
           k == sh * StableUnit
           v == CollateralValueOf(sh, open)
           w == CollateralValueOf(sh, usd)
           T == r.liquidationThresholdBps
<1>1. /\ u \in Nat /\ u > 0 /\ k \in Nat /\ v \in Nat /\ w \in Nat /\ T \in Nat /\ T >= 5000
      /\ Wad \in Nat /\ debt \in Nat /\ debt > 0
    <2>1. u \in Positive
        BY ScaleAssumption, ProductIsPositive
    <2>2. k \in Nat
        BY ScaleAssumption, ProductIsNatural DEF Positive
    <2>3. v \in Nat /\ w \in Nat
        BY CollateralIsNatural
    <2>4. T \in Nat /\ T >= 5000
        BY DEF RiskParams, LeavesRoom
    <2>5. Wad \in Nat /\ debt \in Nat /\ debt > 0
        BY ScaleAssumption DEF Positive
    <2> HIDE DEF u, k, v, w, T
    <2> QED BY <2>1, <2>2, <2>3, <2>4, <2>5 DEF Positive
<1>2. u * v <= open * k /\ usd * k < u * (w + 1)
    BY CollateralBounds
<1>3. /\ HealthFactor(sh, usd, debt, r) = (w * T * Wad) \div (Bps * debt)
      /\ Bps * debt <= 3500 * v /\ 7999 * open <= 10000 * usd
    BY DEF HealthFactor, Within35, OneMoveFrom
<1> HIDE DEF u, k, v, w, T
<1>4. 7999 * v < 10000 * (w + 1)
    <2> SUFFICES ASSUME 10000 * (w + 1) <= 7999 * v PROVE FALSE
        BY <1>1
    <2>1. 10000 * (w + 1) \in Nat /\ 7999 * v \in Nat
        BY <1>1
    <2>2. (10000 * (w + 1)) * u <= (7999 * v) * u
        BY <1>1, <2>1, ProductIsMonotone
    <2>3. (7999 * open) * k <= (10000 * usd) * k
        <3>1. 7999 * open \in Nat /\ 10000 * usd \in Nat
            OBVIOUS
        <3> QED BY <1>1, <1>3, <3>1, ProductIsMonotone
    <2> DEFINE uv == u * v
               uw == u * (w + 1)
               ok == open * k
               sk == usd * k
    <2>4. uv \in Nat /\ uw \in Nat /\ ok \in Nat /\ sk \in Nat
        BY <1>1, ProductIsNatural
    <2>5. /\ (10000 * (w + 1)) * u = 10000 * uw /\ (7999 * v) * u = 7999 * uv
          /\ (7999 * open) * k = 7999 * ok /\ (10000 * usd) * k = 10000 * sk
        BY <1>1
    <2>6. uv <= ok /\ sk < uw
        BY <1>2
    <2> HIDE DEF uv, uw, ok, sk
    <2> QED BY <2>2, <2>3, <2>4, <2>5, <2>6
<1>5. 10000 * debt <= 5000 * w
    BY <1>1, <1>3, <1>4 DEF Bps
<1>6. Bps * debt <= w * T
    <2>1. 5000 * w <= T * w
        BY <1>1, ProductIsMonotone
    <2>2. T * w = w * T /\ w * T \in Nat
        BY <1>1, ProductIsNatural
    <2> QED BY <1>1, <1>5, <2>1, <2>2 DEF Bps
<1>7. w * T \in Nat /\ Bps * debt \in Positive /\ Bps * debt \in Nat
    BY <1>1, ProductIsNatural, ProductIsPositive, BpsIsPositive DEF Positive
<1>8. (Bps * debt) * Wad <= (w * T) * Wad
    <2> DEFINE n == Bps * debt
               m == w * T
    <2>1. n \in Nat /\ m \in Nat /\ n <= m
        BY <1>6, <1>7
    <2> HIDE DEF n, m
    <2>2. n * Wad <= m * Wad
        BY <1>1, <2>1, ProductIsMonotone
    <2> QED BY <2>2 DEF n, m
<1>9. Wad <= (w * T * Wad) \div (Bps * debt)
    <2> DEFINE n == Bps * debt
               m == w * T * Wad
    <2>1. m \in Nat /\ n \in Positive /\ n \in Nat
        BY <1>1, <1>7, ProductIsNatural
    <2>2. n * Wad <= m
        BY <1>8
    <2> HIDE DEF n, m
    <2>3. Wad * n <= m
        BY <1>1, <2>1, <2>2
    <2>4. Wad <= m \div n
        BY <1>1, <2>1, <2>3, QuotientAtLeast
    <2> QED BY <2>4 DEF n, m
<1>10. (w * T * Wad) \div (Bps * debt) \in Nat
    BY <1>1, <1>7, ProductIsNatural, QuotientIsNatural
<1> QED
    BY <1>1, <1>3, <1>9, <1>10

(* One post by a relayer cannot make a loan liquidatable whose stock still *)
(* marks at or above the print it was written against: between a ceiling   *)
(* of 35 % and a threshold of 50 % there is room for a move of 20 %, with  *)
(* every floor of valuation, ceiling, health factor and breaker against    *)
(* the borrower.                                                           *)
THEOREM OnePostNeverSeizes ==
    ASSUME RoomIsLeft PROVE Spec => OnePostCannotSeize
<1>1. IInv /\ RoomInv /\ [Next]_vars /\ RoomInv' /\ IInv' =>
        [\A id \in LoanIds, r \in Accounts, usd \in Prices, at \in 0..now, open \in BOOLEAN :
            LET l == loans[id]
            IN  /\ l.status = "Active" /\ print[l.stock].usdPerShare >= l.openPrice
                /\ PostPrice(r, l.stock, usd, at, open)
                => Health(id)' >= Wad]_vars
    <2> SUFFICES ASSUME IInv, RoomInv, [Next]_vars, RoomInv', IInv',
                        NEW id \in LoanIds, NEW usd \in Prices,
                        NEW r \in Accounts, NEW at \in 0..now, NEW open \in BOOLEAN,
                        print[loans[id].stock].usdPerShare >= loans[id].openPrice,
                        PostPrice(r, loans[id].stock, usd, at, open)
                 PROVE  Health(id)' >= Wad
        OBVIOUS
    <2> DEFINE l    == loans[id]
               s    == l.stock
               prev == print[s].usdPerShare
               debt == Debt(l)
    <2>1. l \in Loan /\ s \in Stocks /\ l.shares \in Nat
        BY LoanFields DEF IInv, TypeOK, BookTypeOK, LoanIds
    <2>2. print \in [Stocks -> Price] /\ prev \in Nat /\ maxDeviationBps \in Nat /\ usd \in Nat
        BY <2>1, OracleAssumption DEF IInv, TypeOK, OracleTypeOK, Price
    <2>3. /\ debt \in Positive /\ l.openPrice \in Nat
          /\ Within35(debt, l.shares, l.openPrice)
        BY DEF RoomInv, WithinRoom
    <2>4. /\ id \in LoanIds' /\ loans'[id].stock = s /\ loans'[id].shares = l.shares
          /\ Debt(loans'[id]) = debt
        BY TermsStay DEF SameTerms
    <2>5. print'[s].usdPerShare = usd
        BY <2>1, <2>2 DEF PostPrice, Store
    <2>6. risk' \in RiskParams /\ LeavesRoom(risk')
        BY DEF IInv, TypeOK, ParamTypeOK, RoomInv
    <2>7. Health(id)' \in {HealthFactor(l.shares, usd, debt, risk'), Wad} /\ Wad \in Nat
        <3>1. /\ loans'[id].shares = l.shares /\ Debt(loans'[id]) = debt
              /\ print'[loans'[id].stock].usdPerShare = usd
            BY <2>4, <2>5
        <3> HIDE DEF l, s, prev, debt
        <3>2. HealthFactor(loans'[id].shares, print'[loans'[id].stock].usdPerShare,
                           Debt(loans'[id]), risk')
                = HealthFactor(l.shares, usd, debt, risk')
            BY <3>1
        <3>3. \/ Health(id)' = HealthFactor(loans'[id].shares,
                         print'[loans'[id].stock].usdPerShare, Debt(loans'[id]), risk')
              \/ Health(id)' = Wad
            BY DEF Health, Unassessable
        <3>4. Wad \in Nat
            BY ScaleAssumption DEF Positive
        <3> QED BY <3>2, <3>3, <3>4
    <2>8. Priced(s) => ((IF usd > prev THEN usd - prev ELSE prev - usd) * 10000) \div prev
                          <= maxDeviationBps
        BY DEF PostPrice, WithinDeviation
    <2>9. l.openPrice <= prev /\ maxDeviationBps <= 2000
        BY <2>2, <2>3 DEF RoomInv
    <2>10. prev \in Positive
        BY <2>2, <2>3, <2>9, <2>1, NothingIsWorthless DEF Positive
    <2>11. Priced(s)
        BY <2>10 DEF Priced, Positive
    <2> HIDE DEF l, s, prev, debt
    <2>12. OneMoveFrom(prev, usd)
        BY <2>2, <2>8, <2>9, <2>10, <2>11, BreakerBounds
    <2>13. OneMoveFrom(l.openPrice, usd)
        BY <2>2, <2>3, <2>9, <2>12 DEF OneMoveFrom
    <2>14. HealthFactor(l.shares, usd, debt, risk') >= Wad
        BY <2>1, <2>2, <2>3, <2>6, <2>13, OneMoveIsCovered
    <2> QED BY <2>7, <2>14
<1> QED
    BY <1>1, RoomAlways, PTL DEF Spec, OnePostCannotSeize

-----------------------------------------------------------------------------
(* The ways out.  What ENABLED says of repay and liquidate is said here    *)
(* without it: the successor is written down as a function of the state,   *)
(* it is a state of the right type (no subtraction of the contracts runs   *)
(* below zero), and the step to it is a step of the action.                *)

ExitVars == <<loans, lockedOf, stable, outstanding, earned, shares, claimable>>
ExitFrame ==
    <<now, oracleVars, blocked, skimming, orderToLoan, listVars, paramVars, sequencer,
      contributed, engineWired>>

ExitStates ==
    Seq(Loan) \X [Stocks -> Nat] \X [Holders -> Nat] \X Nat \X Nat \X Ledgers \X Claims

(* A loan closed at a payer's cost, and shares of it handed over from the  *)
(* given ledger.                                                           *)
AfterExit(id, payer, outcome, ledger, amount) ==
    LET l   == loans[id]
        due == l.principal + l.fee
        ok  == Transferable(ledger, l.stock, Engine, l.borrower, amount)
    IN  <<[loans EXCEPT ![id].status = outcome],
          [lockedOf EXCEPT ![l.stock] = @ - l.shares],
          [stable EXCEPT ![payer] = @ - due, ![Pool] = @ + due],
          outstanding - l.principal,
          earned + l.fee,
          IF ok THEN AfterTransfer(ledger, l.stock, Engine, l.borrower, amount) ELSE ledger,
          IF ok THEN claimable
          ELSE WithClaim(claimable, l.borrower, l.stock, claimable[l.borrower][l.stock] + amount)>>

LEMMA ExitLeads ==
    ASSUME IInv, NEW id \in LoanIds, loans[id].status = "Active", engineWired,
           NEW payer \in Accounts, stable[payer] >= Debt(loans[id]),
           NEW outcome \in Status, NEW ledger \in Ledgers,
           NEW amount \in Nat
    PROVE  /\ AfterExit(id, payer, outcome, ledger, amount) \in ExitStates
           /\ ExitVars' = AfterExit(id, payer, outcome, ledger, amount) /\ UNCHANGED ExitFrame
                => /\ CloseLoan(id, payer, outcome)
                   /\ Deliver(ledger, loans[id].stock, loans[id].borrower, amount)
<1> DEFINE l   == loans[id]
           due == l.principal + l.fee
           ok  == Transferable(ledger, l.stock, Engine, l.borrower, amount)
           a1  == [loans EXCEPT ![id].status = outcome]
           a2  == [lockedOf EXCEPT ![l.stock] = @ - l.shares]
           a3  == [stable EXCEPT ![payer] = @ - due, ![Pool] = @ + due]
           a6  == IF ok THEN AfterTransfer(ledger, l.stock, Engine, l.borrower, amount) ELSE ledger
           v   == claimable[l.borrower][l.stock] + amount
           a7  == IF ok THEN claimable ELSE WithClaim(claimable, l.borrower, l.stock, v)
<1>1. /\ loans \in Seq(Loan) /\ id \in 1..Len(loans)
      /\ lockedOf \in [Stocks -> Nat] /\ claimable \in Claims
      /\ stable \in [Holders -> Nat] /\ outstanding \in Nat /\ earned \in Nat
    BY DEF IInv, TypeOK, BookTypeOK, PoolTypeOK, LoanIds, Claims
<1>2. /\ l \in Loan /\ l.stock \in Stocks /\ l.borrower \in Accounts
      /\ l.shares \in Nat /\ l.principal \in Nat /\ l.fee \in Nat
    BY <1>1, LoanFields
<1>3. l.shares <= lockedOf[l.stock] /\ l.principal <= outstanding
    BY <1>1, <1>2, ActiveIsCounted DEF IInv, Books, LockedMatchesLoans, OutstandingMatchesLoans
<1>4. due \in Nat /\ due <= stable[payer]
    BY <1>2 DEF Debt
<1>5. a1 \in Seq(Loan)
    <2>1. [l EXCEPT !.status = outcome] \in Loan
        BY <1>2 DEF Loan
    <2>2. a1 = [loans EXCEPT ![id] = [l EXCEPT !.status = outcome]]
        BY <1>1
    <2> QED BY <1>1, <2>1, <2>2
<1>6. a2 \in [Stocks -> Nat]
    BY <1>1, <1>2, <1>3
<1>7. a3 \in [Holders -> Nat]
    <2>1. payer \in Holders /\ Pool \in Holders /\ Pool # payer
        BY EngineIsNoAccount DEF Pool, Engine
    <2> HIDE DEF due
    <2> QED BY <1>1, <1>4, <2>1
<1>8. outstanding - l.principal \in Nat /\ earned + l.fee \in Nat
    <2>1. outstanding \in Nat /\ earned \in Nat
        BY <1>1
    <2>2. l.principal \in Nat /\ l.fee \in Nat /\ l.principal <= outstanding
        BY <1>2, <1>3
    <2> HIDE DEF l
    <2> QED BY <2>1, <2>2
<1>9. a6 \in Ledgers
    <2>1. Engine \in Holders /\ l.borrower \in Holders /\ Engine # l.borrower
        BY <1>2, EngineIsNoAccount
    <2>2. ok => amount <= ledger[l.stock][Engine]
        BY DEF Transferable
    <2> HIDE DEF l, ok
    <2> QED BY <1>2, <2>1, <2>2, TransferEffect
<1>10. a7 \in Claims
    <2>1. v \in Nat
        BY <1>1, <1>2 DEF Claims
    <2> HIDE DEF v, ok, l
    <2> QED BY <1>1, <1>2, <2>1, ClaimUpdate
<1>11. AfterExit(id, payer, outcome, ledger, amount)
         = <<a1, a2, a3, outstanding - l.principal, earned + l.fee, a6, a7>>
    BY DEF AfterExit
<1>12. AfterExit(id, payer, outcome, ledger, amount) \in ExitStates
    <2> HIDE DEF a1, a2, a3, a6, a7, l
    <2> QED BY <1>5, <1>6, <1>7, <1>8, <1>9, <1>10, <1>11 DEF ExitStates
<1>13. ASSUME ExitVars' = AfterExit(id, payer, outcome, ledger, amount), UNCHANGED ExitFrame
       PROVE  /\ CloseLoan(id, payer, outcome)
              /\ Deliver(ledger, l.stock, l.borrower, amount)
    <2>1. /\ loans' = a1 /\ lockedOf' = a2 /\ stable' = a3
          /\ outstanding' = outstanding - l.principal /\ earned' = earned + l.fee
          /\ shares' = a6 /\ claimable' = a7
        <3> HIDE DEF a1, a2, a3, a6, a7, l
        <3> QED BY <1>11, <1>13 DEF ExitVars
    <2>2. UNCHANGED <<now, oracleVars, blocked, skimming, orderToLoan, listVars, paramVars, sequencer>>
          /\ UNCHANGED <<contributed, engineWired>>
        BY <1>13 DEF ExitFrame
    <2>3. CappedPrincipal(l.principal) = l.principal
        <3> HIDE DEF l
        <3> QED BY <1>1, <1>2, <1>3 DEF CappedPrincipal
    <2>4. PayStable(payer, Pool, l.principal + l.fee)
        BY <1>4, <2>1 DEF PayStable
    <2>5. OnRepaid(payer, l.principal, l.fee)
        BY <2>1, <2>2, <2>3, <2>4 DEF OnRepaid
    <2>6. CloseLoan(id, payer, outcome)
        BY <2>1, <2>2, <2>5 DEF CloseLoan, Release
    <2>7. Deliver(ledger, l.stock, l.borrower, amount)
        <3>1. CASE ok
            BY <2>1, <3>1 DEF Deliver
        <3>2. CASE ~ok
            <4>1. shares' = ledger /\ claimable' = WithClaim(claimable, l.borrower, l.stock, v)
                BY <2>1, <3>2
            <4>2. WithClaim(claimable, l.borrower, l.stock, v)
                    = [claimable EXCEPT ![l.borrower][l.stock] = @ + amount]
                BY DEF WithClaim
            <4> QED BY <3>2, <4>1, <4>2 DEF Deliver
        <3> QED BY <3>1, <3>2
    <2> QED BY <2>6, <2>7
<1> QED
    BY <1>12, <1>13

(* A borrower who holds the money can always repay, whatever the market,   *)
(* the sequencer, the issuer or the listing: when the loan is active, the  *)
(* pool is wired and the debt is in hand, the state after repay exists and *)
(* repay leads to it.  IInv holds in every state the system reaches        *)
(* (BooksBalance).                                                         *)
AfterRepay(id) ==
    AfterExit(id, loans[id].borrower, "Repaid", shares, loans[id].shares)

THEOREM RepayIsNeverRefused ==
    ASSUME IInv, NEW id \in LoanIds,
           loans[id].status = "Active", engineWired, stable[loans[id].borrower] >= Debt(loans[id])
    PROVE  /\ AfterRepay(id) \in ExitStates
           /\ ExitVars' = AfterRepay(id) /\ UNCHANGED ExitFrame
                => Repay(loans[id].borrower, id)
<1>1. /\ loans[id].borrower \in Accounts /\ loans[id].shares \in Nat /\ shares \in Ledgers
    BY LoanFields DEF IInv, TypeOK, BookTypeOK, TokenTypeOK, LoanIds, Ledgers
<1>2. "Repaid" \in Status
    BY DEF Status
<1>3. /\ AfterRepay(id) \in ExitStates
      /\ ExitVars' = AfterRepay(id) /\ UNCHANGED ExitFrame
           => /\ CloseLoan(id, loans[id].borrower, "Repaid")
              /\ Deliver(shares, loans[id].stock, loans[id].borrower, loans[id].shares)
    BY <1>1, <1>2, ExitLeads DEF AfterRepay
<1> QED
    BY <1>3 DEF Repay

(* What the liquidator takes of a loan.                                    *)
Seized(id) ==
    LET l      == loans[id]
        wanted == SharesToSeize(Debt(l), print[l.stock].usdPerShare, risk)
    IN  IF wanted >= l.shares THEN l.shares ELSE wanted

AfterLiquidate(q, id) ==
    AfterExit(id, q, "Liquidated",
              AfterTransfer(shares, loans[id].stock, Engine, q, Seized(id)),
              loans[id].shares - Seized(id))

(* isLiquidatable never promises a call that reverts: when it says yes,    *)
(* liquidate's own tests of the print agree, and a liquidator with the     *)
(* money whom the issuer serves can clear the loan, the borrower blocked   *)
(* or not.  That the engine still holds the shares to hand over is the     *)
(* custody of every other loan and claim staying exact.                    *)
THEOREM LiquidatableCanBeCleared ==
    ASSUME IInv, NEW id \in LoanIds, NEW q \in Liquidators,
           IsLiquidatable(id), engineWired, stable[q] >= Debt(loans[id]),
           blocked[loans[id].stock] \cap {q, Engine} = {}
    PROVE  /\ AfterLiquidate(q, id) \in ExitStates
           /\ ExitVars' = AfterLiquidate(q, id) /\ UNCHANGED ExitFrame => Liquidate(q, id)
<1> DEFINE l      == loans[id]
           usd    == print[l.stock].usdPerShare
           wanted == SharesToSeize(Debt(l), usd, risk)
           seized == Seized(id)
           ledger == AfterTransfer(shares, l.stock, Engine, q, seized)
<1>1. /\ loans \in Seq(Loan) /\ id \in 1..Len(loans) /\ shares \in Ledgers
      /\ claimable \in Claims /\ lockedOf \in [Stocks -> Nat] /\ risk \in RiskParams
    BY DEF IInv, TypeOK, BookTypeOK, TokenTypeOK, ParamTypeOK, LoanIds, Ledgers, Claims
<1>2. /\ l.stock \in Stocks /\ l.borrower \in Accounts
      /\ l.shares \in Nat /\ l.principal \in Nat /\ l.fee \in Nat
    BY <1>1, LoanFields
<1>3. l.status = "Active" /\ Fresh(l.stock)
    BY DEF IsLiquidatable
<1>4. q \in Accounts /\ "Liquidated" \in Status
    BY EngineAssumption DEF Status
<1>5. wanted \in Nat
    <2>1. usd \in Positive
        BY <1>2, <1>3 DEF Fresh, Priced, Positive, IInv, TypeOK, OracleTypeOK, Price
    <2>2. Debt(l) \in Nat
        BY <1>2 DEF Debt
    <2> QED BY <1>1, <2>1, <2>2, SeizureIsBounded
<1>6. seized = IF wanted >= l.shares THEN l.shares ELSE wanted
    BY DEF Seized
<1> HIDE DEF wanted, seized
<1>7. seized \in Nat /\ seized <= l.shares /\ l.shares - seized \in Nat
    <2> HIDE DEF l
    <2> QED BY <1>2, <1>5, <1>6
<1>8. l.shares <= shares[l.stock][Engine]
    <2>1. l.shares <= lockedOf[l.stock]
        BY <1>1, <1>2, <1>3, ActiveIsCounted DEF IInv, Books, LockedMatchesLoans
    <2>2. SumTo(Deferred(claimable, l.stock), NumAccounts) \in Nat
        BY <1>1, <1>2, DeferredIsNatural
    <2>3. shares[l.stock][Engine]
            = lockedOf[l.stock] + SumTo(Deferred(claimable, l.stock), NumAccounts)
        BY <1>2 DEF IInv, Books, CustodyIsExact
    <2>4. lockedOf[l.stock] \in Nat
        BY <1>1, <1>2
    <2> HIDE DEF l
    <2> QED BY <1>2, <2>1, <2>2, <2>3, <2>4
<1>9. Transferable(shares, l.stock, Engine, q, seized)
    <2>1. shares[l.stock][Engine] \in Nat
        BY <1>1, <1>2, EngineIsNoAccount DEF Ledgers
    <2>2. seized <= shares[l.stock][Engine]
        <3> HIDE DEF l
        <3> QED BY <1>2, <1>7, <1>8, <2>1
    <2>3. Engine \notin blocked[l.stock] /\ q \notin blocked[l.stock]
        OBVIOUS
    <2> QED BY <2>2, <2>3 DEF Transferable
<1>10. ledger \in Ledgers
    <2>1. Engine \in Holders /\ q \in Holders /\ Engine # q
        BY <1>4, EngineIsNoAccount
    <2>2. seized <= shares[l.stock][Engine]
        BY <1>9 DEF Transferable
    <2> HIDE DEF l
    <2> QED BY <1>1, <1>2, <1>7, <2>1, <2>2, TransferEffect
<1> HIDE DEF ledger
<1>11. /\ AfterExit(id, q, "Liquidated", ledger, l.shares - seized) \in ExitStates
       /\ ExitVars' = AfterExit(id, q, "Liquidated", ledger, l.shares - seized)
            /\ UNCHANGED ExitFrame
            => /\ CloseLoan(id, q, "Liquidated")
               /\ Deliver(ledger, l.stock, l.borrower, l.shares - seized)
    BY <1>3, <1>4, <1>7, <1>10, ExitLeads
<1>12. AfterLiquidate(q, id) = AfterExit(id, q, "Liquidated", ledger, l.shares - seized)
    BY DEF AfterLiquidate, ledger, seized
<1>13. CloseLoan(id, q, "Liquidated") /\ Deliver(ledger, l.stock, l.borrower, l.shares - seized)
         => Liquidate(q, id)
    <2>1. SaleablePrint(l.stock)
        BY DEF IsLiquidatable, LivePrint, SaleablePrint
    <2> QED BY <1>6, <1>9, <2>1 DEF Liquidate, wanted, ledger
<1> QED
    BY <1>11, <1>12, <1>13

(* What a refused delivery left behind can be had once the issuer serves   *)
(* its holder again: the shares are still in custody, whatever became of   *)
(* the other loans and claims, and the state after claim exists.           *)
AfterClaim(a, s) ==
    <<WithClaim(claimable, a, s, 0), AfterTransfer(shares, s, Engine, a, claimable[a][s])>>
ClaimFrame ==
    <<now, oracleVars, poolVars, blocked, skimming, loans, lockedOf, orderToLoan,
      listVars, paramVars, sequencer>>

THEOREM ClaimIsNeverRefused ==
    ASSUME IInv, NEW a \in Accounts, NEW s \in Stocks,
           claimable[a][s] # 0, blocked[s] \cap {a, Engine} = {}
    PROVE  /\ AfterClaim(a, s) \in Claims \X Ledgers
           /\ <<claimable, shares>>' = AfterClaim(a, s) /\ UNCHANGED ClaimFrame => Claim(a, s)
<1> DEFINE amount == claimable[a][s]
<1>1. /\ claimable \in Claims /\ shares \in Ledgers /\ lockedOf[s] \in Nat /\ amount \in Nat
    BY DEF IInv, TypeOK, BookTypeOK, TokenTypeOK, Ledgers, Claims
<1>2. amount <= shares[s][Engine]
    <2>1. /\ SumTo(Deferred(claimable, s), NumAccounts) \in Nat
          /\ amount <= SumTo(Deferred(claimable, s), NumAccounts)
        <3>1. /\ Deferred(claimable, s) \in [1..NumAccounts -> Nat] /\ a \in 1..NumAccounts
              /\ Deferred(claimable, s)[a] = amount
            BY <1>1 DEF Deferred, Claims, Accounts
        <3>2. NumAccounts \in Nat
            BY PartiesAssumption
        <3> HIDE DEF amount
        <3> QED BY <3>1, <3>2, SumBounds
    <2>2. shares[s][Engine] = lockedOf[s] + SumTo(Deferred(claimable, s), NumAccounts)
        BY DEF IInv, Books, CustodyIsExact
    <2> HIDE DEF amount
    <2> QED BY <1>1, <2>1, <2>2
<1>3. Transferable(shares, s, Engine, a, amount)
    BY <1>2 DEF Transferable
<1>4. AfterTransfer(shares, s, Engine, a, amount) \in Ledgers
    <2>1. Engine \in Holders /\ a \in Holders /\ Engine # a
        BY EngineIsNoAccount
    <2> HIDE DEF amount
    <2> QED BY <1>1, <1>2, <2>1, TransferEffect
<1>5. WithClaim(claimable, a, s, 0) \in Claims
    BY <1>1, ClaimUpdate
<1> QED
    BY <1>3, <1>4, <1>5 DEF AfterClaim, ClaimFrame, Claim, WithClaim

-----------------------------------------------------------------------------
(* The engine implements PledgedCredit.  The abstract promise weighs debt  *)
(* against worth by cross-multiplication and knows no ledger: the links    *)
(* are the bounds on every floor of the arithmetic, and the custody that   *)
(* makes a delivery refused as good as a delivery made.                    *)

(* Every loan on the book was written for some debt, so that its health    *)
(* factor divides by something.                                            *)
OwesSomething == \A id \in LoanIds : Debt(loans[id]) \in Positive

LEMMA OwesInductive == ASSUME IInv, OwesSomething, [Next]_vars PROVE OwesSomething'
<1>1. ASSUME NEW id \in LoanIds PROVE Debt(loans'[id]) \in Positive
    BY TermsStay DEF SameTerms, OwesSomething
<1>2. ASSUME NEW id \in LoanIds', id \notin LoanIds PROVE Debt(loans'[id]) \in Positive
    <2>1. loans \in Seq(Loan)
        BY DEF IInv, TypeOK, BookTypeOK
    <2>2. PICK b \in Borrowers, s \in Stocks, sh \in ShareAmounts, m \in Merchants,
               ref \in OrderRefs, amount \in BorrowAmounts, tenor \in Tenors :
               OpenLoan(b, s, sh, m, ref, amount, tenor)
        BY <1>2, OnlyOpenAdds DEF LoanIds
    <2>3. PICK l : /\ loans' = Append(loans, l)
                   /\ l.principal = amount /\ l.fee = FeeFor(amount, tenor, fees)
        BY <2>2 DEF OpenLoan
    <2>4. loans'[id] = l
        BY <1>2, <2>1, <2>3 DEF LoanIds
    <2>5. amount \in Nat /\ amount # 0 /\ tenor \in Nat /\ fees \in FeeParams
        BY <2>2, EngineAssumption DEF OpenLoan, IInv, TypeOK, ParamTypeOK
    <2>6. FeeFor(amount, tenor, fees) \in Nat
        BY <2>5, FeeIsNatural
    <2> QED BY <2>3, <2>4, <2>5, <2>6 DEF Debt, Positive
<1> QED
    BY <1>1, <1>2 DEF OwesSomething, Debt

LEMMA AlwaysOwes == Spec => [](IInv /\ OwesSomething)
<1>1. Init => OwesSomething
    BY DEF Init, OwesSomething, LoanIds
<1>2. IInv /\ OwesSomething /\ [Next]_vars => OwesSomething'
    BY OwesInductive
<1> QED
    BY <1>1, <1>2, BooksBalance, PTL DEF Spec

(* What the ceiling accepts is covered, whatever haircut and floors.       *)
LEMMA AllowedIsCovered ==
    ASSUME NEW r \in RiskParams, ValidRisk(r), NEW open \in BOOLEAN,
           NEW sh \in Nat, NEW usd \in Nat, NEW debt \in Nat, debt <= Allowed(sh, usd, open, r)
    PROVE  debt * Bps * (ShareUnit * PriceUnit) <= sh * usd * StableUnit * r.maxLtvBps
<1> DEFINE v == CollateralValueOf(sh, usd)
           e == EffectiveLtvBps(r, open)
           m == r.maxLtvBps
           u == ShareUnit * PriceUnit
           w == usd * (sh * StableUnit)
           cut == Bps - r.closedMarketHaircutBps
           half == m * cut
<1>1. /\ v \in Nat /\ u \in Nat /\ w \in Nat /\ m \in Nat /\ StableUnit \in Nat /\ Bps \in Nat
    BY CollateralIsNatural, ScaleAssumption, ProductIsNatural DEF Positive, RiskParams, Bps
<1>2. u * v <= w
    BY CollateralBounds
<1>3. cut \in Nat /\ cut <= Bps
    BY DEF RiskParams, ValidRisk, Bps
<1> HIDE DEF cut
<1>4. half \in Nat /\ half <= Bps * m
    <2>1. cut * m <= Bps * m
        BY <1>1, <1>3, ProductIsMonotone
    <2>2. half \in Nat /\ half = cut * m
        BY <1>1, <1>3, ProductIsNatural
    <2> QED BY <2>1, <2>2
<1> HIDE DEF half
<1>5. e \in Nat /\ e <= m
    <2> DEFINE q == half \div Bps
    <2>1. q \in Nat /\ Bps * q <= half
        BY <1>4, BpsIsPositive, QuotientIsNatural, QuotientBounds
    <2>2. e = IF open THEN m ELSE q
        BY DEF EffectiveLtvBps, half, cut
    <2> HIDE DEF q, e, m
    <2>3. q <= m
        BY <1>1, <1>4, <2>1 DEF Bps
    <2> QED BY <1>1, <2>1, <2>2, <2>3
<1>6. debt <= (v * e) \div Bps
    BY DEF Allowed
<1> HIDE DEF v, e, m, u, w
<1>7. v * e \in Nat /\ v * e <= v * m /\ v * m \in Nat
    <2>1. e * v <= m * v
        BY <1>1, <1>5, ProductIsMonotone
    <2>2. e * v = v * e /\ m * v = v * m /\ v * e \in Nat /\ v * m \in Nat
        BY <1>1, <1>5, ProductIsNatural
    <2> QED BY <2>1, <2>2
<1>8. debt * Bps <= v * m
    <2> DEFINE p == v * e
               q == p \div Bps
    <2>1. q \in Nat /\ Bps * q <= p
        BY <1>7, BpsIsPositive, QuotientBounds, QuotientIsNatural
    <2>2. p \in Nat /\ debt <= q /\ p <= v * m
        BY <1>6, <1>7
    <2> HIDE DEF p, q
    <2> QED BY <1>7, <2>1, <2>2 DEF Bps
<1>9. (debt * Bps) * u <= (v * m) * u
    BY <1>1, <1>7, <1>8, ProductIsNatural, ProductIsMonotone
<1>10. (u * v) * m <= w * m
    BY <1>1, <1>2, ProductIsNatural, ProductIsMonotone
<1>11. (v * m) * u = (u * v) * m
    BY <1>1
<1>12. (debt * Bps) * u <= w * m
    <2>1. (debt * Bps) * u \in Nat /\ (u * v) * m \in Nat /\ w * m \in Nat
        BY <1>1, ProductIsNatural
    <2> QED BY <1>9, <1>10, <1>11, <2>1
<1>13. w = sh * usd * StableUnit
    BY <1>1 DEF w
<1> QED
    BY <1>12, <1>13 DEF u, m

(* A health factor below one means that the shares at the threshold are    *)
(* worth less than the debt, to within what the two floors give away.      *)
LEMMA UnhealthyIsSunk ==
    ASSUME NEW sh \in Nat, NEW usd \in Nat, NEW debt \in Positive, NEW r \in RiskParams,
           HealthFactor(sh, usd, debt, r) < Wad
    PROVE  sh * usd * StableUnit * r.liquidationThresholdBps
             < (debt * Bps + r.liquidationThresholdBps) * (ShareUnit * PriceUnit)
<1> DEFINE v == CollateralValueOf(sh, usd)
           k == r.liquidationThresholdBps
           u == ShareUnit * PriceUnit
           w == usd * (sh * StableUnit)
           d == Bps * debt
<1>1. v \in Nat /\ k \in Nat /\ w \in Nat /\ StableUnit \in Nat /\ Wad \in Nat
    BY CollateralIsNatural, ScaleAssumption, ProductIsNatural DEF Positive, RiskParams
<1>2. u \in Nat /\ u > 0 /\ d \in Positive /\ d \in Nat
    <2>1. u \in Positive /\ d \in Positive
        BY ScaleAssumption, BpsIsPositive, ProductIsPositive
    <2> HIDE DEF u, d
    <2> QED BY <2>1 DEF Positive
<1>3. w < u * (v + 1)
    BY CollateralBounds
<1>4. ~(Wad <= (v * k * Wad) \div d)
    <2>1. (v * k * Wad) \div d \in Nat
        BY <1>1, <1>2, ProductIsNatural, QuotientIsNatural
    <2>2. HealthFactor(sh, usd, debt, r) = (v * k * Wad) \div d
        BY DEF HealthFactor
    <2> HIDE DEF v, k, d
    <2> QED BY <1>1, <2>1, <2>2
<1> HIDE DEF v, k, u, w, d
<1>5. v * k \in Nat
    BY <1>1, ProductIsNatural
<1>6. v * k < d
    <2> SUFFICES ASSUME d <= v * k PROVE FALSE
        BY <1>2, <1>5
    <2> DEFINE p == v * k
    <2>1. p \in Nat /\ d <= p
        BY <1>5
    <2> HIDE DEF p
    <2>2. d * Wad <= p * Wad /\ p * Wad \in Nat /\ d * Wad = Wad * d
        BY <1>1, <1>2, <2>1, ProductIsMonotone, ProductIsNatural
    <2>3. Wad * d <= p * Wad
        BY <2>2
    <2>4. Wad <= (p * Wad) \div d
        BY <1>1, <1>2, <2>2, <2>3, QuotientAtLeast
    <2> QED BY <1>4, <2>4 DEF p
<1>7. w * k <= (u * (v + 1)) * k
    <2>1. u * (v + 1) \in Nat
        BY <1>1, <1>2, ProductIsNatural
    <2> DEFINE x == u * (v + 1)
    <2>2. x \in Nat /\ w <= x
        BY <1>1, <1>3, <2>1
    <2> HIDE DEF x
    <2>3. w * k <= x * k
        BY <1>1, <2>2, ProductIsMonotone
    <2> QED BY <2>3 DEF x
<1>8. (u * (v + 1)) * k = u * (v * k + k)
    BY <1>1, <1>2
<1>9. u * (v * k + k) < u * (d + k)
    <2> DEFINE p == v * k + k
    <2>1. p \in Nat /\ p + 1 <= d + k /\ p + 1 \in Nat /\ d + k \in Nat
        BY <1>1, <1>2, <1>5, <1>6
    <2> HIDE DEF p
    <2>2. (p + 1) * u <= (d + k) * u
        BY <1>2, <2>1, ProductIsMonotone
    <2>3. (p + 1) * u = u * p + u /\ (d + k) * u = u * (d + k) /\ u * p \in Nat
        BY <1>1, <1>2, <2>1, ProductIsNatural
    <2>4. u * (d + k) \in Nat
        BY <1>2, <2>1, ProductIsNatural
    <2>5. u * p < u * (d + k)
        BY <1>2, <2>2, <2>3, <2>4
    <2> QED BY <2>5 DEF p
<1>10. w * k < u * (d + k)
    <2>1. w * k \in Nat /\ u * (v * k + k) \in Nat /\ u * (d + k) \in Nat
        <3>1. v * k + k \in Nat /\ d + k \in Nat
            BY <1>1, <1>2, <1>5
        <3> QED BY <1>1, <1>2, <3>1, ProductIsNatural
    <2> QED BY <1>7, <1>8, <1>9, <2>1
<1>11. w = sh * usd * StableUnit
    BY <1>1 DEF w
<1>12. u * (d + k) = (debt * Bps + k) * u
    <2>1. debt * Bps = d
        BY DEF d, Positive, Bps
    <2> QED BY <1>1, <1>2, <2>1
<1> QED
    BY <1>10, <1>11, <1>12 DEF u, k

StateOf(status) ==
    IF status = "Active" THEN "open" ELSE IF status = "Liquidated" THEN "sold" ELSE "returned"
PledgesOf(book) == [id \in 1..Len(book) |-> PledgeOf(book[id])]

LEMMA PledgesAre == Pledges = PledgesOf(loans) /\ Pledges' = PledgesOf(loans')
BY DEF Pledges, PledgesOf, LoanIds, PledgeOf, Debt

LEMMA PledgeFields ==
    ASSUME NEW l
    PROVE  /\ PledgeOf(l).owner = l.borrower /\ PledgeOf(l).stock = l.stock
           /\ PledgeOf(l).shares = l.shares /\ PledgeOf(l).owed = Debt(l)
           /\ PledgeOf(l).fee = l.fee /\ PledgeOf(l).due = l.dueAt
           /\ PledgeOf(l).state = StateOf(l.status)
BY DEF PledgeOf, StateOf

LEMMA PledgesAreASequence ==
    ASSUME NEW book \in Seq(Loan)
    PROVE  /\ DOMAIN PledgesOf(book) = 1..Len(book) /\ Len(PledgesOf(book)) = Len(book)
           /\ Len(book) \in Nat
           /\ \A id \in 1..Len(book) : PledgesOf(book)[id] = PledgeOf(book[id])
<1>1. Len(book) \in Nat
    OBVIOUS
<1> QED
    BY <1>1 DEF PledgesOf

LEMMA PledgesAfterOpen ==
    ASSUME NEW book \in Seq(Loan), NEW l \in Loan
    PROVE  PledgesOf(Append(book, l)) = Append(PledgesOf(book), PledgeOf(l))
<1> DEFINE n == Len(book)
           new == Append(book, l)
<1>1. /\ n \in Nat /\ Len(new) = n + 1 /\ new \in Seq(Loan)
      /\ \A id \in 1..n : new[id] = book[id]
      /\ new[n + 1] = l
    OBVIOUS
<1>2. /\ DOMAIN PledgesOf(book) = 1..n /\ Len(PledgesOf(book)) = n
      /\ \A id \in 1..n : PledgesOf(book)[id] = PledgeOf(book[id])
    BY PledgesAreASequence
<1>3. Append(PledgesOf(book), PledgeOf(l)) =
        [id \in 1..n + 1 |-> IF id = n + 1 THEN PledgeOf(l) ELSE PledgesOf(book)[id]]
    <2> DEFINE S == {PledgeOf(x) : x \in Loan}
    <2>1. PledgeOf(l) \in S /\ \A id \in 1..n : PledgeOf(book[id]) \in S
        OBVIOUS
    <2> HIDE DEF S
    <2>2. PledgesOf(book) \in Seq(S)
        BY <1>1, <2>1 DEF PledgesOf
    <2> QED BY <1>2, <2>1, <2>2, AppendIs
<1>4. \A id \in 1..n + 1 :
        PledgeOf(new[id]) = IF id = n + 1 THEN PledgeOf(l) ELSE PledgesOf(book)[id]
    BY <1>1, <1>2
<1> QED
    BY <1>1, <1>3, <1>4 DEF PledgesOf

LEMMA PledgesAfterClose ==
    ASSUME NEW book \in Seq(Loan), NEW id \in 1..Len(book), NEW outcome \in Status
    PROVE  PledgesOf(WithStatus(book, id, outcome)) =
              [PledgesOf(book) EXCEPT ![id].state = StateOf(outcome)]
<1> DEFINE l   == [book[id] EXCEPT !.status = outcome]
           new == [book EXCEPT ![id] = l]
           p   == PledgesOf(book)
           q   == [p EXCEPT ![id].state = StateOf(outcome)]
<1>1. book[id] \in Loan
    BY LoanFields
<1>2. /\ l \in Loan /\ new = WithStatus(book, id, outcome)
      /\ PledgeOf(l) = [PledgeOf(book[id]) EXCEPT !.state = StateOf(outcome)]
    <2>1. l \in Loan /\ new = WithStatus(book, id, outcome)
        BY <1>1 DEF Loan, WithStatus
    <2>2. /\ l.borrower = book[id].borrower /\ l.stock = book[id].stock
          /\ l.shares = book[id].shares /\ l.principal = book[id].principal
          /\ l.fee = book[id].fee /\ l.dueAt = book[id].dueAt /\ l.status = outcome
        BY <1>1 DEF Loan
    <2> HIDE DEF l
    <2>3. PledgeOf(l) = [PledgeOf(book[id]) EXCEPT !.state = StateOf(outcome)]
        BY <2>2 DEF PledgeOf, StateOf, Debt
    <2> QED BY <2>1, <2>3
<1> HIDE DEF l
<1>3. /\ new \in Seq(Loan) /\ Len(new) = Len(book) /\ Len(book) \in Nat
      /\ \A i \in 1..Len(book) : new[i] = IF i = id THEN l ELSE book[i]
    BY <1>2
<1>4. /\ DOMAIN p = 1..Len(book)
      /\ \A i \in 1..Len(book) : p[i] = PledgeOf(book[i])
    BY PledgesAreASequence
<1> HIDE DEF p
<1>5. /\ DOMAIN q = 1..Len(book)
      /\ \A i \in 1..Len(book) : i # id => q[i] = p[i]
      /\ q[id] = [p[id] EXCEPT !.state = StateOf(outcome)]
    BY <1>4
<1>6. \A i \in 1..Len(book) : q[i] = PledgeOf(new[i])
    <2> SUFFICES ASSUME NEW i \in 1..Len(book) PROVE q[i] = PledgeOf(new[i])
        OBVIOUS
    <2>1. CASE i = id
        BY <1>2, <1>3, <1>4, <1>5, <2>1
    <2>2. CASE i # id
        BY <1>3, <1>4, <1>5, <2>2
    <2> QED BY <2>1, <2>2
<1>7. q = [i \in 1..Len(book) |-> q[i]]
    BY <1>5
<1> HIDE DEF q, new
<1>8. q = PledgesOf(new)
    BY <1>3, <1>6, <1>7 DEF PledgesOf
<1> QED
    BY <1>2, <1>8 DEF q, p

-----------------------------------------------------------------------------
(* What everybody owns or is owed.                                         *)

Estates == [Accounts -> [Stocks -> Int]]
EstateIn(ledger, claims) ==
    [a \in Accounts |-> [s \in Stocks |-> ledger[s][a] + claims[a][s]]]

LEMMA EstatesAre ==
    /\ Estate = EstateIn(shares, claimable) /\ Estate' = EstateIn(shares', claimable')
    /\ \A ledger \in Ledgers, claims \in Claims :
          /\ EstateIn(ledger, claims) \in [Accounts -> [Stocks -> Nat]]
          /\ EstateIn(ledger, claims) \in Estates
          /\ \A a \in Accounts, s \in Stocks :
                /\ EstateIn(ledger, claims)[a][s] = ledger[s][a] + claims[a][s]
                /\ ledger[s][a] \in Nat /\ claims[a][s] \in Nat
<1>1. Estate = EstateIn(shares, claimable) /\ Estate' = EstateIn(shares', claimable')
    BY DEF Estate, EstateIn
<1>2. ASSUME NEW ledger \in Ledgers, NEW claims \in Claims
      PROVE  /\ \A a \in Accounts, s \in Stocks : ledger[s][a] \in Nat /\ claims[a][s] \in Nat
             /\ EstateIn(ledger, claims) \in [Accounts -> [Stocks -> Nat]]
             /\ EstateIn(ledger, claims) \in Estates
             /\ \A a \in Accounts, s \in Stocks :
                   EstateIn(ledger, claims)[a][s] = ledger[s][a] + claims[a][s]
    <2>1. \A a \in Accounts, s \in Stocks : ledger[s][a] \in Nat /\ claims[a][s] \in Nat
        BY EngineIsNoAccount DEF Ledgers, Claims
    <2> QED BY <2>1 DEF EstateIn, Estates
<1> QED
    BY <1>1, <1>2

LEMMA SameEstates ==
    ASSUME NEW e \in Estates, NEW f \in Estates,
           \A a \in Accounts, s \in Stocks : e[a][s] = f[a][s]
    PROVE  e = f
<1>1. \A a \in Accounts : e[a] \in [Stocks -> Int] /\ f[a] \in [Stocks -> Int]
    BY DEF Estates
<1>2. \A a \in Accounts : e[a] = f[a]
    BY <1>1
<1> QED
    BY <1>2 DEF Estates

Credited(e, a, s, n) == [e EXCEPT ![a][s] = @ + n]

LEMMA CreditedIs ==
    ASSUME NEW e \in Estates, NEW a \in Accounts, NEW s \in Stocks, NEW n \in Int
    PROVE  /\ Credited(e, a, s, n) \in Estates
           /\ \A b \in Accounts, t \in Stocks :
                Credited(e, a, s, n)[b][t] = e[b][t] + (IF b = a /\ t = s THEN n ELSE 0)
<1>1. \A b \in Accounts, t \in Stocks : e[b][t] \in Int
    BY DEF Estates
<1>2. \A b \in Accounts, t \in Stocks :
        Credited(e, a, s, n)[b][t] = IF b = a /\ t = s THEN e[b][t] + n ELSE e[b][t]
    BY DEF Estates, Credited
<1>3. Credited(e, a, s, n) \in Estates
    BY <1>1 DEF Estates, Credited
<1> QED
    BY <1>1, <1>2, <1>3

(* A delivery reaches its owner, in hand or as a claim, and nobody else.   *)
LEMMA DeliverCredits ==
    ASSUME skimming = {}, NEW ledger \in Ledgers, claimable \in Claims, NEW s \in Stocks,
           NEW to \in Accounts, NEW amount \in Nat, Deliver(ledger, s, to, amount)
    PROVE  /\ shares' \in Ledgers /\ claimable' \in Claims
           /\ Estate' = Credited(EstateIn(ledger, claimable), to, s, amount)
<1> DEFINE old == EstateIn(ledger, claimable)
           new == EstateIn(shares', claimable')
<1>1. shares' \in Ledgers /\ claimable' \in Claims
    BY DeliverEffect
<1>2. /\ old \in Estates /\ new \in Estates /\ Estate' = new
      /\ \A a \in Accounts, t \in Stocks :
            /\ old[a][t] = ledger[t][a] + claimable[a][t]
            /\ new[a][t] = shares'[t][a] + claimable'[a][t]
            /\ ledger[t][a] \in Nat /\ claimable[a][t] \in Nat
    BY <1>1, EstatesAre
<1>3. \A a \in Accounts, t \in Stocks :
        new[a][t] = old[a][t] + (IF a = to /\ t = s THEN amount ELSE 0)
    <2>1. CASE Transferable(ledger, s, Engine, to, amount)
        <3>1. shares' = AfterTransfer(ledger, s, Engine, to, amount) /\ claimable' = claimable
            BY <2>1 DEF Deliver
        <3>2. amount <= ledger[s][Engine] /\ Arriving(s, amount) = amount
            BY <2>1 DEF Transferable, Arriving
        <3>3. /\ shares'[s][to] = ledger[s][to] + amount
              /\ \A a \in Accounts, t \in Stocks :
                    t # s \/ a # to => shares'[t][a] = ledger[t][a]
            <4>1. /\ shares'[s][to] = ledger[s][to] + Arriving(s, amount)
                  /\ \A t \in Stocks, h \in Holders :
                        t # s \/ h \notin {Engine, to} => shares'[t][h] = ledger[t][h]
                BY <3>1, <3>2, EngineIsNoAccount, TransferEffect
            <4> QED BY <3>2, <4>1, EngineIsNoAccount
        <3> QED BY <1>2, <3>1, <3>3
    <2>2. CASE ~Transferable(ledger, s, Engine, to, amount)
        <3>1. shares' = ledger /\ claimable' = [claimable EXCEPT ![to][s] = @ + amount]
            BY <2>2 DEF Deliver
        <3>2. \A a \in Accounts, t \in Stocks :
                claimable'[a][t] = IF a = to /\ t = s THEN claimable[a][t] + amount
                                   ELSE claimable[a][t]
            BY <3>1 DEF Claims
        <3> HIDE DEF old, new
        <3> QED BY <1>2, <3>1, <3>2
    <2> QED BY <2>1, <2>2
<1> HIDE DEF old, new
<1>4. new = Credited(old, to, s, amount)
    <2>1. /\ Credited(old, to, s, amount) \in Estates
          /\ \A b \in Accounts, t \in Stocks :
                Credited(old, to, s, amount)[b][t]
                  = old[b][t] + (IF b = to /\ t = s THEN amount ELSE 0)
        BY <1>2, CreditedIs
    <2> QED BY <1>2, <1>3, <2>1, SameEstates
<1> QED
    BY <1>1, <1>2, <1>4 DEF old

(* Shares that leave the engine's custody for an account, or enter it.     *)
LEMMA TransferCredits ==
    ASSUME skimming = {}, NEW ledger \in Ledgers, NEW claims \in Claims, NEW s \in Stocks,
           NEW a \in Accounts, NEW amount \in Nat
    PROVE  /\ amount <= ledger[s][Engine] =>
                /\ AfterTransfer(ledger, s, Engine, a, amount) \in Ledgers
                /\ EstateIn(AfterTransfer(ledger, s, Engine, a, amount), claims)
                     = Credited(EstateIn(ledger, claims), a, s, amount)
           /\ amount <= ledger[s][a] =>
                /\ AfterTransfer(ledger, s, a, Engine, amount) \in Ledgers
                /\ EstateIn(AfterTransfer(ledger, s, a, Engine, amount), claims)
                     = Credited(EstateIn(ledger, claims), a, s, -amount)
<1>1. ASSUME NEW new \in Ledgers, NEW n \in Int,
             \A b \in Accounts, t \in Stocks :
                new[t][b] = IF b = a /\ t = s THEN ledger[t][b] + n ELSE ledger[t][b]
      PROVE  EstateIn(new, claims) = Credited(EstateIn(ledger, claims), a, s, n)
    <2> DEFINE e == EstateIn(ledger, claims)
               f == EstateIn(new, claims)
    <2>1. /\ e \in Estates /\ f \in Estates
          /\ \A b \in Accounts, t \in Stocks :
                /\ e[b][t] = ledger[t][b] + claims[b][t]
                /\ f[b][t] = new[t][b] + claims[b][t]
                /\ ledger[t][b] \in Nat /\ claims[b][t] \in Nat
        BY EstatesAre
    <2> HIDE DEF e, f
    <2>2. \A b \in Accounts, t \in Stocks :
            f[b][t] = e[b][t] + (IF b = a /\ t = s THEN n ELSE 0)
        BY <1>1, <2>1
    <2>3. /\ Credited(e, a, s, n) \in Estates
          /\ \A b \in Accounts, t \in Stocks :
                Credited(e, a, s, n)[b][t] = e[b][t] + (IF b = a /\ t = s THEN n ELSE 0)
        BY <1>1, <2>1, CreditedIs
    <2>4. f = Credited(e, a, s, n)
        BY <2>1, <2>2, <2>3, SameEstates
    <2> QED BY <2>4 DEF e, f
<1>2. Arriving(s, amount) = amount /\ Engine \in Holders /\ a \in Holders /\ Engine # a
    BY EngineIsNoAccount DEF Arriving
<1>3. ASSUME amount <= ledger[s][Engine]
      PROVE  /\ AfterTransfer(ledger, s, Engine, a, amount) \in Ledgers
             /\ EstateIn(AfterTransfer(ledger, s, Engine, a, amount), claims)
                  = Credited(EstateIn(ledger, claims), a, s, amount)
    <2> DEFINE new == AfterTransfer(ledger, s, Engine, a, amount)
    <2>1. /\ new \in Ledgers /\ new[s][a] = ledger[s][a] + amount
          /\ \A t \in Stocks, h \in Holders :
                t # s \/ h \notin {Engine, a} => new[t][h] = ledger[t][h]
        BY <1>2, <1>3, TransferEffect
    <2> HIDE DEF new
    <2>2. \A b \in Accounts, t \in Stocks :
            new[t][b] = IF b = a /\ t = s THEN ledger[t][b] + amount ELSE ledger[t][b]
        BY <2>1, EngineIsNoAccount
    <2>3. EstateIn(new, claims) = Credited(EstateIn(ledger, claims), a, s, amount)
        BY <1>1, <2>1, <2>2
    <2> QED BY <2>1, <2>3 DEF new
<1>4. ASSUME amount <= ledger[s][a]
      PROVE  /\ AfterTransfer(ledger, s, a, Engine, amount) \in Ledgers
             /\ EstateIn(AfterTransfer(ledger, s, a, Engine, amount), claims)
                  = Credited(EstateIn(ledger, claims), a, s, -amount)
    <2> DEFINE new == AfterTransfer(ledger, s, a, Engine, amount)
    <2>1. /\ new \in Ledgers /\ new[s][a] = ledger[s][a] - amount
          /\ \A t \in Stocks, h \in Holders :
                t # s \/ h \notin {a, Engine} => new[t][h] = ledger[t][h]
        BY <1>2, <1>4, TransferEffect
    <2> HIDE DEF new
    <2>2. ledger[s][a] \in Nat /\ ledger[s][a] - amount = ledger[s][a] + (-amount)
        BY <1>2 DEF Ledgers
    <2>3. \A b \in Accounts, t \in Stocks :
            new[t][b] = IF b = a /\ t = s THEN ledger[t][b] + (-amount) ELSE ledger[t][b]
        BY <2>1, <2>2, EngineIsNoAccount
    <2>4. EstateIn(new, claims) = Credited(EstateIn(ledger, claims), a, s, -amount)
        BY <1>1, <2>1, <2>3
    <2> QED BY <2>1, <2>4 DEF new
<1> QED
    BY <1>3, <1>4

LEMMA IncomeIsEarned ==
    /\ IInv => Income = earned /\ earned \in Nat
    /\ IInv' => Income' = earned' /\ earned' \in Nat
<1>1. Pool \in Holders
    BY EngineIsNoAccount DEF Pool, Engine
<1>2. ASSUME IInv PROVE Income = earned /\ earned \in Nat
    <2>1. stable[Pool] \in Nat /\ outstanding \in Nat /\ earned \in Nat /\ contributed \in Int
        BY <1>1, <1>2 DEF IInv, TypeOK, PoolTypeOK
    <2>2. stable[Pool] + outstanding = contributed + earned
        BY <1>2 DEF IInv, Books, PoolIsWhole
    <2> QED BY <2>1, <2>2 DEF Income
<1>3. ASSUME IInv' PROVE Income' = earned' /\ earned' \in Nat
    <2>1. /\ stable'[Pool] \in Nat /\ outstanding' \in Nat /\ earned' \in Nat
          /\ contributed' \in Int
        BY <1>1, <1>3 DEF IInv, TypeOK, PoolTypeOK
    <2>2. stable'[Pool] + outstanding' = contributed' + earned'
        BY <1>3 DEF IInv, Books, PoolIsWhole
    <2> QED BY <2>1, <2>2 DEF Income
<1> QED
    BY <1>2, <1>3

-----------------------------------------------------------------------------
(* The steps.                                                              *)

LEMMA OpenIsALend ==
    ASSUME IInv, skimming = {},
           NEW b \in Borrowers, NEW s \in Stocks, NEW sh \in ShareAmounts, NEW m \in Merchants,
           NEW ref \in OrderRefs, NEW amount \in BorrowAmounts, NEW tenor \in Tenors,
           OpenLoan(b, s, sh, m, ref, amount, tenor)
    PROVE  Promise!Lend
<1> DEFINE usd  == print[s].usdPerShare
           open == print[s].marketOpen
           charge == FeeFor(amount, tenor, fees)
           l == [borrower |-> b, merchant |-> m, stock |-> s, shares |-> sh,
                 principal |-> amount, fee |-> charge,
                 openedAt |-> now, dueAt |-> now + tenor,
                 openPrice |-> usd, openedWhileClosed |-> ~open, status |-> "Active"]
           p == PledgeOf(l)
<1>1. /\ b \in Accounts /\ sh \in Nat /\ sh # 0 /\ amount \in Nat /\ amount # 0 /\ tenor \in Nat
    BY EngineAssumption DEF OpenLoan
<1>2. /\ loans \in Seq(Loan) /\ risk \in RiskParams /\ ValidRisk(risk) /\ fees \in FeeParams
      /\ now \in Nat /\ usd \in Nat /\ open \in BOOLEAN /\ shares \in Ledgers
      /\ claimable \in Claims
    BY DEF IInv, TypeOK, BookTypeOK, ParamTypeOK, OracleTypeOK, TokenTypeOK, Price,
           Ledgers, Claims
<1>3. /\ loans' = Append(loans, l) /\ amount + charge <= Allowed(sh, usd, open, risk)
      /\ sh <= shares[s][b] /\ shares' = AfterTransfer(shares, s, b, Engine, sh)
      /\ claimable' = claimable /\ Draw(m, amount)
    BY DEF OpenLoan, WithinCeiling, Transferable
<1>4. UNCHANGED <<now, oracleVars, paramVars>>
    BY DEF OpenLoan
<1>5. IInv'
    BY OpenKeepsBooks
<1>6. charge \in Nat
    BY <1>1, <1>2, FeeIsNatural
<1>7. /\ l.borrower = b /\ l.stock = s /\ l.shares = sh /\ l.fee = charge
      /\ l.dueAt = now + tenor /\ l.status = "Active" /\ Debt(l) = amount + charge
    BY DEF Debt
<1> HIDE DEF l
<1>8. l \in Loan
    <2>1. loans' \in Seq(Loan) /\ Len(loans') = Len(loans) + 1 /\ loans'[Len(loans) + 1] = l
        BY <1>2, <1>3, <1>5 DEF IInv, TypeOK, BookTypeOK
    <2>2. Len(loans) + 1 \in 1..Len(loans')
        BY <1>2, <2>1
    <2> QED BY <2>1, <2>2
<1>9. Pledges' = Append(Pledges, p)
    BY <1>2, <1>3, <1>8, PledgesAre, PledgesAfterOpen
<1>10. /\ Len(Pledges) = Len(loans) /\ Len(loans) \in Nat
       /\ Len(Pledges') = Len(loans) + 1 /\ Pledges'[Len(loans) + 1] = p
    <2>1. /\ Len(loans') = Len(loans) + 1 /\ loans'[Len(loans) + 1] = l /\ Len(loans) \in Nat
          /\ loans' \in Seq(Loan)
        BY <1>2, <1>3, <1>8
    <2>2. Len(PledgesOf(loans)) = Len(loans) /\ Len(PledgesOf(loans')) = Len(loans')
        BY <1>2, <2>1, PledgesAreASequence
    <2>3. PledgesOf(loans')[Len(loans) + 1] = p
        <3>1. Len(loans) + 1 \in 1..Len(loans')
            BY <2>1
        <3>2. PledgesOf(loans')[Len(loans) + 1] = PledgeOf(loans'[Len(loans) + 1])
            BY <2>1, <3>1, PledgesAreASequence
        <3> QED BY <2>1, <3>2
    <2> QED BY <2>1, <2>2, <2>3, PledgesAre
<1>11. /\ p.owner = b /\ p.stock = s /\ p.shares = sh /\ p.owed = amount + charge
       /\ p.fee = charge /\ p.due = now + tenor /\ p.state = "open"
    BY <1>7, PledgeFields DEF StateOf
<1> HIDE DEF p, charge
<1>12. Promise!Covered(p)
    <2>1. (amount + charge) * Bps * (ShareUnit * PriceUnit)
            <= sh * usd * StableUnit * risk.maxLtvBps
        <3>1. amount + charge \in Nat
            BY <1>1, <1>6
        <3> QED BY <1>1, <1>2, <1>3, <3>1, AllowedIsCovered
    <2>2. Marks[s] = usd /\ Terms.ceiling = risk.maxLtvBps
        BY DEF Marks, Terms
    <2> QED BY <1>11, <2>1, <2>2 DEF Promise!Covered, Promise!Worth, Promise!Whole, Bps
<1>13. Promise!Fresh(p)
    <2>1. p.shares \in Nat \ {0} /\ p.owed \in Nat \ {0} /\ p.fee \in Nat /\ p.due >= now
        BY <1>1, <1>2, <1>6, <1>11
    <2> QED BY <1>1, <1>11, <1>12, <2>1 DEF Promise!Fresh
<1>14. Estate' = Promise!Given(Estate, p.owner, p.stock, -p.shares)
    <2>1. Estate' = Credited(Estate, b, s, -sh)
        BY <1>1, <1>2, <1>3, EstatesAre, TransferCredits
    <2> QED BY <1>11, <2>1 DEF Credited, Promise!Given
<1>15. UNCHANGED <<now, Marks, Terms, Income>>
    <2>1. now' = now /\ print' = print /\ risk' = risk
        BY <1>4 DEF oracleVars, paramVars
    <2>2. earned' = earned
        BY <1>3 DEF Draw
    <2> QED BY <1>5, <2>1, <2>2, IncomeIsEarned DEF Marks, Terms
<1>16. Len(Pledges') = Len(Pledges) + 1 /\ p \in {Pledges'[Len(Pledges) + 1]}
    BY <1>10
<1> QED
    BY <1>9, <1>13, <1>14, <1>15, <1>16 DEF Promise!Lend

(* What every exit does to the pledges, the clock and the lender.          *)
LEMMA CloseEnds ==
    ASSUME IInv, IInv', NEW id \in LoanIds, NEW payer \in Accounts,
           NEW outcome \in Status, outcome # "Active", CloseLoan(id, payer, outcome)
    PROVE  /\ id \in 1..Len(Pledges) /\ Pledges[id] = PledgeOf(loans[id])
           /\ Promise!Ends(id, StateOf(outcome))
<1>1. /\ loans \in Seq(Loan) /\ id \in 1..Len(loans) /\ loans[id].status = "Active"
      /\ loans' = WithStatus(loans, id, outcome)
    BY DEF IInv, TypeOK, BookTypeOK, LoanIds, CloseLoan, WithStatus
<1>2. id \in 1..Len(Pledges) /\ Pledges[id] = PledgeOf(loans[id])
    BY <1>1, PledgesAre, PledgesAreASequence
<1>3. Pledges[id].state = "open" /\ Pledges[id].fee = loans[id].fee
    BY <1>1, <1>2, PledgeFields DEF StateOf
<1>4. Pledges' = [Pledges EXCEPT ![id].state = StateOf(outcome)]
    BY <1>1, PledgesAre, PledgesAfterClose
<1>5. Income' = Income + Pledges[id].fee
    <2>1. earned' = earned + loans[id].fee
        BY CloseEffect
    <2> QED BY <1>3, <2>1, IncomeIsEarned
<1>6. UNCHANGED <<now, Marks, Terms>>
    <2>1. UNCHANGED <<now, oracleVars, paramVars>>
        BY DEF CloseLoan
    <2>2. now' = now /\ print' = print /\ risk' = risk
        BY <2>1 DEF oracleVars, paramVars
    <2> QED BY <2>2 DEF Marks, Terms
<1> QED
    BY <1>2, <1>3, <1>4, <1>5, <1>6 DEF Promise!Ends

LEMMA ExitIsAReturn ==
    ASSUME IInv, IInv', skimming = {}, NEW id \in LoanIds, NEW payer \in Accounts,
           NEW outcome \in {"Repaid", "Refunded"}, CloseLoan(id, payer, outcome),
           Deliver(shares, loans[id].stock, loans[id].borrower, loans[id].shares)
    PROVE  id \in 1..Len(Pledges) /\ Promise!Return(id)
<1>1. outcome \in Status /\ outcome # "Active" /\ StateOf(outcome) = "returned"
    BY DEF Status, StateOf
<1>2. /\ id \in 1..Len(Pledges) /\ Pledges[id] = PledgeOf(loans[id])
      /\ Promise!Ends(id, "returned")
    BY <1>1, CloseEnds
<1>3. /\ loans[id].stock \in Stocks /\ loans[id].borrower \in Accounts
      /\ loans[id].shares \in Nat /\ shares \in Ledgers /\ claimable \in Claims
    BY LoanFields DEF IInv, TypeOK, BookTypeOK, TokenTypeOK, LoanIds, Ledgers, Claims
<1>4. Estate' = Credited(Estate, loans[id].borrower, loans[id].stock, loans[id].shares)
    BY <1>3, DeliverCredits, EstatesAre
<1>5. Estate' = Promise!Given(Estate, Pledges[id].owner, Pledges[id].stock, Pledges[id].shares)
    BY <1>2, <1>4, PledgeFields DEF Credited, Promise!Given
<1> QED
    BY <1>2, <1>5 DEF Promise!Return

LEMMA LiquidateIsASale ==
    ASSUME IInv, IInv', OwesSomething, skimming = {},
           NEW id \in LoanIds, NEW a \in Liquidators, Liquidate(a, id)
    PROVE  /\ id \in 1..Len(Pledges) /\ a \in Accounts
           /\ \E n \in 0..Pledges[id].shares : Promise!Sell(id, a, n)
<1> DEFINE l        == loans[id]
           usd      == print[l.stock].usdPerShare
           wanted   == SharesToSeize(Debt(l), usd, risk)
           seized   == IF wanted >= l.shares THEN l.shares ELSE wanted
           ledger   == AfterTransfer(shares, l.stock, Engine, a, seized)
           p        == Pledges[id]
<1>1. /\ IsLiquidatable(id)
      /\ CloseLoan(id, a, "Liquidated")
      /\ Transferable(shares, l.stock, Engine, a, seized)
      /\ Deliver(ledger, l.stock, l.borrower, l.shares - seized)
    BY DEF Liquidate
<1>2. /\ a \in Accounts /\ "Liquidated" \in Status /\ "Liquidated" # "Active"
      /\ StateOf("Liquidated") = "sold"
    BY EngineAssumption DEF Status, StateOf
<1>3. id \in 1..Len(Pledges) /\ p = PledgeOf(l) /\ Promise!Ends(id, "sold")
    BY <1>1, <1>2, CloseEnds
<1>4. /\ loans \in Seq(Loan) /\ id \in 1..Len(loans) /\ shares \in Ledgers
      /\ claimable \in Claims /\ risk \in RiskParams /\ now \in Nat
    BY DEF IInv, TypeOK, BookTypeOK, TokenTypeOK, ParamTypeOK, OracleTypeOK,
           LoanIds, Ledgers, Claims
<1>5. /\ l.stock \in Stocks /\ l.borrower \in Accounts /\ l.shares \in Nat
    BY <1>4, LoanFields
<1>6. usd \in Positive
    BY <1>1, <1>5 DEF IsLiquidatable, Fresh, Priced, Positive, IInv, TypeOK, OracleTypeOK, Price
<1>7. Debt(l) \in Positive /\ Debt(l) \in Nat
    BY DEF OwesSomething, Positive
<1>8. Marks[l.stock] = usd /\ Terms.threshold = risk.liquidationThresholdBps
      /\ Terms.bonus = risk.liquidationBonusBps
    BY <1>5 DEF Marks, Terms
<1>9. now > l.dueAt \/ HealthFactor(l.shares, usd, Debt(l), risk) < Wad
    BY <1>1 DEF IsLiquidatable, Overdue, Health
<1>10. /\ p.owner = l.borrower /\ p.stock = l.stock /\ p.shares = l.shares
       /\ p.owed = Debt(l) /\ p.due = l.dueAt
    BY <1>3, PledgeFields
<1> HIDE DEF l, usd, p
<1>11. wanted \in Nat
    BY <1>4, <1>6, <1>7, SeizureIsBounded
<1> HIDE DEF wanted
<1>12. seized \in Nat /\ l.shares - seized \in Nat /\ seized <= wanted /\ seized \in 0..l.shares
    BY <1>5, <1>11
<1> HIDE DEF seized
<1>13. Promise!Late(p) \/ Promise!Sunk(p)
    <2>1. CASE now > l.dueAt
        BY <1>10, <2>1 DEF Promise!Late
    <2>2. CASE HealthFactor(l.shares, usd, Debt(l), risk) < Wad
        <3>1. l.shares * usd * StableUnit * risk.liquidationThresholdBps
                < (Debt(l) * Bps + risk.liquidationThresholdBps) * (ShareUnit * PriceUnit)
            <4>1. usd \in Nat
                BY <1>6 DEF Positive
            <4> QED BY <1>4, <1>5, <1>7, <2>2, <4>1, UnhealthyIsSunk
        <3> QED
            BY <1>8, <1>10, <3>1 DEF Promise!Sunk, Promise!Worth, Promise!Whole, Bps
    <2> QED BY <1>9, <2>1, <2>2
<1>14. Promise!Fair(p, seized)
    <2>1. seized * usd * StableUnit * Bps
            <= Debt(l) * (Bps + risk.liquidationBonusBps) * ShareUnit * PriceUnit
        BY <1>4, <1>6, <1>7, <1>12, SeizureWorth DEF wanted
    <2>2. Debt(l) * (Bps + risk.liquidationBonusBps) * ShareUnit * PriceUnit
            = Debt(l) * (Bps + risk.liquidationBonusBps) * (ShareUnit * PriceUnit)
        <3> DEFINE x == Debt(l) * (Bps + risk.liquidationBonusBps)
        <3>1. x \in Nat
            <4>1. Bps + risk.liquidationBonusBps \in Nat
                BY <1>4 DEF RiskParams, Bps
            <4> QED BY <1>7, <4>1, ProductIsNatural
        <3> HIDE DEF x
        <3>2. x * ShareUnit * PriceUnit = x * (ShareUnit * PriceUnit)
            BY <3>1, ScaleAssumption DEF Positive
        <3> QED BY <3>2 DEF x
    <2> QED BY <1>8, <1>10, <2>1, <2>2 DEF Promise!Fair, Promise!Worth, Promise!Whole, Bps
<1>15. Estate' = Promise!Given(Promise!Given(Estate, a, p.stock, seized),
                               p.owner, p.stock, p.shares - seized)
    <2>1. seized <= shares[l.stock][Engine]
        BY <1>1 DEF Transferable
    <2>2. /\ ledger \in Ledgers
          /\ EstateIn(ledger, claimable) = Credited(Estate, a, l.stock, seized)
        BY <1>2, <1>4, <1>5, <1>12, <2>1, TransferCredits, EstatesAre
    <2> HIDE DEF ledger
    <2>3. Estate' = Credited(EstateIn(ledger, claimable), l.borrower, l.stock, l.shares - seized)
        BY <1>1, <1>4, <1>5, <1>12, <2>2, DeliverCredits
    <2>4. Estate' = Credited(Credited(Estate, a, p.stock, seized), p.owner, p.stock,
                             p.shares - seized)
        BY <1>10, <2>2, <2>3
    <2> QED BY <2>4 DEF Credited, Promise!Given
<1>16. seized \in 0..p.shares
    BY <1>10, <1>12
<1>17. Promise!Sell(id, a, seized)
    BY <1>3, <1>13, <1>14, <1>15, <1>16 DEF Promise!Sell, p
<1> QED
    BY <1>2, <1>3, <1>16, <1>17 DEF p

LEMMA ClaimIsSilent ==
    ASSUME IInv, IInv', skimming = {}, NEW a \in Accounts, NEW s \in Stocks, Claim(a, s)
    PROVE  UNCHANGED <<now, Marks, Terms, Pledges, Estate, Income>>
<1> DEFINE amount == claimable[a][s]
           after  == AfterTransfer(shares, s, Engine, a, amount)
<1>1. /\ amount <= shares[s][Engine] /\ shares' = after
      /\ claimable' = WithClaim(claimable, a, s, 0)
      /\ UNCHANGED <<now, oracleVars, poolVars, loans, paramVars>>
    BY DEF Claim, WithClaim, Transferable
<1>2. shares \in Ledgers /\ claimable \in Claims /\ amount \in Nat
    BY DEF IInv, TypeOK, TokenTypeOK, BookTypeOK, Ledgers, Claims
<1>3. /\ claimable' \in Claims
      /\ \A b \in Accounts, t \in Stocks :
            claimable'[b][t] = IF b = a /\ t = s THEN 0 ELSE claimable[b][t]
    BY <1>1, <1>2 DEF Claims, WithClaim
<1>4. after \in Ledgers /\ EstateIn(after, claimable) = Credited(Estate, a, s, amount)
    BY <1>1, <1>2, TransferCredits, EstatesAre
<1> HIDE DEF after
<1>5. /\ Estate \in Estates /\ Estate' \in Estates
      /\ Credited(Estate, a, s, amount) \in Estates
      /\ \A b \in Accounts, t \in Stocks :
            /\ Estate[b][t] = shares[t][b] + claimable[b][t]
            /\ Estate'[b][t] = after[t][b] + claimable'[b][t]
            /\ after[t][b] + claimable[b][t]
                 = Estate[b][t] + (IF b = a /\ t = s THEN amount ELSE 0)
            /\ shares[t][b] \in Nat /\ claimable[b][t] \in Nat /\ after[t][b] \in Nat
    <2>1. /\ Estate \in Estates
          /\ \A b \in Accounts, t \in Stocks :
                /\ Estate[b][t] = shares[t][b] + claimable[b][t]
                /\ shares[t][b] \in Nat /\ claimable[b][t] \in Nat
        BY <1>2, EstatesAre
    <2>2. /\ Estate' \in Estates
          /\ \A b \in Accounts, t \in Stocks :
                /\ Estate'[b][t] = after[t][b] + claimable'[b][t]
                /\ after[t][b] \in Nat
        BY <1>1, <1>3, <1>4, EstatesAre
    <2>3. /\ Credited(Estate, a, s, amount) \in Estates
          /\ \A b \in Accounts, t \in Stocks :
                Credited(Estate, a, s, amount)[b][t]
                  = Estate[b][t] + (IF b = a /\ t = s THEN amount ELSE 0)
        <3>1. amount \in Int
            BY <1>2
        <3> HIDE DEF amount
        <3> QED BY <2>1, <3>1, CreditedIs
    <2>4. \A b \in Accounts, t \in Stocks :
            EstateIn(after, claimable)[b][t] = after[t][b] + claimable[b][t]
        BY <1>2, <1>4, EstatesAre
    <2> QED BY <1>4, <2>1, <2>2, <2>3, <2>4
<1>6. \A b \in Accounts, t \in Stocks : Estate'[b][t] = Estate[b][t]
    BY <1>3, <1>5
<1>7. Estate' = Estate
    BY <1>5, <1>6, SameEstates
<1>8. now' = now /\ print' = print /\ risk' = risk /\ earned' = earned /\ loans' = loans
    BY <1>1 DEF oracleVars, poolVars, paramVars
<1> QED
    BY <1>7, <1>8, IncomeIsEarned, PledgesAre DEF Marks, Terms

(* Every other step moves at most the clock, the prints or the terms.      *)
LEMMA OthersKeepPledges ==
    ASSUME IInv, IInv', [Next]_vars, ~Engaged
    PROVE  \/ Promise!Elapse \/ Promise!Quote \/ Promise!Retune
           \/ UNCHANGED <<now, Marks, Terms, Pledges, Estate, Income>>
<1>1. UNCHANGED <<loans, shares, claimable, earned>>
    <2>1. PoolNext => earned' = earned
        BY DEF PoolNext, Fund, Withdraw, SetEngine
    <2>2. TokenNext => shares' = shares
        BY DEF TokenNext, SetBlocked, SetSkimming
    <2>3. CASE EngineAdmin
        BY <2>3 DEF EngineAdmin, poolVars, tokenVars, bookVars
    <2>4. CASE ~EngineAdmin
        BY <2>1, <2>2, <2>4 DEF Next, SetOracle, SequencerStatus, vars, poolVars, tokenVars, bookVars
    <2> QED BY <2>3, <2>4
<1>2. UNCHANGED <<Pledges, Estate, Income>>
    BY <1>1, IncomeIsEarned, PledgesAre, EstatesAre
<1>3. /\ now' = now => \/ risk' = risk \/ print' = print
      /\ now' # now => now' = now + 1 /\ risk' = risk /\ print' = print
    <2>1. CASE EngineAdmin
        BY <2>1 DEF EngineAdmin, oracleVars
    <2>2. CASE OracleNext /\ UNCHANGED paramVars
        BY <2>2 DEF OracleNext, PostPrice, PostPriceOverride, Store, SetRelayer, SetMaxAge,
                    SetMaxDeviation, Tick, oracleVars, paramVars
    <2>3. CASE ~EngineAdmin /\ ~(OracleNext /\ UNCHANGED paramVars)
        BY <2>3 DEF Next, SetOracle, SequencerStatus, vars, oracleVars, paramVars
    <2> QED BY <2>1, <2>2, <2>3
<1>4. (print' = print => Marks' = Marks) /\ (risk' = risk => Terms' = Terms)
    BY DEF Marks, Terms
<1> QED
    BY <1>2, <1>3, <1>4 DEF Promise!Elapse, Promise!Quote, Promise!Retune

LEMMA InitPledges == Init => Promise!Init
<1> SUFFICES ASSUME Init PROVE Promise!Init
    OBVIOUS
<1>1. now = 0 /\ loans = <<>> /\ earned = 0
    BY DEF Init, OracleInit, PoolInit
<1>2. Pledges = <<>>
    BY <1>1 DEF Pledges, LoanIds
<1>3. Income = 0 /\ Estate \in [Accounts -> [Stocks -> Nat]]
    <2>1. IInv
        BY InitBalances
    <2>2. shares \in Ledgers /\ claimable \in Claims
        BY <2>1 DEF IInv, TypeOK, TokenTypeOK, BookTypeOK, Ledgers, Claims
    <2> QED BY <1>1, <2>1, <2>2, IncomeIsEarned, EstatesAre
<1> QED
    BY <1>1, <1>2, <1>3 DEF Promise!Init

LEMMA StepKeepsPledge ==
    ASSUME IInv, OwesSomething, skimming = {}, [Next]_vars
    PROVE  [Promise!Next]_(Promise!vars)
<1>1. IInv'
    BY NextBalances
<1>2. CASE \E b \in Borrowers, s \in Stocks, sh \in ShareAmounts, m \in Merchants,
              ref \in OrderRefs, amount \in BorrowAmounts, tenor \in Tenors :
              OpenLoan(b, s, sh, m, ref, amount, tenor)
    <2>1. Promise!Lend
        BY <1>2, OpenIsALend
    <2> QED BY <2>1 DEF Promise!Next
<1>3. CASE \E id \in LoanIds, a \in Accounts : Repay(a, id) \/ Refund(a, id)
    <2>1. PICK id \in LoanIds, a \in Accounts : Repay(a, id) \/ Refund(a, id)
        BY <1>3
    <2>2. PICK outcome \in {"Repaid", "Refunded"} :
            /\ CloseLoan(id, a, outcome)
            /\ Deliver(shares, loans[id].stock, loans[id].borrower, loans[id].shares)
        BY <2>1 DEF Repay, Refund
    <2>3. id \in 1..Len(Pledges) /\ Promise!Return(id)
        BY <1>1, <2>2, ExitIsAReturn
    <2> QED BY <2>3 DEF Promise!Next
<1>4. CASE \E id \in LoanIds, a \in Liquidators : Liquidate(a, id)
    <2>1. PICK id \in LoanIds, a \in Liquidators : Liquidate(a, id)
        BY <1>4
    <2>2. /\ id \in 1..Len(Pledges) /\ a \in Accounts
          /\ \E n \in 0..Pledges[id].shares : Promise!Sell(id, a, n)
        BY <1>1, <2>1, LiquidateIsASale
    <2> QED BY <2>2 DEF Promise!Next
<1>5. CASE \E a \in Accounts, s \in Stocks : Claim(a, s)
    <2>1. UNCHANGED <<now, Marks, Terms, Pledges, Estate, Income>>
        BY <1>1, <1>5, ClaimIsSilent
    <2> QED BY <2>1 DEF Promise!vars
<1>6. CASE ~Engaged
    <2>1. \/ Promise!Elapse \/ Promise!Quote \/ Promise!Retune
          \/ UNCHANGED <<now, Marks, Terms, Pledges, Estate, Income>>
        BY <1>1, <1>6, OthersKeepPledges
    <2> QED BY <2>1 DEF Promise!Next, Promise!vars
<1> QED
    BY <1>2, <1>3, <1>4, <1>5, <1>6 DEF Engaged

(* The engine, its pool and its stock token keep the promise of            *)
(* PledgedCredit for every account, stock, scale, price and parameter the  *)
(* setters accept, as long as no token charges for transfers.              *)
THEOREM EngineKeepsPledge == ASSUME SkimChoices = {} PROVE Spec => KeepsPledge
<1>1. IInv /\ OwesSomething /\ skimming = {} /\ [Next]_vars => [Promise!Next]_(Promise!vars)
    BY StepKeepsPledge
<1> QED
    BY <1>1, InitPledges, AlwaysOwes, NoSkimming, PTL DEF Spec, KeepsPledge, Promise!Spec

=============================================================================
