----------------------------- MODULE SolanaCredit -----------------------------
(***************************************************************************)
(* The credit line of the Polaris program: profile, collateral, loans.  It *)
(* differs from the X Layer engine in who may pull what: anybody may       *)
(* collect, but only the instalment that is due; only the borrower's own   *)
(* signature pays any other amount.                                        *)
(***************************************************************************)
EXTENDS SolanaProtocol, PrefixSums, Sequences

CONSTANTS
    Grace,
    LimitUnit,                      \* one dollar of the limits
    Principals, Counts, Intervals,  \* what a checkout may ask for
    RepayAmounts, LockAmounts,
    Evidence,                       \* the attestations an underwriter may make
    MaxLoans                        \* bound on the number of loans

ASSUME CreditAssumption ==
    /\ Grace \in Nat
    /\ LimitUnit \in Nat \ {0} /\ MaxLoans \in Nat
    /\ Principals \subseteq Nat /\ Counts \subseteq Nat /\ Intervals \subseteq Nat
    /\ RepayAmounts \subseteq Nat /\ LockAmounts \subseteq Nat
    /\ Evidence \subseteq [age : Nat, txs : Nat, accounts : Nat, hundreds : Nat]

VARIABLES
    profile,                \* the wallet's credit profile
    loans                   \* the sequence of every loan

creditVars == <<profile, loans>>

MinScore == 300
MaxScore == 850
StartingScore == 600
OnTimeBonus == 12
LatePenalty == 40
DefaultPenalty == 150
MaxInstallments == 24
InterestRateBps == 1000
ProtocolFeeBps == 2000

NoEvidence == [age |-> 0, txs |-> 0, accounts |-> 0, hundreds |-> 0]

CreditTypeOK ==
    /\ profile \in
          [seen : BOOLEAN, score : 0..MaxScore,
           onTime : Nat, late : Nat, liquidations : Nat,
           debt : Nat, locked : Nat, seized : Nat,
           underwritten : BOOLEAN, evidence : Evidence \cup {NoEvidence}]
    /\ loans \in Seq(
          [order : Orders, principal : Nat, owed : Nat, repaid : Nat,
           count : 1..MaxInstallments, paid : 0..MaxInstallments,
           started : 0..MaxTime, interval : Nat,
           status : {"active", "repaid", "liquidated"}])

CreditInit ==
    /\ profile =
          [seen |-> FALSE, score |-> 0, onTime |-> 0, late |-> 0, liquidations |-> 0,
           debt |-> 0, locked |-> 0, seized |-> 0,
           underwritten |-> FALSE, evidence |-> NoEvidence]
    /\ loans = <<>>

LoanIds == 1..Len(loans)
Financed(order) == \E id \in LoanIds : loans[id].order = order
Remaining(l) == Less(l.owed, l.repaid)

(* seed_if_new                                                             *)
Seeded == IF profile.seen THEN profile ELSE [profile EXCEPT !.seen = TRUE, !.score = StartingScore]

Adjusted(score, delta) ==
    IF score + delta < MinScore THEN MinScore
    ELSE IF score + delta > MaxScore THEN MaxScore ELSE score + delta

-----------------------------------------------------------------------------
(* Underwriting the first loan from what is public about the wallet.       *)
UnderwritingFloor == 520

(* A signal's worth.  The quotient is cast to 16 bits before it is capped. *)
Points(n, rate, cap) == Lower(Lower((n % 65536) * rate, 65535), cap)

UnderwriteFrom(e) ==
    Adjusted(UnderwritingFloor,
        Points(e.age \div 30, 2, 60) + Points(e.txs \div 25, 1, 50)
        + Points(e.accounts, 2, 40) + Points(e.hundreds, 1, 50))

IsUnproven(p) ==
    /\ p.onTime = 0 /\ p.late = 0 /\ p.liquidations = 0
    /\ p.debt = 0 /\ ~p.underwritten

(* By the underwriter, from evidence read within the last quarter hour.    *)
Underwrite(e) ==
    /\ IsUnproven(Seeded)
    /\ profile' = [Seeded EXCEPT !.score = UnderwriteFrom(e), !.underwritten = TRUE,
                                 !.evidence = e]
    /\ UNCHANGED <<clusterVars, protocolVars, loans>>

-----------------------------------------------------------------------------
LockCollateral(amount) ==
    /\ amount > 0 /\ Payable(amount)
    /\ acct' = Sent(amount)
    /\ profile' = [Seeded EXCEPT !.locked = @ + amount]
    /\ UNCHANGED <<now, protocolVars, loans>>

WithdrawCollateral(amount) ==
    /\ amount > 0 /\ amount <= profile.locked
    /\ profile.debt = 0
    /\ Loads
    /\ profile' = [profile EXCEPT !.locked = @ - amount]
    /\ acct' = [acct EXCEPT !.amount = @ + amount]
    /\ UNCHANGED <<now, protocolVars, loans>>

-----------------------------------------------------------------------------
BaseLimit(score) ==
    LimitUnit * (IF score >= 800 THEN 5000 ELSE IF score >= 740 THEN 2500
                 ELSE IF score >= 670 THEN 1000 ELSE IF score >= 580 THEN 500 ELSE 200)
CreditLimit(p) == BaseLimit(p.score) + (p.locked * multiplier) \div 10000

InterestFor(principal, term) == (principal * InterestRateBps * term) \div (10000 * Year)

\* A slip: the delegation is compared with the new loan alone.
BackedAlone(owed) == Delegated(owed)

(* One delegation backs everything the borrower owes.                      *)
Backed(owed) == Delegated(profile.debt + owed)

CreateLoan(order, principal, count, interval) ==
    LET owed == principal + InterestFor(principal, count * interval)
    IN  /\ Len(loans) < MaxLoans
        /\ principal > 0
        /\ count > 0 /\ count <= MaxInstallments
        /\ MinInterval <= interval /\ interval <= Year
        /\ merchant.active /\ principal <= merchant.cap
        /\ ~Financed(order)
        /\ Seeded.debt + owed <= CreditLimit(Seeded)
        /\ Backed(owed)
        /\ pool.cash >= principal
        /\ loans' = Append(loans,
              [order |-> order, principal |-> principal, owed |-> owed, repaid |-> 0,
               count |-> count, paid |-> 0, started |-> now, interval |-> interval,
               status |-> "active"])
        /\ profile' = [Seeded EXCEPT !.debt = @ + owed]
        /\ pool' = [pool EXCEPT !.cash = @ - principal]
        /\ UNCHANGED <<clusterVars, multiplier, merchant, flows>>

-----------------------------------------------------------------------------
(* The schedule: math.rs, and its copy in the keeper's book.ts.            *)
Threshold(l, k) ==
    IF k = 0 THEN 0
    ELSE IF k >= l.count THEN l.owed
    ELSE (l.owed * k + l.count - 1) \div l.count

InstallmentsEarned(l) ==
    CHOOSE k \in 0..l.count :
        /\ \A j \in 1..k : l.repaid >= Threshold(l, j)
        /\ k = l.count \/ l.repaid < Threshold(l, k + 1)

InstallmentAmount(l) == IF l.paid >= l.count THEN 0 ELSE Less(Threshold(l, l.paid + 1), l.repaid)

\* A slip: the first instalment falls due at the start.
DueFromTheStart(l, index) == l.started + index * l.interval

DueAt(l, index) == l.started + (index + 1) * l.interval

\* A slip: the borrower's next instalment is as good as due.
DueWhenOpen(l) == l.status = "active"

IsDue(l) == l.status = "active" /\ now >= DueAt(l, l.paid)
IsLiquidatable(l) ==
    l.status = "active" /\ l.paid < l.count /\ now > DueAt(l, l.paid) + Grace

FeeOn(l, amount) ==
    (amount * Less(l.owed, l.principal) * ProtocolFeeBps) \div (l.owed * 10000)

\* A slip: every payment is scored.
ScoreEveryPayment(p, onTime, completed) ==
    IF onTime THEN [p EXCEPT !.onTime = @ + 1, !.score = Adjusted(@, OnTimeBonus)]
    ELSE [p EXCEPT !.late = @ + 1, !.score = Adjusted(@, -LatePenalty)]

Scored(p, onTime, completed) ==
    IF ~completed THEN p
    ELSE IF onTime THEN [p EXCEPT !.onTime = @ + 1, !.score = Adjusted(@, OnTimeBonus)]
    ELSE [p EXCEPT !.late = @ + 1, !.score = Adjusted(@, -LatePenalty)]

(* The settlement both payment paths share.                                *)
ApplyRepayment(id, received) ==
    LET l      == loans[id]
        later  == [l EXCEPT !.repaid = @ + received]
        earned == InstallmentsEarned(later)
        onTime == now <= DueAt(l, l.paid) + Grace
    IN  /\ loans' = [loans EXCEPT ![id] =
              [later EXCEPT !.paid = earned,
                            !.status = IF later.repaid >= l.owed THEN "repaid" ELSE @]]
        /\ profile' = Scored([profile EXCEPT !.debt = Less(@, received)], onTime, earned > l.paid)
        /\ pool' = [pool EXCEPT !.cash = @ + received, !.fees = @ + FeeOn(l, received)]

(* Permissionless, and for the instalment that is due.                     *)
Collectable(l) ==
    /\ IsDue(l) /\ l.paid < l.count
    /\ InstallmentAmount(l) > 0
    /\ Delegated(InstallmentAmount(l)) /\ Pullable(InstallmentAmount(l))

Collect(id) ==
    /\ Collectable(loans[id])
    /\ acct' = Pulled(InstallmentAmount(loans[id]))
    /\ ApplyRepayment(id, InstallmentAmount(loans[id]))
    /\ UNCHANGED <<now, multiplier, merchant, flows>>

(* Any amount, signed by the borrower.                                     *)
Repay(id, asked) ==
    LET amount == Lower(asked, Remaining(loans[id]))
    IN  /\ loans[id].status = "active"
        /\ amount > 0 /\ Payable(amount)
        /\ acct' = Sent(amount)
        /\ ApplyRepayment(id, amount)
        /\ UNCHANGED <<now, multiplier, merchant, flows>>

(* Past its grace, and the account it was opened with can be loaded.       *)
Clearable(l) == IsLiquidatable(l) /\ Loads

(* Delegation first, collateral next, the rest is booked as a loss.        *)
Liquidate(id) ==
    LET l      == loans[id]
        take   == Lower(Recoverable, Remaining(l))
        seized == Lower(Remaining(l) - take, profile.locked)
    IN  /\ Clearable(l)
        /\ loans' = [loans EXCEPT ![id].status = "liquidated", ![id].repaid = @ + take + seized]
        /\ acct' = Pulled(take)
        /\ pool' = [pool EXCEPT !.cash = @ + take + seized,
                                !.badDebt = @ + (Remaining(l) - take - seized)]
        /\ profile' = [profile EXCEPT
              !.debt = Less(@, Remaining(l)),
              !.locked = @ - seized, !.seized = @ + seized,
              !.liquidations = @ + 1, !.score = Adjusted(@, -DefaultPenalty)]
        /\ UNCHANGED <<now, multiplier, merchant, flows>>

CreditNext ==
    \/ \E e \in Evidence : Underwrite(e)
    \/ \E amount \in LockAmounts : LockCollateral(amount) \/ WithdrawCollateral(amount)
    \/ \E order \in Orders, principal \in Principals, count \in Counts, interval \in Intervals :
          CreateLoan(order, principal, count, interval)
    \/ \E id \in LoanIds, asked \in RepayAmounts : Repay(id, asked)
    \/ \E id \in LoanIds : Collect(id) \/ Liquidate(id)

=============================================================================
