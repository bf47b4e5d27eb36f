---------------------------- MODULE ScoreManager ----------------------------
(***************************************************************************)
(* ScoreManager.sol: a score from 300 to 850 that moves on repayments the  *)
(* loan engine reports, and sets how much a borrower may draw.  A profile  *)
(* that was never written reads as the starting score.                     *)
(***************************************************************************)
EXTENDS Addresses

CONSTANTS
    LimitUnit,          \* 1e6, one dollar of the limits
    WriterChoices,      \* subset of BOOLEAN: isWriter[engine]
    BoostChoices        \* subset of BOOLEAN: collateralVault set or not

ASSUME ScoreAssumption ==
    /\ LimitUnit \in Nat
    /\ WriterChoices \subseteq BOOLEAN /\ BoostChoices \subseteq BOOLEAN

VARIABLES
    profile,            \* account -> its record
    engineWrites,       \* isWriter[engine]
    boostRead           \* collateralVault is set

scoreParams == <<engineWrites, boostRead>>
scoreVars == <<profile, scoreParams>>

MinScore == 300
MaxScore == 850
StartingScore == 600
OnTimeBonus == 12
LatePenalty == -40
DefaultPenalty == -150

Profile ==
    [score : MinScore..MaxScore,
     onTimePayments : Nat, latePayments : Nat, liquidations : Nat]
NoProfile ==
    [score |-> StartingScore, onTimePayments |-> 0, latePayments |-> 0, liquidations |-> 0]

ScoreTypeOK ==
    /\ profile \in [Accounts -> Profile]
    /\ engineWrites \in BOOLEAN /\ boostRead \in BOOLEAN

ScoreInit ==
    /\ profile = [a \in Accounts |-> NoProfile]
    /\ engineWrites = TRUE /\ boostRead = TRUE         \* deploy-fixed.js

-----------------------------------------------------------------------------
BaseLimitOf(a) ==
    LET s == profile[a].score
    IN  LimitUnit * (IF s >= 800 THEN 5000 ELSE IF s >= 740 THEN 2500
                     ELSE IF s >= 670 THEN 1000 ELSE IF s >= 580 THEN 500 ELSE 200)

Adjusted(score, delta) ==
    IF score + delta < MinScore THEN MinScore
    ELSE IF score + delta > MaxScore THEN MaxScore
    ELSE score + delta

(* The vault's boost is added only while the owner points at a vault.      *)
CreditLimitOf(a, boost) == BaseLimitOf(a) + (IF boostRead THEN boost ELSE 0)

(* onlyWriter, _touch and _adjust of the three record functions.           *)
RecordOnTimePayment(a) ==
    /\ engineWrites
    /\ profile' = [profile EXCEPT ![a].score = Adjusted(@, OnTimeBonus),
                                  ![a].onTimePayments = @ + 1]
RecordLatePayment(a) ==
    /\ engineWrites
    /\ profile' = [profile EXCEPT ![a].score = Adjusted(@, LatePenalty),
                                  ![a].latePayments = @ + 1]
RecordLiquidation(a) ==
    /\ engineWrites
    /\ profile' = [profile EXCEPT ![a].score = Adjusted(@, DefaultPenalty),
                                  ![a].liquidations = @ + 1]

SetWriter(v) == engineWrites' = v /\ UNCHANGED <<profile, boostRead>>

SetBoostVault(v) == boostRead' = v /\ UNCHANGED <<profile, engineWrites>>

ScoreNext ==
    \/ \E v \in WriterChoices : SetWriter(v)
    \/ \E v \in BoostChoices : SetBoostVault(v)

=============================================================================
