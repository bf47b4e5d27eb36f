---------------------------- MODULE SolanaKeeper ----------------------------
(***************************************************************************)
(* The crank over the Polaris program (keeper-solana): a pass collects,    *)
(* charges and liquidates, each job from a snapshot it reads when it       *)
(* starts.  A transaction that is refused, lost or late leaves the job to  *)
(* go on; one that lands late is anybody's permissionless instruction.     *)
(***************************************************************************)
EXTENDS SolanaProgram

CONSTANT MaxOutages         \* bound on lost sends and abandoned passes

ASSUME KeeperAssumption == MaxOutages \in Nat

VARIABLES
    job,                    \* the job under way
    batch,                  \* the loans it read and has not tried yet
    outages

keeperVars == <<job, batch, outages>>
vars == <<programVars, keeperVars>>

TheSubscription == 0        \* stands for the subscription in a batch

KeeperTypeOK ==
    /\ job \in {"sleep", "collect", "charge", "liquidate"}
    /\ batch \subseteq Nat /\ outages \in 0..MaxOutages

Init == ProgramInit /\ job = "sleep" /\ batch = {} /\ outages = 0

Due == {id \in LoanIds : IsDue(loans[id])}
Renewals == IF ChargeDueAt(sub, now) THEN {TheSubscription} ELSE {}
Candidates == {id \in LoanIds : IsLiquidatable(loans[id])}

Jobs == <<"collect", "charge", "liquidate">>
Position == IF job = "sleep" THEN 0 ELSE CHOOSE n \in 1..3 : Jobs[n] = job
Found(n) == <<Due, Renewals, Candidates>>[n]

\* A slip: the pass ends before the liquidations.
SkipsLiquidation == {n \in Position + 1..2 : Found(n) # {}}

(* The jobs still to come in this pass that find something to do.          *)
Ahead == {n \in Position + 1..3 : Found(n) # {}}

(* The jobs in their order, each over what it finds when it starts; one    *)
(* that finds nothing is over at once.                                     *)
NextJob ==
    \/ \E n \in Ahead :
          /\ \A k \in Ahead : n <= k
          /\ job' = Jobs[n] /\ batch' = Found(n)
    \/ Ahead = {} /\ job # "sleep" /\ job' = "sleep" /\ batch' = {}

(* Whether the chain would run the job's instruction on it.                *)
Runs(id) ==
    \/ job = "collect" /\ Collectable(loans[id])
    \/ job = "charge" /\ Chargeable
    \/ job = "liquidate" /\ Clearable(loans[id])

Instruction(id) ==
    \/ job = "collect" /\ Collect(id) /\ UNCHANGED billingVars
    \/ job = "charge" /\ ChargeDue /\ UNCHANGED creditVars
    \/ job = "liquidate" /\ Liquidate(id) /\ UNCHANGED billingVars

(* Simulate, send, confirm; a refusal by the simulation or the chain costs *)
(* nothing but the turn.                                                   *)
Execute(id) ==
    /\ batch' = batch \ {id}
    /\ IF Runs(id) THEN Instruction(id) ELSE UNCHANGED programVars
    /\ UNCHANGED <<job, outages>>

KeeperNext ==
    \/ \E id \in batch : Execute(id)
    \/ batch = {} /\ NextJob /\ UNCHANGED <<programVars, outages>>

(* The send is lost, or the pass throws and the next one starts over.      *)
Outage ==
    /\ job # "sleep" /\ outages < MaxOutages
    /\ outages' = outages + 1
    /\ \/ \E id \in batch : batch' = batch \ {id} /\ UNCHANGED job
       \/ job' = "sleep" /\ batch' = {}
    /\ UNCHANGED programVars

Next ==
    \/ Program /\ UNCHANGED keeperVars
    \/ KeeperNext
    \/ Outage

Spec == Init /\ [][Next]_vars

(* watch runs pass after pass until it is stopped.                         *)
FairSpec == Spec /\ WF_vars(KeeperNext)

(* A loan past its grace does not stay so while the account it was opened  *)
(* with exists: a pass collects it back into its schedule or clears it,    *)
(* with or without money, delegation and collateral to clear it from, and  *)
(* whatever the plan's merchant and the cluster do meanwhile.  Once its    *)
(* owner has closed that account nothing is promised.                      *)
OverdueIsResolved ==
    \A id \in 1..MaxLoans :
        (id \in Candidates) ~> (id \notin Candidates \/ ~Loads)

(* The comment at loan.rs:555-557: the recovery is capped, so that no      *)
(* revert would leave a loan permanently un-liquidatable.  So: a loan past *)
(* its grace is always resolved.                                           *)
NeverUnliquidatable ==
    \A id \in 1..MaxLoans :
        (id \in Candidates) ~> (id \notin Candidates)

=============================================================================
