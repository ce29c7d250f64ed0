------------------------------- MODULE GovEGF -------------------------------
(***************************************************************************)
(* The EGF deposit parameters of the gov module                            *)
(* (src/x/gov/types/support_egf_proposal.go) as app instances in one       *)
(* process see them: every instance keeps its own EGFDepositParams in its  *)
(* params store, changed by a parameter-change proposal that SetParamSet   *)
(* validates with validateEGFPDepositParams, while the height from which   *)
(* EGF proposals are supported is the package-level variable               *)
(* SupportEGFProposalBlock that every instance reads and writes.           *)
(*                                                                         *)
(* Amounts are counted in whole deposit tokens (10^18 base units each);    *)
(* validation only asks them to be positive, so the scale changes nothing. *)
(***************************************************************************)
EXTENDS Integers

CONSTANTS
    Instances,      \* app instances in one process (simapp tests, simulations)
    Heights,        \* block heights an instance may set as activation height
    DecPrecision,   \* sdk.Dec fixed-point base: a ratio r means r / DecPrecision
    DepositDenoms,  \* denominations a deposit may name
    ParamChoices    \* EGFDepositParams a parameter-change proposal may carry

ASSUME /\ DecPrecision \in Nat \ {0}
       /\ Heights \subseteq Nat
       /\ "FX" \in DepositDenoms

NotSet == -1

VARIABLES
    supportEGFProposalBlock,  \* the package-level SupportEGFProposalBlock
    configured,   \* instance -> the height it last set, NotSet if none
    observed,     \* instance -> what its last GetEGFProposalSupportBlock returned
    egfParams     \* instance -> its stored EGFDepositParams

vars == <<supportEGFProposalBlock, configured, observed, egfParams>>

\* sdk.Coins.IsValid: valid denoms and positive amounts
IsValidCoins(c) == DOMAIN c \subseteq DepositDenoms /\ \A d \in DOMAIN c : c[d] > 0

\* validateEGFPDepositParams
ValidateEGFPDepositParams(v) ==
    IF ~IsValidCoins(v.initialDeposit) THEN "invalid initial deposit"
    ELSE IF ~(v.claimRatio > 0) THEN "claim ratio must be positive"
    ELSE IF ~(v.claimRatio <= DecPrecision) THEN "claim ratio too large"
    ELSE IF ~IsValidCoins(v.depositProposalThreshold) THEN "invalid deposit proposal threshold"
    ELSE "ok"

\* InitialDeposit, EGFDepositProposalThreshold (whole tokens) and
\* sdk.MustNewDecFromStr(ClaimRatio) for ClaimRatio = "0.1"
InitialDeposit == 1000
EGFDepositProposalThreshold == 100000
ClaimRatio == DecPrecision \div 10

\* DefaultEGFDepositParams
DefaultEGFDepositParams ==
    [initialDeposit |-> [d \in {"FX"} |-> InitialDeposit],
     claimRatio |-> ClaimRatio,
     depositProposalThreshold |-> [d \in {"FX"} |-> EGFDepositProposalThreshold]]

\* every instance starts from the package's initial value and the default
\* params of its gov genesis
Init ==
    /\ supportEGFProposalBlock = 0
    /\ configured = [i \in Instances |-> NotSet]
    /\ observed = [i \in Instances |-> NotSet]
    /\ egfParams = [i \in Instances |-> DefaultEGFDepositParams]

\* SetEGFProposalSupportBlock, called by instance i
SetEGFProposalSupportBlock(i, blockHeight) ==
    /\ supportEGFProposalBlock' = blockHeight
    /\ configured' = [configured EXCEPT ![i] = blockHeight]
    /\ UNCHANGED <<observed, egfParams>>

\* GetEGFProposalSupportBlock, called by instance i
GetEGFProposalSupportBlock(i) ==
    /\ observed' = [observed EXCEPT ![i] = supportEGFProposalBlock]
    /\ UNCHANGED <<supportEGFProposalBlock, configured, egfParams>>

\* a parameter-change proposal on instance i: SetParamSet runs the pair's
\* validator and panics on an error, and the proposal changes nothing
ChangeEGFDepositParams(i, p) ==
    /\ egfParams' = IF ValidateEGFPDepositParams(p) = "ok"
                    THEN [egfParams EXCEPT ![i] = p] ELSE egfParams
    /\ UNCHANGED <<supportEGFProposalBlock, configured, observed>>

Next ==
    \/ \E i \in Instances, h \in Heights : SetEGFProposalSupportBlock(i, h)
    \/ \E i \in Instances : GetEGFProposalSupportBlock(i)
    \/ \E i \in Instances, p \in ParamChoices : ChangeEGFDepositParams(i, p)

Spec == Init /\ [][Next]_vars

-----------------------------------------------------------------------------
(* Properties.                                                             *)

\* the activation height instance i configured, the package's initial 0 if none
OwnHeight(i) == IF configured[i] = NotSet THEN 0 ELSE configured[i]

(* Spec 9: the activation height must not be shared between instances:   *)
(* every GetEGFProposalSupportBlock of an instance returns the height it  *)
(* configured itself.  A package-level variable lets a second instance's  *)
(* SetEGFProposalSupportBlock change what the first one reads.            *)
InstanceSeesOwnActivationHeight ==
    [][ \A i \in Instances :
          GetEGFProposalSupportBlock(i) => observed'[i] = OwnHeight(i) ]_vars

=============================================================================
