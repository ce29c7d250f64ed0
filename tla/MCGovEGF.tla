------------------------------- MODULE MCGovEGF -------------------------------
(***************************************************************************)
(* Two app instances in one process, as two simapp tests or an in-process  *)
(* simulation have; activation heights 0 and 100 (the tests' value); a     *)
(* sdk.Dec base of 100.  The proposals carry the tests' params, a claim    *)
(* ratio of exactly one, and three params each validation step refuses.   *)
(***************************************************************************)
EXTENDS GovEGF

CONSTANTS app1, app2

MCInstances == {app1, app2}
MCHeights == {0, 100}
MCDepositDenoms == {"FX", "stake"}

\* the params TestKeeper_SupportEGFProposalTotDepositProposal sets
TestParams ==
    [initialDeposit |-> [d \in {"stake"} |-> InitialDeposit],
     claimRatio |-> ClaimRatio,
     depositProposalThreshold |-> [d \in {"stake"} |-> EGFDepositProposalThreshold]]

MCParamChoices ==
    {TestParams,
     [TestParams EXCEPT !.claimRatio = DecPrecision],
     [TestParams EXCEPT !.claimRatio = DecPrecision + 1],
     [TestParams EXCEPT !.claimRatio = 0],
     [TestParams EXCEPT !.initialDeposit = [d \in {"stake"} |-> 0]]}

=============================================================================
