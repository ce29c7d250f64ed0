---------------------------- MODULE MCBankKeeper ----------------------------
(***************************************************************************)
(* Two users, two denominations, the bank module account.  Precision is  *)
(* 100.  A percent of 25 cuts one unit off 4 and nothing off 1 or 3; one  *)
(* of 34 cuts one unit off 3, leaving nothing; one of 50 cuts two units   *)
(* off 4 three times, which would leave a negative remainder.             *)
(***************************************************************************)
EXTENDS BankKeeper, TLC

CONSTANTS u1, u2, bankModule, emptyAddr

MCUsers == {u1, u2}
MCDenomOrder == <<"atom", "foo">>
MCPrecision == 100

\* u1 holds one atom that is still vesting
MCLocked == [u \in MCUsers |-> [d \in {"atom", "foo"} |->
                                   IF u = u1 /\ d = "atom" THEN 1 ELSE 0]]

Zero == [d \in {"atom", "foo"} |-> 0]
None == [d \in {} |-> 0]

GenesisBalances ==
    [a \in MCUsers \cup {bankModule} |->
        CASE a = u1 -> [Zero EXCEPT !["atom"] = 5, !["foo"] = 1]
          [] a = u2 -> [Zero EXCEPT !["atom"] = 2]
          [] OTHER  -> Zero]

\* genesis: u1 5 atom 1 foo, u2 2 atom; the liquidity pool records one
\* atom the module account does not hold, which InitGenesis accepts
MCGenesisStates ==
    {[params |-> DefaultParams, balances |-> GenesisBalances,
      liquidityPool |-> ("atom" :> 1), feeTaxPool |-> None, supply |-> None]}

\* the same genesis with empty pools
MCGenesisNoPools ==
    {[params |-> DefaultParams, balances |-> GenesisBalances,
      liquidityPool |-> None, feeTaxPool |-> None, supply |-> None]}

MCSendAmounts == {("atom" :> 1), ("atom" :> 3), ("atom" :> 4) @@ ("foo" :> 1)}

MCMultiEntries ==
    {[address |-> u1, coins |-> ("atom" :> 4)],
     [address |-> u2, coins |-> ("atom" :> 4)],
     [address |-> u2, coins |-> ("atom" :> 1)]}

\* a proposal of a zero coin fails ValidateBasic and is never submitted
MCPoolSpendAmounts == {None, ("atom" :> 1), ("atom" :> 0)}

\* atom sent to u2 is taxed at 25% (burn 10%, fee tax 5% are not used)
TaxAtomToU2 ==
    [enabled |-> TRUE, burnPercent |-> 10, liquidityPercent |-> 25,
     feeTaxPercent |-> 5, whitelistedFrom |-> {}, whitelistedTo |-> {u2}]
\* both denoms sent to a user are taxed at 25% unless u1 sends them
TaxAllButU1 ==
    [enabled |-> TRUE, burnPercent |-> 0, liquidityPercent |-> 25,
     feeTaxPercent |-> 0, whitelistedFrom |-> {u1}, whitelistedTo |-> {u1, u2}]
\* atom sent to a user is taxed at 34%
TaxThird == [TaxAllButU1 EXCEPT !.liquidityPercent = 34, !.whitelistedFrom = {}]
\* atom sent to a user is taxed at 50%
TaxHalf == [TaxThird EXCEPT !.liquidityPercent = 50]

NoOverrides == [d \in {} |-> TRUE]

ParamsWith(rules) == NewParams(TRUE, NoOverrides, rules)

MCParamChoices ==
    {ParamsWith("atom" :> TaxAtomToU2),
     ParamsWith(("atom" :> TaxAllButU1) @@ ("foo" :> TaxAllButU1)),
     SetSendEnabledParam(ParamsWith("atom" :> TaxHalf), "foo", FALSE),
     ParamsWith("atom" :> [TaxAtomToU2 EXCEPT !.feeTaxPercent = 101])}

\* rules whose percents sum to at most one and never leave a negative part
MCParamChoicesFunded ==
    {ParamsWith(("atom" :> TaxAllButU1) @@ ("foo" :> TaxAllButU1)),
     ParamsWith("atom" :> TaxThird)}

=============================================================================
