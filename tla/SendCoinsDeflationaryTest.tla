----------------------- MODULE SendCoinsDeflationaryTest -----------------------
(***************************************************************************)
(* The keeper test TestSendCoins_deflationaryCoins (the send-keeper test   *)
(* carried in src/x/bank/types/proposal.go, l.342-418) replayed against    *)
(* the keeper operators of BankKeeper: one sequential test goroutine that  *)
(* sets the params, creates two accounts, funds them and sends, with the   *)
(* test's Require assertions as the property.                              *)
(*                                                                         *)
(* The test calls the keeper directly on its context, with no message     *)
(* handler and no cache-wrapped context around the call: whatever a call   *)
(* writes stays written, its error or not.                                 *)
(***************************************************************************)
EXTENDS BankKeeper

CONSTANTS
    addr1, addr2,   \* the test's two accounts
    MintAcc         \* the mint module account (minttypes.ModuleName)

VARIABLE step       \* how many of the test's calls have returned

testVars == <<vars, step>>

\* sdk.NewDecWithPrec(n, 2) as a fraction of Precision
DecWithPrec2(n) == (n * Precision) \div 100

\* the rule the test installs for foo, whitelisting the mint account both
\* as sender and as recipient
TestRule ==
    [enabled |-> TRUE, whitelistedTo |-> {MintAcc}, whitelistedFrom |-> {MintAcc},
     burnPercent |-> DecWithPrec2(10), liquidityPercent |-> DecWithPrec2(5),
     feeTaxPercent |-> DecWithPrec2(5)]

\* types.DefaultParams() with SupportDeflationary replaced
TestParams == [DefaultParams EXCEPT !.rules = ("foo" :> TestRule)]

\* balances: 100 foo, 50 bar; sendAmt: 50 foo, 25 bar
TestBalances == ("bar" :> 50) @@ ("foo" :> 100)
SendAmt == ("bar" :> 25) @@ ("foo" :> 50)

\* GetAllBalances: the account's non-zero balances as sanitised Coins
AllBalances(s, a) == [d \in {x \in Denoms : s.bal[a][x] # 0} |-> s.bal[a][d]]

\* IterateAccountBalances with a callback that stops after the first coin:
\* the coins it collected, the account's lowest stored denom first
FirstBalances(s, a) ==
    LET held == SelectSeq(DenomOrder, LAMBDA d : s.bal[a][d] # 0)
    IN  [i \in 1..Min({Len(held), 1}) |-> [denom |-> held[i], amount |-> s.bal[a][held[i]]]]

\* simapp.FundAccount: MintCoins into the mint module account (balance and
\* supply grow), then SendCoinsFromModuleToAccount, i.e. SendCoins from it
FundAccount(s, p, addr, amt) ==
    LET minted == [s EXCEPT !.bal[MintAcc] = [d \in Denoms |-> @[d] + AmountOf(amt, d)],
                            !.supply = [d \in Denoms |-> @[d] + AmountOf(amt, d)]]
    IN  SendCoins(minted, p, MintAcc, addr, amt)

\* a keeper call on the test's context: its writes stay, its error is
\* what the test's Require sees
Call(m, r) ==
    /\ msg' = m
    /\ raw' = r.st
    /\ outcome' = r.err
    /\ bank' = r.st
    /\ events' = r.events
    /\ step' = step + 1
    /\ UNCHANGED params

\* a fresh simapp: the bank module account (with the Burner permission)
\* and the mint module account exist, nothing is held
TestInit ==
    /\ bank = [EmptyStore EXCEPT !.acc = {ModuleAcc, MintAcc}]
    /\ params = DefaultParams
    /\ msg = [type |-> "genesis"]
    /\ raw = bank
    /\ outcome = "ok"
    /\ events = <<>>
    /\ step = 0

\* app.BankKeeper.SetParams(ctx, params)
TestSetParams == step = 0 /\ SetParams(TestParams) /\ step' = 1

\* AccountKeeper.SetAccount for addr1 and addr2
TestSetAccounts ==
    /\ step = 1
    /\ Call([type |-> "accounts"], Ok(CreateAccount(CreateAccount(bank, addr1), addr2)))

\* FundAccount(addr2, balances); SendCoins(addr1, addr2, sendAmt) from an
\* empty addr1; FundAccount(addr1, balances); SendCoins again
TestFundAddr2 == step = 2 /\ Call([type |-> "fund", to |-> addr2], FundAccount(bank, params, addr2, TestBalances))
TestSendUnfunded == step = 3 /\ Call([type |-> "send"], SendCoins(bank, params, addr1, addr2, SendAmt))
TestFundAddr1 == step = 4 /\ Call([type |-> "fund", to |-> addr1], FundAccount(bank, params, addr1, TestBalances))
TestSendFunded == step = 5 /\ Call([type |-> "send"], SendCoins(bank, params, addr1, addr2, SendAmt))

TestNext ==
    \/ TestSetParams
    \/ TestSetAccounts
    \/ TestFundAddr2
    \/ TestSendUnfunded
    \/ TestFundAddr1
    \/ TestSendFunded

\* the simapp's denominations in store order, and no vesting accounts
TestDenomOrder == <<"bar", "foo">>
TestLocked == [u \in Users |-> [d \in Denoms |-> 0]]

TestSpec == TestInit /\ [][TestNext]_testVars

-----------------------------------------------------------------------------
(* Property: what the test requires of the keeper.                        *)

(* TestSendCoins_deflationaryCoins' assertions, each checked right after   *)
(* the call it follows: both fundings succeed, the unfunded send fails,    *)
(* addr1 then holds the test's balances; after the funded send addr1      *)
(* holds 50 foo 25 bar, addr2 141 foo 75 bar, the bank module account 4   *)
(* foo, and iterating addr1's balances stops at 25 bar.  SendCoins taxes   *)
(* foo only toward the rule's whitelistedTo, which names the mint account *)
(* alone, and deflationaryCoins cuts by LiquidityPercent.                  *)
TestRequirementsHold ==
    /\ step = 3 => outcome = "ok"
    /\ step = 4 => outcome # "ok"
    /\ step = 5 => outcome = "ok" /\ AllBalances(bank, addr1) = TestBalances
    /\ step = 6 =>
          /\ outcome = "ok"
          /\ AllBalances(bank, addr1) = SendAmt
          /\ AllBalances(bank, addr2) = ("bar" :> 75) @@ ("foo" :> 141)
          /\ AllBalances(bank, ModuleAcc) = ("foo" :> 4)
          /\ FirstBalances(bank, addr1) = <<[denom |-> "bar", amount |-> 25]>>

================================================================================
