# TLA+ models of the deflationary bank module

The repository is a Cosmos SDK bank module extended with per-denomination
"deflationary" transfer taxes. This directory holds TLA+ models of it and
the TLC configurations that check them.

## 1. Inventory

### Components and their state

| Component | Source | State it keeps |
|---|---|---|
| Transfer engine (send keeper) | `src/unnamed/part_000` (`SendCoins`, `InputOutputCoins`, `subUnlockedCoins`, `deflationaryCoins`, `addCoins`, `burnCoins`) | None of its own. It reads and writes the stores below. |
| Balance store | `part_000` `setBalance`, `initBalances` | account → denom → amount. A zero balance is a deleted key. |
| Supply tracker | `part_000` `getSupply`/`setSupply` | denom → total supply. Zero is a deleted key. |
| Pool store | `part_000` `get/setLiquidityPool`, `get/setFeeTaxPool`, paginated totals | denom → liquidity pool amount, and denom → fee-tax pool amount. |
| Rule set (params) | `src/x/bank/types/proposal.go` (the file also carries `params.go` and one keeper test) | The default send-enabled flag and per-denom overrides. Per-denom deflationary rules: enabled flag, burn/liquidity/fee-tax percents, whitelistedFrom and whitelistedTo. |
| Pool distribution | `src/unnamed/part_001` `HandleDeflationaryPoolSpendProposal` | None. It calls `DistributeFromDeflationaryPool`, which is not in the sources. |
| Genesis | `src/x/bank/keeper/genesis.go` | Loads params, balances, supply and pools. Exports them again. |
| Gov EGF params | `src/x/gov/types/support_egf_proposal.go` | The package-level activation height `SupportEGFProposalBlock`, shared by every app instance in a process. The deposit params validator and their defaults. |
| Send-keeper test | `proposal.go` l.332-418, `TestSendCoins_deflationaryCoins` | None. It sets a foo rule, funds two accounts and sends between them, then requires the balances the tax should leave. |
| Other tests | `src/x/gov/keeper/proposal_test.go`, `src/crypto/keyring/migration_test.go` | None. |

### Operations and how they interact

- `SendCoins(from, to, amt)` runs these steps in order:
  1. `subUnlockedCoins` debits the sender one coin at a time. Spendable means balance minus locked coins.
  2. `deflationaryCoins` computes the tax on every coin that has an enabled rule, where `from` is not whitelisted-from and `to` is whitelisted-to. It replaces the coin in place with the remainder. It "credits" the pools. It pays burn + liquidity + fee tax to the bank module account, then burns the burn part from that account (`burnCoins` lowers the supply).
  3. `addCoins` credits the recipient with the remainder.
  4. The recipient's account is created.
- `InputOutputCoins(inputs, outputs)` first runs `ValidateInputsOutputs`. It then debits every input, and taxes and credits every output as a transfer from the *empty* address.
- The msg server is not in the sources. It checks send-enabled and the blocked-recipient list, then calls the keeper.
- `SetParams` comes from a governance parameter change. `SetParamSet` runs the validators of every param pair and panics on a rejected one.
- `HandleDeflationaryPoolSpendProposal` refuses blocked recipients, then calls `DistributeFromDeflationaryPool`.
- `InitGenesis` sets the params (`SetParamSet` panics on an invalid rule), then writes balances, supply and pools. It panics when the supply or the module account's balance disagrees with what it computed.
- `ExportGenesis` writes params, balances and the paginated supply and pool totals. A chain upgrade exports the state and starts a new chain from it. Genesis validation runs `Params.Validate`, which skips the deflationary rules.
- `SetEGFProposalSupportBlock` / `GetEGFProposalSupportBlock` write and read one package-level variable. Every app instance in the process shares it, as the two gov tests that set it to 100 do.
- All of these run inside one deterministic state machine, one message at a time. A handler that returns an error or panics has its cache-wrapped writes discarded by the host (spec §5).

### What is hard

- **Partial failure.** Every keeper function writes as it goes. An error returns with the writes done so far: an earlier coin already debited, the module already credited before a burn fails, earlier legs of a multisend. Only the host rollback hides this.
- **Arithmetic edges.** Truncated percentages can leave a remainder of zero (an invalid coin) or a negative one (a panic). In a multi-denom send, one denom's burn can truncate to zero while another's does not.
- **Configuration.** The validators bound each percent on its own, not the total cut.
- **Bookkeeping.** Two records must agree: the pools and the module account's balance. Genesis import and export must agree with both.
- **Protocol paths.** `MsgSend` and `MsgMultiSend` reach the same taxes with different senders.
- **In-place mutation.** `deflationaryCoins` overwrites the caller's `amt`. The transfer event printed afterwards shows the net amount.
- **Shared global.** Two instances interleave writes and reads of the EGF activation height.

### Properties each component should have

- **Ledger.** Supply equals the sum of all balances. No message creates coins. Only the signers of a message lose coins. The supply falls exactly by what is burnt.
- **Tax.**
  - Tax is taken only under an enabled rule that whitelists the recipient.
  - Whitelisted-from senders are never taxed.
  - The burn part follows burnPercent and the fee-tax part follows feeTaxPercent.
  - A funded, valid send succeeds.
  - Accepted params never make a transfer panic.
- **Failure.** A failing debit leaves the store untouched (spec §4.1).
- **Pools.** The module account's balance equals liquidity pool plus fee-tax pool. A pool spend moves both legs or neither.
- **Genesis.** An exported state can be imported again. A restart that loads keeps the ledger and params. Params that genesis validation accepts also load.
- **Vesting.** No debit takes a user's balance below its locked coins.
- **The keeper test.** The balances `TestSendCoins_deflationaryCoins` requires are the ones the keeper leaves.
- **Events.** The transfer event names the requested amount.
- **EGF params.** Stored deposit params pass their validator. Each instance reads the activation height it set.

## 2. Modules

| Module | Models |
|---|---|
| `BankKeeper.tla` | The send keeper, param validation, the pool-spend handler and InitGenesis. It also holds the properties and the mutants. |
| `BankGenesis.tla` | Extends `BankKeeper` with `ExportGenesis`, a restart from the chain's own export, and a start from a validated genesis file. |
| `GovEGF.tla` | The EGF deposit params and the package-level activation height, for two app instances in one process. |
| `MCBankGenesis.tla`, `MCGovEGF.tla` | Constants for TLC. |
| `BankLedger.tla` | Abstract specification of what the send keeper promises ("transfer of coins between accounts without the possibility of creating coins", `part_000` l.16). |
| `MCBankKeeper.tla` | Constants for TLC. |
| `SendCoinsDeflationaryTest.tla` | Replays the keeper test `TestSendCoins_deflationaryCoins` step by step against the `BankKeeper` operators. Its property is the test's `Require` assertions. |

### How `BankKeeper` corresponds to the code

- The whole multistore is one record `bank = [bal, supply, liq, fee, acc]`. An absent key is 0. `acc` is the set of accounts the account keeper holds.
- Each keeper function is a pure operator with the same name: `SubUnlockedCoins`, `AddCoins`, `BurnCoins`, `DeflationaryCoins`, `SendCoins`, `InputOutputCoins`, `HandleDeflationaryPoolSpendProposal`, `InitGenesis`. Each maps a store to `[st, err]`: the store as the function leaves it on return, partial writes included, and its error (`"ok"`, an `Err...`, or `"panic"`).
- Loops over coins are `FoldLeft` over the coins' denoms in sorted order. Early returns are an error that the rest of the fold passes through unchanged.
- The discarded `Amount.Add` of the pools is `CreditPool(amount, x) == amount`, exactly what the code writes back.
- `Ok`/`Fail` results carry the transfer events the call emitted. `SendCoins` emits one with `amt` as the code prints it: after `deflationaryCoins` overwrote it, i.e. the net coins. `InputOutputCoins` emits one per output with the net coins and no sender.
- Handler actions:
  - `Send` and `MultiSend` are the msg server.
  - `PoolSpend` is an executed proposal. Only proposals `ValidateBasic` accepts are submitted. The model enumerates a zero coin and the empty recipient, which it refuses.
  - `SetParams` is a governance param change.
  - `Deliver` commits `st` only when `err = "ok"` (host rollback). It also records `msg`, `raw` (the keeper's own result) and `outcome`.
- `Init` is the state `InitGenesis` produces from the candidate genesis states, with their panics. Params come from the genesis (`DefaultParams` in the candidates).
- Taken from the spec, because the code is not in the sources: `sdk.Coins` arithmetic, `ValidateInputsOutputs`, `DistributeFromDeflationaryPool`, the msg server, and the host rollback. PROJECT.json marks them `spec_modelled`.

### How `BankGenesis` and `GovEGF` correspond to the code

- **`ExportGenesis`** is a record built from the store: params, balances (`GetAccountsBalances`), and `StoreCoins` of supply and pools. `StoreCoins` is the paginated total, every stored non-zero entry. One page of `query.MaxLimit` holds them all. `NewGenesisState` is not in the sources. The model assumes that it stores its arguments in the fields their names give, liquidity pool before fee-tax pool, as `ExportGenesis` passes them.
- **`StartFrom(m, g, accounts)`** runs `InitGenesis(g)`.
  - On success it replaces store and params.
  - The account keeper's accounts come from its own genesis section: unchanged for a restart, the funded accounts for an import.
  - On a panic the running chain stays as it was.
- **`Restart`** is `StartFrom` on the chain's own export.
- **`ImportGenesis(g)`** is `StartFrom` on a candidate file that `Params.Validate` accepts (`ValidateGenesis`).
- **`GovEGF`** has these state variables:
  - `supportEGFProposalBlock` is the package variable.
  - `configured` and `observed` record per instance what it set and what it last read.
  - `egfParams` holds each instance's stored deposit params. A parameter change runs `validateEGFPDepositParams` through `SetParamSet`.
  - Deposit amounts count whole tokens (10^18 base units). Validation asks only for positive amounts, so the scale changes no outcome.
  - `ClaimRatio` "0.1" parses to 10 at a Dec base of 100.

### How `SendCoinsDeflationaryTest` corresponds to the test

- The test is one sequential goroutine. `step` counts the keeper calls that have returned, and each call is an action guarded by its position, as in a trace specification.
- The test calls the keeper directly, with no message handler and no cache-wrapped context. `Call` therefore keeps the store a call leaves, error or not, and records its error in `outcome`.
- `TestRule` and `TestParams` are the rule and params of l.346-364. `DecWithPrec2(n)` is `sdk.NewDecWithPrec(n, 2)`.
- `FundAccount` is simapp's helper, which is not in the sources. It mints into the mint module account (balance and supply grow) and then runs `SendCoins` from that account.
- `AllBalances` is `GetAllBalances`: the non-zero balances. `FirstBalances` is the `IterateAccountBalances` callback of l.411-415, which stops after the first coin in store order.
- `TestRequirementsHold` holds each `Require` after the call it follows.

### Bounds (`MCBankKeeper`)

- **Accounts.** Two users and the bank module account. The module account is blocked, as module accounts are in simapp.
- **Denoms.** Two: `atom` and `foo`.
- **Precision.** 100. A percent `p` stands for `p/100`, which `sdk.Dec` represents exactly.
- **Genesis.**
  - u1 holds 5 atom (1 of them locked) and 1 foo. u2 holds 2 atom.
  - The liquidity pool records 1 atom that the module account does not hold, which `InitGenesis` accepts.
  - `MCGenesisNoPools` is the same genesis with empty pools.
- **Messages.**
  - Sends of 1 atom, 3 atom, and 4 atom + 1 foo.
  - Multisends of up to 2 inputs and 2 outputs, built from 3 entries and pre-filtered by `ValidateBasic`.
  - Pool spends of nothing or 1 atom to any account.
- **Rule sets.** The bounds make every arithmetic edge happen:
  - 25% liquidity cuts 1 from 4 and nothing from 1 or 3.
  - 34% cuts 1 from 3, leaving 0.
  - 50% cuts 2 from 4 three times, which goes negative.
  - One multi-denom rule cuts 1 atom and 0 foo.
  - One rule has an invalid percent of 101.
- **Genesis files (`MCBankGenesis`).** The original genesis under three params: default, a valid rule, and a fee tax of 101%. All pass `Params.Validate`.
- **EGF (`MCGovEGF`).**
  - Two instances.
  - Heights 0 and 100, the tests' value.
  - Proposals with the tests' params, a ratio of exactly 1, a ratio of 1.01, a ratio of 0, and a zero deposit.
  - `GovEGF` has only the `egf_shared_height` violation run. No invariant over the stored deposit params is checked: it would only restate `validateEGFPDepositParams`, the guard of the write.
- **Keeper test (`MCSendCoinsDeflationaryTest.cfg`).** The test's own values: three accounts (addr1, addr2 and the mint module account), bar and foo, and a Dec base of 100, which represents 0.05 and 0.10 exactly. The run is a single behaviour of seven states.
- **Size.** The state space is finite: no mint exists and supply only falls.
  - The core run (`MCBankGenesis.cfg`) reaches 11,701 distinct states in about a minute.
  - The refinement run reaches 11,455 distinct states in under 2 minutes.

No liveness is checked. Messages are delivered one at a time by the host and nothing in the module waits on anything. Every action is an external request (a transaction, a proposal, a chain restart) that no one is obliged to make, so no fairness condition is justified. Deadlock checking stays on, and `SetParams` is always enabled. The keeper test's run turns deadlock checking off, because the test ends after its last call.

## 3. Runs

| Run | Expect | What it shows |
|---|---|---|
| `bank_core` (`MCBankGenesis.cfg`) | pass | Checks the keeper's messages plus restarts and imports. `GenesisTypeOK`: types hold, and in-force percents stay in [0,1]. `SupplyInvariant`: supply equals the sum of balances after every committed step (the crisis invariant). `LockedCoinsNeverSpent`: no send or multisend input takes a user's balance below its locked coins, so the l.197 subtraction never goes negative. `PartialWritesNeverMint`: the store a keeper call itself returns, before the host rolls a failed message back, never holds more of a denom than the supply. `RestartPreservesLedger`: a restart that loads keeps balances, supply, both pools and params. |
| `bank_refinement` (`MCBankRefinement.cfg`) | pass | `TypeOK`, and `LedgerSpec`: `BankKeeper` refines `BankLedger`. Balances and supply are mapped directly, and signers are mapped from the message. |
| `burn_percent` | violation | `BurnFollowsBurnPercent`: burn and fee tax are both computed with `LiquidityPercent` (`part_000` l.234–236). |
| `pool_backing` | violation | `PoolsBackModuleBalance`: the pools never grow, because the `Amount.Add` result is dropped (l.251, l.256). The run starts from empty pools, so it shows only this half. The other half, a genesis whose pool record the module account does not hold, is the start state of `bank_core` and `genesis_reimport`, which `InitGenesis` accepts. No property there asserts that pools are backed. |
| `whitelist_from_multisend` | violation | `WhitelistedSenderNotTaxed`: multisend taxes from the empty address (l.109). |
| `negative_remainder` | violation | `TransfersNeverPanic`: validated percents over 1/3 make `NewCoin` panic (l.247, proposal.go l.327). |
| `funded_send_fails` | violation | `FundedSendSucceeds`: zero remainders and zero burn coins give `ErrInvalidCoins` on funded sends (l.154, l.274). |
| `transfer_event` | violation | `TransferEventReportsRequestedAmount`: a taxed send's event shows the net amount (l.173 after l.247). |
| `genesis_reimport` | violation | `ExportedGenesisImports`: once the module account holds tax, its own export panics in `InitGenesis`. The holdings are never summed (genesis.go l.31), so the check at l.62 fails. |
| `send_keeper_test` (`MCSendCoinsDeflationaryTest.cfg`) | violation | `TestRequirementsHold`: the test's funded send pays addr2 all 50 foo and the module account nothing. The test requires 141 foo and 4 foo. Its rule whitelists only the mint account as recipient, and `deflationaryCoins` (l.232) taxes only whitelisted recipients, as spec §4.2 does. Had addr2 been whitelisted, the code would pay 144, because it cuts by `LiquidityPercent` three times. |
| `egf_shared_height` | violation | `InstanceSeesOwnActivationHeight`: one instance's `SetEGFProposalSupportBlock` changes what another reads (support_egf_proposal.go l.47). |

Each property of a passing run has a mutant, a plausible code bug that TLC must catch. They are listed in PROJECT.json:
- a dropped spendable check;
- a spendable check that ignores the locked coins;
- a burn that keeps the supply;
- a multisend that credits its outputs before it debits its inputs;
- a SupportDeflationary pair left unvalidated;
- an export with the pools swapped;
- a credit of the gross amount.

**Partial writes.** A keeper call that fails half-way returns a store with part of its writes done: `subUnlockedCoins` (l.206) has debited earlier coins, `deflationaryCoins` has sent the cut to the module account before `burnCoins` (l.268) fails, and `InputOutputCoins` has debited every input before an output fails (l.84). The message handler's rollback discards that store, so `SupplyInvariant` and `LedgerSpec`, which look at the committed state, cannot see it. Other modules and the keeper tests call the keeper without that rollback (as `SendCoinsDeflationaryTest` shows). `PartialWritesNeverMint` therefore checks the uncommitted store `raw`: because every path debits before it credits, a partial write can lose coins but never create them.

## 4. Not modelled and why

- **Locked coins over time.** `LockedCoins` is a constant per account. Vesting schedules and delegations are outside the sources. `LockedCoinsNeverSpent` shows that the keeper itself never takes a balance below its lock. A bank genesis below the auth module's vesting locks would reach the panic at l.197, but the two sections are validated separately and such a file is not generated.
- **The panic of a genesis whose rules `Params.Validate` skips.** `Params.Validate` (proposal.go l.128) does not look at the deflationary rules, so a genesis file with a 101% fee tax passes genesis validation and then panics in `SetParamSet` inside `InitGenesis` (genesis.go l.13). `bank_core` starts from such a file. `GenesisTypeOK` shows that the rule never comes into force. Because runs are limited, the panic itself has no run of its own.
- **Events other than the transfer event.** The message/sender events and telemetry are fire-and-forget and are not observed by any property.
- **Denom metadata in genesis.** It is stored and exported verbatim and is not read by anything modelled.
- **The gov keeper.** It reads the EGF height and deposit params, but it is not in the sources. Only what `support_egf_proposal.go` defines is modelled.
- **Gov keeper tests and keyring migration tests.** These are tests of code not in the sources. The keyring migration is out of scope per spec §1.

## 5. Plan

1. **Done:** `BankKeeper` + `BankLedger`. The transfer engine, rules, pool spend and InitGenesis, with the supply invariant, the refinement, and the divergence runs.
2. **Done:** `BankGenesis`. Covers export, restart and import, the genesis.go l.31/l.62 panic, and `Params.Validate`. Also done: the transfer-event divergence, the pool-spend `ValidateBasic`, and `GovEGF`.
3. **Done:** pool distribution entry point. `NewDeflationaryPoolSpendProposal` builds the proposal record, and the handler and `ValidateBasic` come from the code. `DistributeFromDeflationaryPool` stays modelled from spec §4.4, because it is not in the sources. No property is stated about its payout, since that would check the spec-modelled operator rather than the code.
4. **Correct-split reference:** a `DeflationarySplit` operator written from spec §4.2, with independent percents and `burn + liquidity + feeTax + net = amount`. Check it against the code's `DeflationaryCoins` cut over all bounded amounts and percents.
5. **Done (this round):** `LockedCoinsNeverSpent` for the l.197 hazard, and the replay of the send-keeper test, which corrects what the burn-percent finding said of that test.
6. **Larger instances:** a third user and multisends of three legs, under simulation if exhaustive search grows past the time budget.
