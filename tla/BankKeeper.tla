----------------------------- MODULE BankKeeper -----------------------------
(***************************************************************************)
(* The bank module's send keeper with deflationary transfer taxation      *)
(* (x/bank/keeper, src/unnamed/part_000), the pool-spend proposal handler *)
(* (src/unnamed/part_001), parameter validation (src/x/bank/types/        *)
(* proposal.go, which also carries params.go) and InitGenesis             *)
(* (src/x/bank/keeper/genesis.go).                                        *)
(*                                                                         *)
(* Every keeper function is a pure operator from a store snapshot `s` to  *)
(* a record [st |-> store after the call, err |-> error or "ok"]: the     *)
(* store the keeper leaves behind when it returns, partial writes on an   *)
(* error path included.  A message handler runs in a cache-wrapped        *)
(* context that the host discards when the handler returns an error or    *)
(* panics, so a step commits `st` only when err = "ok"; the keeper's own  *)
(* result is kept in `raw` so that properties can speak about it too.     *)
(***************************************************************************)
EXTENDS Integers, Sequences, SequencesExt, FiniteSets

CONSTANTS
    Users,          \* externally owned accounts (model values)
    ModuleAcc,      \* the bank module account (types.ModuleName)
    EmptyAddr,      \* sdk.AccAddress{}: the sender InputOutputCoins taxes with
    DenomOrder,     \* the denominations in their sorted (store) order
    Precision,      \* sdk.Dec fixed-point base: a percent p means p / Precision
    Locked,         \* LockedCoins per user and denom (vesting), external
    ModuleIsBurner, \* does the module account hold the Burner permission
    BlockedAddrs,   \* k.blockedAddrs: addresses that may not receive funds
    GenesisStates,  \* candidate genesis states handed to InitGenesis
    SendAmounts,    \* coins a MsgSend may carry
    MultiEntries,   \* (address, coins) pairs a MsgMultiSend may carry
    MaxIOLen,       \* most inputs or outputs in one MsgMultiSend
    PoolSpendAmounts, \* coins a DeflationaryPoolSpendProposal may request
    ParamChoices    \* bank parameter sets a governance change may propose

Denoms == Range(DenomOrder)
Accounts == Users \cup {ModuleAcc}

ASSUME /\ ModuleAcc \notin Users /\ EmptyAddr \notin Accounts
       /\ Precision \in Nat \ {0}
       /\ Locked \in [Users -> [Denoms -> Nat]]
       /\ ModuleIsBurner \in BOOLEAN
       /\ BlockedAddrs \subseteq Accounts
       /\ MaxIOLen \in Nat \ {0}

VARIABLES
    bank,     \* committed store: [bal, supply, liq, fee, acc]
    params,   \* bank params (x/params subspace)
    msg,      \* the last message or proposal delivered
    raw,      \* the store the keeper left when it returned, before rollback
    outcome,  \* the error the last handler returned, "ok" or "panic"
    events    \* the transfer events the last committed message emitted

vars == <<bank, params, msg, raw, outcome, events>>

-----------------------------------------------------------------------------
(* sdk.Coins: a function from the denominations present to their amounts. *)
(* Order is DenomOrder; a present denom may carry 0 where the code builds *)
(* a Coins literal without sanitising it.                                  *)

AmountOf(c, d) == IF d \in DOMAIN c THEN c[d] ELSE 0

\* Coins.IsValid: every amount positive (sortedness and uniqueness hold by
\* representation)
IsValidCoins(c) == \A d \in DOMAIN c : c[d] > 0

\* Coins.IsZero: every amount is zero (true of the empty Coins)
IsZeroCoins(c) == \A d \in DOMAIN c : c[d] = 0

\* Coins.Add: sums per denom and drops the zero results
CoinsAdd(a, b) ==
    [d \in {x \in DOMAIN a \cup DOMAIN b : AmountOf(a, x) + AmountOf(b, x) # 0}
        |-> AmountOf(a, d) + AmountOf(b, d)]

\* the coins' denominations in the order the code's loops visit them
CoinDenoms(c) == SelectSeq(DenomOrder, LAMBDA d : d \in DOMAIN c)

NoCoins == [d \in {} |-> 0]

\* a keeper call's result: the store it leaves, its error and the transfer
\* events it emitted on the way
Ok(st) == [st |-> st, err |-> "ok", events |-> <<>>]
Fail(st, e) == [st |-> st, err |-> e, events |-> <<>>]

\* the EventTypeTransfer event: recipient, sender (EmptyAddr when the event
\* carries no sender attribute) and the amount attribute
TransferEvent(recipient, sender, amount) ==
    [recipient |-> recipient, sender |-> sender, amount |-> amount]

LockedOf(a, d) == IF a \in Users THEN Locked[a][d] ELSE 0

-----------------------------------------------------------------------------
(* Params and their validation.                                            *)

\* NewParams
NewParams(defaultSendEnabled, sendEnabledParams, supportDeflationary) ==
    [defaultSendEnabled |-> defaultSendEnabled, sendEnabled |-> sendEnabledParams,
     rules |-> supportDeflationary]

\* Params.SetSendEnabledParam: drop the denom's entry, append the new one
SetSendEnabledParam(p, denom, sendEnabled) ==
    NewParams(p.defaultSendEnabled,
              [d \in DOMAIN p.sendEnabled \cup {denom} |->
                  IF d = denom THEN sendEnabled ELSE p.sendEnabled[d]],
              p.rules)

\* Params.SendEnabledDenom: a per-denom override wins over the default
SendEnabledDenom(p, d) ==
    IF d \in DOMAIN p.sendEnabled THEN p.sendEnabled[d] ELSE p.defaultSendEnabled

\* validateSdkDec: not nil, not negative, not above one
ValidSdkDec(v) == v \in 0..Precision

\* validateSupportDeflationary: addresses parse, the three percents are
\* each in [0, 1]; nothing bounds their sum
ValidSupportDeflationary(r) ==
    /\ r.whitelistedFrom \subseteq Accounts
    /\ r.whitelistedTo \subseteq Accounts
    /\ ValidSdkDec(r.burnPercent)
    /\ ValidSdkDec(r.liquidityPercent)
    /\ ValidSdkDec(r.feeTaxPercent)

\* validateSendEnabled: the flag is a bool and the denom is a valid denom
ValidSendEnabled(d, enabled) == enabled \in BOOLEAN /\ d \in Denoms

\* validateSendEnabledParams (a denom registered twice cannot be represented)
ValidSendEnabledParams(se) == \A d \in DOMAIN se : ValidSendEnabled(d, se[d])

\* Params.Validate, what genesis validation runs on the params: the
\* send-enabled list and the default flag; SupportDeflationary is skipped
ParamsValidate(p) ==
    /\ ValidSendEnabledParams(p.sendEnabled)
    /\ p.defaultSendEnabled \in BOOLEAN

\* validateSupportDeflationaryParams (a denom registered twice cannot be
\* represented: rules is a function of the denom)
ValidSupportDeflationaryParams(rules) ==
    \A d \in DOMAIN rules : ValidSupportDeflationary(rules[d])

\* mutant of ValidParams: the SupportDeflationary pair is not validated
ValidParamsNoRules(p) ==
    /\ ValidSendEnabledParams(p.sendEnabled)
    /\ p.defaultSendEnabled \in BOOLEAN

\* Params.ParamSetPairs: the validator SetParamSet runs on each pair
ValidParams(p) ==
    /\ ValidSendEnabledParams(p.sendEnabled)
    /\ p.defaultSendEnabled \in BOOLEAN
    /\ ValidSupportDeflationaryParams(p.rules)

\* IsWhitelistedFrom / IsWhitelistedTo and the rule match of deflationaryCoins
RuleApplies(p, d, from, to) ==
    /\ d \in DOMAIN p.rules
    /\ p.rules[d].enabled
    /\ from \notin p.rules[d].whitelistedFrom
    /\ to \in p.rules[d].whitelistedTo

\* NewDecFromInt(amount).Mul(percent).TruncateInt()
TruncMul(amount, pct) == (amount * pct) \div Precision

-----------------------------------------------------------------------------
(* Keeper functions.                                                       *)

\* mutant of SubUnlockedCoins: the spendable-balance check is gone
SubUnlockedCoinsUnchecked(s, addr, amt) ==
    LET Step(r, d) == [r EXCEPT !.st.bal[addr][d] = @ - amt[d]]
    IN  IF ~IsValidCoins(amt) THEN Fail(s, "ErrInvalidCoins")
        ELSE FoldLeft(Step, Ok(s), CoinDenoms(amt))

\* mutant of SubUnlockedCoins: the locked coins are not subtracted, the
\* whole balance counts as spendable
SubUnlockedCoinsIgnoreLocked(s, addr, amt) ==
    LET Step(r, d) ==
          LET spendable == r.st.bal[addr][d]
          IN  IF r.err # "ok" THEN r
              ELSE IF spendable < amt[d] THEN Fail(r.st, "ErrInsufficientFunds")
              ELSE Ok([r.st EXCEPT !.bal[addr][d] = @ - amt[d]])
    IN  IF ~IsValidCoins(amt) THEN Fail(s, "ErrInvalidCoins")
        ELSE FoldLeft(Step, Ok(s), CoinDenoms(amt))

\* subUnlockedCoins: per coin in order, spendable = balance - locked; fail on
\* the first coin that exceeds it, keeping the coins already debited
SubUnlockedCoins(s, addr, amt) ==
    LET Step(r, d) ==
          LET spendable == r.st.bal[addr][d] - LockedOf(addr, d)
          IN  IF r.err # "ok" THEN r
              ELSE IF spendable < 0 THEN Fail(r.st, "panic")
              ELSE IF spendable < amt[d] THEN Fail(r.st, "ErrInsufficientFunds")
              ELSE Ok([r.st EXCEPT !.bal[addr][d] = @ - amt[d]])
    IN  IF ~IsValidCoins(amt) THEN Fail(s, "ErrInvalidCoins")
        ELSE FoldLeft(Step, Ok(s), CoinDenoms(amt))

\* addCoins: reject invalid coins, otherwise credit every coin
AddCoins(s, addr, amt) ==
    IF ~IsValidCoins(amt) THEN Fail(s, "ErrInvalidCoins")
    ELSE Ok([s EXCEPT !.bal[addr] = [d \in Denoms |-> @[d] + AmountOf(amt, d)]])

\* mutant of BurnCoins: the module account is debited, the supply is not
BurnCoinsKeepSupply(s, amounts) ==
    LET r == SubUnlockedCoins(s, ModuleAcc, amounts)
    IN  IF ~ModuleIsBurner THEN Fail(s, "panic") ELSE r

\* burnCoins: panic without the Burner permission, debit the module account,
\* then lower the supply of every burnt denom
BurnCoins(s, amounts) ==
    LET r == SubUnlockedCoins(s, ModuleAcc, amounts)
    IN  IF ~ModuleIsBurner THEN Fail(s, "panic")
        ELSE IF r.err # "ok" THEN r
        ELSE IF \E d \in DOMAIN amounts : r.st.supply[d] < amounts[d]
             THEN Fail(r.st, "panic")
        ELSE Ok([r.st EXCEPT !.supply = [d \in Denoms |-> @[d] - AmountOf(amounts, d)]])

\* liquidityPool.Amount.Add(x) / feeTaxPool.Amount.Add(x): sdk.Int.Add
\* returns the sum and the code drops it, so setLiquidityPool / setFeeTaxPool
\* write back the amount they read
CreditPool(amount, x) == amount

\* deflationaryCoins: for every taxed coin, burn, liquidity and fee tax are
\* each amount * LiquidityPercent (truncated); the coin is replaced by the
\* remainder (NewCoin panics on a negative one); the pools are "credited";
\* the three portions go to the module account, which then burns the burn
\* portion.  Returns the store and the coins the recipient is to get.
DeflationaryCoins(s, p, from, to, amt) ==
    LET taxed  == {d \in DOMAIN amt : RuleApplies(p, d, from, to)}
        cut(d) == TruncMul(amt[d], p.rules[d].liquidityPercent)
        burnCoins      == [d \in taxed |-> cut(d)]
        liquidityCoins == [d \in taxed |-> cut(d)]
        feeTaxCoins    == [d \in taxed |-> cut(d)]
        net == [d \in DOMAIN amt |->
                  IF d \in taxed
                  THEN amt[d] - burnCoins[d] - liquidityCoins[d] - feeTaxCoins[d]
                  ELSE amt[d]]
        s1 == [s EXCEPT
                 !.liq = [d \in Denoms |-> IF d \in taxed /\ liquidityCoins[d] > 0
                                          THEN CreditPool(@[d], liquidityCoins[d]) ELSE @[d]],
                 !.fee = [d \in Denoms |-> IF d \in taxed /\ feeTaxCoins[d] > 0
                                          THEN CreditPool(@[d], feeTaxCoins[d]) ELSE @[d]]]
        totalCoins == CoinsAdd(CoinsAdd(burnCoins, liquidityCoins), feeTaxCoins)
        r2 == AddCoins(s1, ModuleAcc, totalCoins)
        r3 == BurnCoins(r2.st, burnCoins)
        Out(r) == [st |-> r.st, err |-> r.err, net |-> net]
    IN  IF \E d \in taxed : net[d] < 0 THEN Out(Fail(s, "panic"))
        ELSE IF IsZeroCoins(totalCoins) THEN Out(Ok(s1))
        ELSE IF r2.err # "ok" THEN Out(r2)
        ELSE IF IsZeroCoins(burnCoins) THEN Out(r2)
        ELSE Out(r3)

\* "Create account if recipient does not exist" (ak.SetAccount)
CreateAccount(s, addr) == [s EXCEPT !.acc = @ \cup {addr}]

\* mutant of SendCoins: the recipient is credited the requested amount
\* rather than what deflationaryCoins left of it
SendCoinsGrossCredit(s, p, from, to, amt) ==
    LET r1 == SubUnlockedCoins(s, from, amt)
        r2 == DeflationaryCoins(r1.st, p, from, to, amt)
        r3 == AddCoins(r2.st, to, amt)
    IN  IF r1.err # "ok" THEN r1
        ELSE IF r2.err # "ok" THEN Fail(r2.st, r2.err)
        ELSE IF r3.err # "ok" THEN r3
        \* the transfer event prints amt, which deflationaryCoins overwrote
        ELSE [Ok(CreateAccount(r3.st, to)) EXCEPT
                !.events = <<TransferEvent(to, from, r2.net)>>]

\* SendCoins: debit the sender, tax, credit the recipient the remainder,
\* create its account
SendCoins(s, p, from, to, amt) ==
    LET r1 == SubUnlockedCoins(s, from, amt)
        r2 == DeflationaryCoins(r1.st, p, from, to, amt)
        r3 == AddCoins(r2.st, to, r2.net)
    IN  IF r1.err # "ok" THEN r1
        ELSE IF r2.err # "ok" THEN Fail(r2.st, r2.err)
        ELSE IF r3.err # "ok" THEN r3
        \* the transfer event prints amt, which deflationaryCoins overwrote
        ELSE [Ok(CreateAccount(r3.st, to)) EXCEPT
                !.events = <<TransferEvent(to, from, r2.net)>>]

\* the coins a sequence of inputs or outputs carries in total
TotalCoins(ios) == FoldLeft(LAMBDA acc, io : CoinsAdd(acc, io.coins), NoCoins, ios)

\* types.ValidateInputsOutputs: at least one input and output, valid
\* non-empty coins everywhere, and equal totals
ValidateInputsOutputs(inputs, outputs) ==
    /\ Len(inputs) > 0 /\ Len(outputs) > 0
    /\ \A i \in 1..Len(inputs) : IsValidCoins(inputs[i].coins) /\ inputs[i].coins # NoCoins
    /\ \A o \in 1..Len(outputs) : IsValidCoins(outputs[o].coins) /\ outputs[o].coins # NoCoins
    /\ TotalCoins(inputs) = TotalCoins(outputs)

\* mutant of InputOutputCoins: the outputs are credited before the inputs
\* are debited
InputOutputCoinsOutputsFirst(s, p, inputs, outputs) ==
    LET In(r, in) ==
          IF r.err # "ok" THEN r ELSE SubUnlockedCoins(r.st, in.address, in.coins)
        Out(r, out) ==
          LET r2 == DeflationaryCoins(r.st, p, EmptyAddr, out.address, out.coins)
              r3 == AddCoins(r2.st, out.address, r2.net)
          IN  IF r.err # "ok" THEN r
              ELSE IF r2.err # "ok" THEN Fail(r2.st, r2.err)
              ELSE IF r3.err # "ok" THEN r3
              ELSE [Ok(CreateAccount(r3.st, out.address)) EXCEPT
                      !.events = Append(r.events,
                                        TransferEvent(out.address, EmptyAddr, r2.net))]
        rout == FoldLeft(Out, Ok(s), outputs)
    IN  IF ~ValidateInputsOutputs(inputs, outputs) THEN Fail(s, "ErrInputOutputMismatch")
        ELSE IF rout.err # "ok" THEN rout
        ELSE FoldLeft(In, rout, inputs)

\* InputOutputCoins: validate, debit every input, then for every output tax
\* it as a transfer from the empty address, credit it and create its account;
\* the first error returns at once
InputOutputCoins(s, p, inputs, outputs) ==
    LET In(r, in) ==
          IF r.err # "ok" THEN r ELSE SubUnlockedCoins(r.st, in.address, in.coins)
        Out(r, out) ==
          LET r2 == DeflationaryCoins(r.st, p, EmptyAddr, out.address, out.coins)
              r3 == AddCoins(r2.st, out.address, r2.net)
          IN  IF r.err # "ok" THEN r
              ELSE IF r2.err # "ok" THEN Fail(r2.st, r2.err)
              ELSE IF r3.err # "ok" THEN r3
              ELSE [Ok(CreateAccount(r3.st, out.address)) EXCEPT
                      !.events = Append(r.events,
                                        TransferEvent(out.address, EmptyAddr, r2.net))]
        rin == FoldLeft(In, Ok(s), inputs)
    IN  IF ~ValidateInputsOutputs(inputs, outputs) THEN Fail(s, "ErrInputOutputMismatch")
        ELSE IF rin.err # "ok" THEN rin
        ELSE FoldLeft(Out, rin, outputs)

\* IsSendEnabledCoins
IsSendEnabledCoins(p, c) == \A d \in DOMAIN c : SendEnabledDenom(p, d)

\* BlockedAddr
BlockedAddr(a) == a \in BlockedAddrs

\* DistributeFromDeflationaryPool (not in the sources; from the spec):
\* both legs are checked against their pools before anything moves, the
\* pools are lowered and the module account pays the recipients
CoinsCover(pool, c) == \A d \in DOMAIN c : c[d] <= pool[d]

DistributeFromDeflationaryPool(s, liqTo, feeTo, liqAmt, feeAmt) ==
    LET s1 == [s EXCEPT !.liq = [d \in Denoms |-> @[d] - AmountOf(liqAmt, d)],
                        !.fee = [d \in Denoms |-> @[d] - AmountOf(feeAmt, d)]]
        r1 == SubUnlockedCoins(s1, ModuleAcc, CoinsAdd(liqAmt, feeAmt))
        r2 == AddCoins(r1.st, liqTo, liqAmt)
        r3 == AddCoins(r2.st, feeTo, feeAmt)
    IN  IF ~(CoinsCover(s.liq, liqAmt) /\ CoinsCover(s.fee, feeAmt))
        THEN Fail(s, "ErrInsufficientFunds")
        ELSE IF r1.err # "ok" THEN r1
        ELSE IF r2.err # "ok" THEN r2
        ELSE r3

\* DeflationaryPoolSpendProposal.ValidateBasic (govtypes.ValidateAbstract
\* checks title and description, which are not modelled): valid amounts and
\* non-empty recipients; the empty address prints as ""
ValidateBasic(liqTo, feeTo, liqAmt, feeAmt) ==
    /\ IsValidCoins(liqAmt)
    /\ IsValidCoins(feeAmt)
    /\ liqTo # EmptyAddr
    /\ feeTo # EmptyAddr

\* HandleDeflationaryPoolSpendProposal: refuse blocked recipients, then pay
HandleDeflationaryPoolSpendProposal(s, liqTo, feeTo, liqAmt, feeAmt) ==
    IF BlockedAddr(liqTo) THEN Fail(s, "ErrUnauthorized")
    ELSE IF BlockedAddr(feeTo) THEN Fail(s, "ErrUnauthorized")
    ELSE DistributeFromDeflationaryPool(s, liqTo, feeTo, liqAmt, feeAmt)

-----------------------------------------------------------------------------
(* InitGenesis.                                                            *)

\* sum of the genesis balances per denom, as sanitised Coins
GenesisTotal(g) ==
    LET tot(d) == MapThenSumSet(LAMBDA a : g.balances[a][d], Accounts)
    IN  [d \in {x \in Denoms : tot(x) # 0} |-> tot(d)]

\* moduleHoldingsInt.Add(...) discards its result, so the holdings the
\* supply and the module balance are checked against stay empty
ModuleHoldings(g) == NoCoins

\* the module account's balance as GetAllBalances returns it
ModuleGenesisBalance(g) ==
    [d \in {x \in Denoms : g.balances[ModuleAcc][x] # 0} |-> g.balances[ModuleAcc][d]]

\* the store of a chain that has not loaded a genesis
EmptyStore ==
    [bal |-> [a \in Accounts |-> [d \in Denoms |-> 0]], supply |-> [d \in Denoms |-> 0],
     liq |-> [d \in Denoms |-> 0], fee |-> [d \in Denoms |-> 0], acc |-> {}]

\* InitGenesis: SetParams (SetParamSet panics on a pair its validator
\* refuses), the balances, the supply check, the pools, the module account
\* check; the store it leaves when it panics is of no use
InitGenesis(g) ==
    LET totalSupply == CoinsAdd(GenesisTotal(g), ModuleHoldings(g))
    IN  IF ~ValidParams(g.params) THEN Fail(EmptyStore, "panic")
        ELSE IF g.supply # NoCoins /\ g.supply # totalSupply THEN Fail(EmptyStore, "panic")
        ELSE IF ModuleGenesisBalance(g) # ModuleHoldings(g) THEN Fail(EmptyStore, "panic")
        ELSE Ok([bal    |-> g.balances,
                 supply |-> [d \in Denoms |-> AmountOf(totalSupply, d)],
                 liq    |-> [d \in Denoms |-> AmountOf(g.liquidityPool, d)],
                 fee    |-> [d \in Denoms |-> AmountOf(g.feeTaxPool, d)],
                 acc    |-> {ModuleAcc} \cup
                            {a \in Users : \E d \in Denoms : g.balances[a][d] > 0}])

-----------------------------------------------------------------------------
(* Messages.                                                               *)

\* message sequences of length 1..MaxIOLen over the given entries
IOSeqs == UNION {[1..n -> MultiEntries] : n \in 1..MaxIOLen}

\* the accounts whose signature a message carries
Signers(m) ==
    CASE m.type = "send"      -> {m.from}
      [] m.type = "multisend" -> {m.inputs[i].address : i \in DOMAIN m.inputs}
      [] m.type = "poolspend" -> {ModuleAcc}
      [] OTHER                -> {}

\* DefaultSendEnabled
DefaultSendEnabled == TRUE

DefaultParams == NewParams(DefaultSendEnabled, [d \in {} |-> TRUE], [d \in {} |-> TRUE])

Init ==
    \E g \in GenesisStates :
        LET r == InitGenesis(g) IN
        /\ r.err = "ok"
        /\ bank = r.st
        /\ params = g.params
        /\ msg = [type |-> "genesis"]
        /\ raw = r.st
        /\ outcome = "ok"
        /\ events = <<>>

\* a handler's result, committed only when it returned no error
Deliver(m, r) ==
    /\ msg' = m
    /\ raw' = r.st
    /\ outcome' = r.err
    /\ bank' = IF r.err = "ok" THEN r.st ELSE bank
    /\ events' = IF r.err = "ok" THEN r.events ELSE <<>>
    /\ UNCHANGED params

\* msg server Send: send-enabled check, blocked recipient, SendCoins
Send(from, to, amt) ==
    Deliver([type |-> "send", from |-> from, to |-> to, amount |-> amt],
            IF ~IsSendEnabledCoins(params, amt) THEN Fail(bank, "ErrSendDisabled")
            ELSE IF BlockedAddr(to) THEN Fail(bank, "ErrUnauthorized")
            ELSE SendCoins(bank, params, from, to, amt))

\* msg server MultiSend: send-enabled inputs, unblocked outputs, InputOutputCoins
MultiSend(inputs, outputs) ==
    Deliver([type |-> "multisend", inputs |-> inputs, outputs |-> outputs],
            IF \E i \in DOMAIN inputs : ~IsSendEnabledCoins(params, inputs[i].coins)
            THEN Fail(bank, "ErrSendDisabled")
            ELSE IF \E o \in DOMAIN outputs : BlockedAddr(outputs[o].address)
            THEN Fail(bank, "ErrUnauthorized")
            ELSE InputOutputCoins(bank, params, inputs, outputs))

\* an executed DeflationaryPoolSpendProposal
\* NewDeflationaryPoolSpendProposal (title and description not modelled)
NewDeflationaryPoolSpendProposal(liqTo, feeTo, liqAmt, feeAmt) ==
    [type |-> "poolspend", liqTo |-> liqTo, feeTo |-> feeTo,
     liqAmt |-> liqAmt, feeAmt |-> feeAmt]

PoolSpend(liqTo, feeTo, liqAmt, feeAmt) ==
    Deliver(NewDeflationaryPoolSpendProposal(liqTo, feeTo, liqAmt, feeAmt),
            HandleDeflationaryPoolSpendProposal(bank, liqTo, feeTo, liqAmt, feeAmt))

\* SetParams through a parameter-change proposal: SetParamSet panics on a
\* pair its validator refuses, and the proposal leaves the params alone
SetParams(p) ==
    /\ msg' = [type |-> "params", params |-> p]
    /\ raw' = bank
    /\ outcome' = IF ValidParams(p) THEN "ok" ELSE "panic"
    /\ params' = IF ValidParams(p) THEN p ELSE params
    /\ events' = <<>>
    /\ UNCHANGED bank

Next ==
    \/ \E from \in Users, to \in Accounts, amt \in SendAmounts : Send(from, to, amt)
    \/ \E ins, outs \in IOSeqs :
          \* MsgMultiSend.ValidateBasic runs ValidateInputsOutputs before the handler
          /\ ValidateInputsOutputs(ins, outs)
          /\ MultiSend(ins, outs)
    \/ \E lt, ft \in Accounts \cup {EmptyAddr}, la, fa \in PoolSpendAmounts :
          \* a proposal is submitted only if ValidateBasic accepts it
          /\ ValidateBasic(lt, ft, la, fa)
          /\ PoolSpend(lt, ft, la, fa)
    \/ \E p \in ParamChoices : SetParams(p)

Spec == Init /\ [][Next]_vars

(* Properties.                                                             *)

Rule == [enabled : BOOLEAN, burnPercent : Nat, liquidityPercent : Nat,
         feeTaxPercent : Nat, whitelistedFrom : SUBSET Accounts,
         whitelistedTo : SUBSET Accounts]

Store == [bal : [Accounts -> [Denoms -> Nat]], supply : [Denoms -> Nat],
          liq : [Denoms -> Nat], fee : [Denoms -> Nat], acc : SUBSET Accounts]

\* a transfer event: recipient, sender, and Coins of the model's denoms
IsTransferEvent(e) ==
    /\ DOMAIN e = {"recipient", "sender", "amount"}
    /\ e.recipient \in Accounts /\ e.sender \in Accounts \cup {EmptyAddr}
    /\ DOMAIN e.amount \subseteq Denoms /\ \A d \in DOMAIN e.amount : e.amount[d] \in Nat

TypeOK ==
    /\ \A i \in DOMAIN events : IsTransferEvent(events[i])
    /\ bank \in Store
    /\ raw \in Store
    /\ params.defaultSendEnabled \in BOOLEAN
    /\ \E D \in SUBSET Denoms : params.sendEnabled \in [D -> BOOLEAN]
    /\ \E D \in SUBSET Denoms : params.rules \in [D -> Rule]
    /\ msg.type \in {"genesis", "send", "multisend", "poolspend", "params"}
    /\ outcome \in {"ok", "panic", "ErrInvalidCoins", "ErrInsufficientFunds",
                    "ErrSendDisabled", "ErrUnauthorized", "ErrInputOutputMismatch"}

TotalBalance(s, d) == MapThenSumSet(LAMBDA a : s.bal[a][d], Accounts)

(* The supply invariant the bank module's crisis check states: after every *)
(* committed message the supply of each denom equals the sum of all       *)
(* balances, the module account's included.  Breaks if deflationaryCoins, *)
(* burnCoins or a pool spend moves coins without moving the supply.       *)
SupplyInvariant == \A d \in Denoms : bank.supply[d] = TotalBalance(bank, d)

(* What a failing keeper call leaves behind never holds coins that do   *)
(* not exist: in the store a keeper function returns, error or not, the  *)
(* balances of each denom sum to at most its supply.  The host discards  *)
(* that store for a message, but a caller that invokes the keeper on its *)
(* own context (another module's keeper, a test) keeps it.  It holds     *)
(* because every function debits before it credits: subUnlockedCoins    *)
(* stops after debiting some coins (part_000 l.206), deflationaryCoins   *)
(* credits the module account only what it took and fails in burnCoins  *)
(* after that (l.268), InputOutputCoins debits all inputs before the     *)
(* first output is credited and may stop between outputs (l.84).         *)
PartialWritesNeverMint ==
    \A d \in Denoms : TotalBalance(raw, d) <= raw.supply[d]

(* Vesting coins stay put: no committed message takes a user's balance of *)
(* a denom below what LockedCoins still locks of it.  subUnlockedCoins    *)
(* (part_000 l.193-205) is the only debit of a user account; it must      *)
(* measure every coin of every input against balance - locked, in sends   *)
(* and in each input of a multisend alike.  A balance below its lock would *)
(* also make the next debit's balance.Sub(locked) panic (l.197).          *)
LockedCoinsNeverSpent ==
    \A u \in Users, d \in Denoms : bank.bal[u][d] >= LockedOf(u, d)

(* The keeper implements the abstract ledger: only signers lose coins,    *)
(* no coins are created, and the supply falls exactly by what is burnt.   *)
Ledger == INSTANCE BankLedger
            WITH balances <- bank.bal, supply <- bank.supply, signers <- Signers(msg)

LedgerSpec == Ledger!Spec

-----------------------------------------------------------------------------
(* Properties the spec states of the keeper and the code does not keep.   *)
(* Each is checked by a run that expects a violation.                     *)

\* what the sender can spend of a denom: balance less the locked coins
Spendable(s, a, d) == s.bal[a][d] - LockedOf(a, d)

(* Spec 4.2: the burnt part of a taxed coin is amount * burnPercent       *)
(* (truncated).  Checked on every committed MsgSend: the supply of a taxed *)
(* denom falls by exactly that much.                                      *)
BurnFollowsBurnPercent ==
    [][ (msg'.type = "send" /\ outcome' = "ok") =>
          \A d \in DOMAIN msg'.amount :
             RuleApplies(params, d, msg'.from, msg'.to) =>
                bank.supply[d] - bank'.supply[d]
                  = TruncMul(msg'.amount[d], params.rules[d].burnPercent) ]_vars

(* Spec 3 and genesis.go l.62: the liquidity and fee-tax pools account for *)
(* what the module account holds, so its balance of each denom is the sum *)
(* of the two pools.                                                      *)
PoolsBackModuleBalance ==
    \A d \in Denoms : bank.bal[ModuleAcc][d] = bank.liq[d] + bank.fee[d]

(* Spec 4.2: a sender on a rule's whitelistedFrom list is never taxed:    *)
(* when every signer of a committed send or multisend is whitelisted-from *)
(* for a denom, nothing of it is burnt and the module account gains none. *)
WhitelistedSenderNotTaxed ==
    [][ (msg'.type \in {"send", "multisend"} /\ outcome' = "ok") =>
          \A d \in DOMAIN params.rules :
             Signers(msg') \subseteq params.rules[d].whitelistedFrom =>
                /\ bank'.supply[d] = bank.supply[d]
                /\ bank'.bal[ModuleAcc][d] <= bank.bal[ModuleAcc][d] ]_vars

(* Spec 7: a rule set whose percents yield a negative remainder is a      *)
(* configuration error rejected when the params are set, never at         *)
(* transfer time: no send or multisend panics under accepted params.      *)
TransfersNeverPanic ==
    msg.type \in {"send", "multisend"} => outcome # "panic"

(* Spec 7 and 8: InvalidCoins is a malformed-input error; a MsgSend of    *)
(* valid coins that are send-enabled, to an unblocked recipient, within   *)
(* the sender's spendable balance, under rules whose percents sum to at   *)
(* most one, succeeds.                                                    *)
FundedSendSucceeds ==
    [][ ( /\ msg'.type = "send"
          /\ IsSendEnabledCoins(params, msg'.amount)
          /\ ~BlockedAddr(msg'.to)
          /\ \A d \in DOMAIN msg'.amount :
                Spendable(bank, msg'.from, d) >= msg'.amount[d]
          /\ \A d \in DOMAIN params.rules :
                LET r == params.rules[d]
                IN  r.burnPercent + r.liquidityPercent + r.feeTaxPercent <= Precision )
        => outcome' = "ok" ]_vars

(* Spec 4.1 step 5: SendCoins emits a transfer event naming the sender,   *)
(* the recipient and the original requested amount.  Checked on every    *)
(* committed MsgSend; deflationaryCoins overwrites the coins of amt in    *)
(* place (part_000 l.247) before the event prints it (l.173).             *)
TransferEventReportsRequestedAmount ==
    [][ (msg'.type = "send" /\ outcome' = "ok") =>
          events' = <<TransferEvent(msg'.to, msg'.from, msg'.amount)>> ]_vars

=============================================================================
