----------------------------- MODULE BankGenesis -----------------------------
(***************************************************************************)
(* The bank keeper together with its genesis export (ExportGenesis,        *)
(* src/x/bank/keeper/genesis.go) and the two ways a chain is started from  *)
(* a genesis file: a restart from the file the running chain exports (a    *)
(* chain upgrade by export and import), and a start from a genesis file    *)
(* that passed genesis validation.  Either replaces the ledger with what   *)
(* InitGenesis loads, or panics and leaves the running chain as it was.    *)
(***************************************************************************)
EXTENDS BankKeeper

CONSTANT
    ImportGenesisStates   \* genesis files a chain may be started from

\* the Coins a paginated pool or supply query returns: every stored
\* (non-zero) entry, in denom order
StoreCoins(f) == [d \in {x \in DOMAIN f : f[x] # 0} |-> f[d]]

\* the balances GetAccountsBalances returns, as a function of every account
AccountsBalances(s) == s.bal

\* mutant of ExportGenesis: the two pool totals handed to NewGenesisState
\* in each other's place
ExportGenesisSwappedPools(s, p) ==
    [params |-> p, balances |-> AccountsBalances(s), supply |-> StoreCoins(s.supply),
     liquidityPool |-> StoreCoins(s.fee), feeTaxPool |-> StoreCoins(s.liq)]

\* ExportGenesis: params, balances, the paginated total supply, liquidity
\* pool and fee-tax pool (one page of query.MaxLimit holds them all)
ExportGenesis(s, p) ==
    [params |-> p, balances |-> AccountsBalances(s), supply |-> StoreCoins(s.supply),
     liquidityPool |-> StoreCoins(s.liq), feeTaxPool |-> StoreCoins(s.fee)]

\* start a chain from genesis g: a successful InitGenesis replaces the store
\* (the account keeper's accounts come from its own genesis section) and
\* the params; a panic leaves the running chain as it was
StartFrom(m, g, accounts) ==
    LET r == InitGenesis(g) IN
    /\ msg' = m
    /\ raw' = r.st
    /\ outcome' = r.err
    /\ bank' = IF r.err = "ok" THEN [r.st EXCEPT !.acc = accounts] ELSE bank
    /\ params' = IF r.err = "ok" THEN g.params ELSE params
    /\ events' = <<>>

\* export the running chain's state and start again from that file
Restart ==
    LET g == ExportGenesis(bank, params)
    IN  StartFrom([type |-> "restart", genesis |-> g], g, bank.acc)

\* start from a genesis file that genesis validation accepted
ImportGenesis(g) ==
    StartFrom([type |-> "import", genesis |-> g], g,
              {ModuleAcc} \cup {a \in Users : \E d \in Denoms : g.balances[a][d] > 0})

GenesisNext ==
    \/ Next
    \/ Restart
    \/ \E g \in ImportGenesisStates :
          \* ValidateGenesis runs Params.Validate on the file's params
          /\ ParamsValidate(g.params)
          /\ ImportGenesis(g)

GenesisSpec == Init /\ [][GenesisNext]_vars

-----------------------------------------------------------------------------
(* Properties.                                                             *)

(* The ledger and the params have their types, and the deflationary      *)
(* percents in force are fractions in [0, 1], however the params got      *)
(* there: genesis, a parameter change or a restart.                       *)
GenesisTypeOK ==
    /\ bank \in Store
    /\ raw \in Store
    /\ \E D \in SUBSET Denoms : params.rules \in [D -> Rule]
    /\ \A d \in DOMAIN params.rules :
          {params.rules[d].burnPercent, params.rules[d].liquidityPercent,
           params.rules[d].feeTaxPercent} \subseteq 0..Precision
    /\ msg.type \in {"genesis", "send", "multisend", "poolspend", "params",
                     "restart", "import"}

(* A restart from the chain's own export that InitGenesis accepts loses   *)
(* and invents nothing: balances, supply, both pools and the params are   *)
(* those of the chain that exported them.  Breaks if ExportGenesis        *)
(* misplaces a pool, or InitGenesis rebuilds the supply from anything but *)
(* the balances it loads while the running chain's supply drifts from     *)
(* them.                                                                   *)
RestartPreservesLedger ==
    [][ (msg'.type = "restart" /\ outcome' = "ok") =>
          /\ bank'.bal = bank.bal
          /\ bank'.supply = bank.supply
          /\ bank'.liq = bank.liq
          /\ bank'.fee = bank.fee
          /\ params' = params ]_vars

-----------------------------------------------------------------------------
(* Properties the code does not keep; each is checked by a run that       *)
(* expects a violation.                                                   *)

(* A chain's exported genesis can always be imported: restarting from the *)
(* state ExportGenesis writes never makes InitGenesis panic.  The module  *)
(* holdings are never summed (genesis.go l.31), so once the module        *)
(* account holds tax its balance cannot match them (l.62).                *)
ExportedGenesisImports ==
    [][ msg'.type = "restart" => outcome' = "ok" ]_vars

=============================================================================
