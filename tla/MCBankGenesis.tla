---------------------------- MODULE MCBankGenesis ----------------------------
(***************************************************************************)
(* The keeper's model values and bounds (MCBankKeeper) with the genesis    *)
(* files a chain may be started from: the original genesis, and the same   *)
(* balances under a valid and an out-of-range deflationary rule.          *)
(***************************************************************************)
EXTENDS BankGenesis, MCBankKeeper

\* genesis files whose balances and pools InitGenesis accepts, under the
\* default params, a valid rule, and a rule with a fee tax above one
MCImportGenesisStates ==
    {[g EXCEPT !.params = p] :
        g \in MCGenesisStates,
        p \in {DefaultParams, ParamsWith("atom" :> TaxAtomToU2),
               ParamsWith("atom" :> [TaxAtomToU2 EXCEPT !.feeTaxPercent = 101])}}

=============================================================================
