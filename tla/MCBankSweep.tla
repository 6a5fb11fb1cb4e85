------------------------------ MODULE MCBankSweep ------------------------------
(* Two configurations, every option, two runs: the second meets whatever the    *)
(* first has left behind.  One selection has a name twice, one an unknown name.  *)
EXTENDS BankSweep

MCConfigs == {"cache_pf", "nocache_nopf"}
MCSelections ==
  {<<"cache_pf", "nocache_nopf">>, <<"nocache_nopf", "nocache_nopf">>, <<"cache_pf", "cache_fp">>}
=============================================================================
