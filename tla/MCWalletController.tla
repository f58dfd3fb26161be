------------------------ MODULE MCWalletController ------------------------
\* WalletController with one or two wallet names, for TLC.
EXTENDS WalletController
===========================================================================
