---------------------------- MODULE MCBitcoinKeys ----------------------------
(* An instance of BitcoinKeys for TLC: users and tabs are alike.             *)
EXTENDS BitcoinKeysProofs, TLC

CONSTANTS alice, bob, t1, t2, n1

Alike == Permutations({t1, t2}) \cup Permutations({alice, bob})
==============================================================================
