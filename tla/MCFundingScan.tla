------------------------------ MODULE MCFundingScan ------------------------------
(* FundingScan on two networks, two nodes and two outputs.                  *)
EXTENDS FundingScan

CONSTANTS testnet, signet, here, there, a, b
===============================================================================
