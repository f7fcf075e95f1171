------------------------------ MODULE MCWalletSetup ------------------------------
(* Two test signers and two mainnet ones; two ways to write down one wallet, one wallet *)
(* of the other architecture, one for mainnet, and a descriptor that does not parse.    *)
EXTENDS WalletSetup

CONSTANTS sam, tia, ulf, vic

Part(signer, tail) == [signer |-> signer, tail |-> tail]

Descriptor(parts, tail, layout) == [parts |-> parts, tail |-> tail, layout |-> layout]

MCKind == [s \in Signers |-> IF s \in {sam, tia} THEN "test" ELSE "main"]

MCTexts ==
  {Descriptor(<<Part(sam, ""), Part(tia, "")>>, Step, "spaced"),
   Descriptor(<<Part(tia, ""), Part(sam, "")>>, Step, "tidy"),
   Descriptor(<<Part(tia, Step), Part(sam, Step)>>, "", "tidy"),
   Descriptor(<<Part(ulf, Step), Part(vic, Step)>>, "", "tidy"),
   Descriptor(<<Part(sam, Step), Part(tia, "")>>, "", "tidy")}

MCIndices == {[last |-> 0, change |-> 0], [last |-> 1, change |-> 2]}
===============================================================================
