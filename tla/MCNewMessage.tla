----------------------------- MODULE MCNewMessage -----------------------------
(* Hash functions for the TLC run of NewMessage: affine ones on the numbers of *)
(* as many bytes; the factor 0 makes all nonces equal, 6 some of them.         *)
EXTENDS NewMessage

Bytes(v, length) == [i \in 1 .. length |-> (v \div (2 ^ (Bits * (i - 1)))) % (2 ^ Bits)]

Affine ==
    {[s \in Nonce |-> Bytes(p * LittleEndian(s) + q, HashLength)] :
        p \in {0, 1, 3, 6}, q \in 0 .. 2 ^ (Bits * HashLength) - 1}
===============================================================================
