------------------------- MODULE MCTrinityContract -------------------------
(* Small instances of TrinityContract for TLC: alice and bob share the      *)
(* channels; the documents are the ones their wallets sign.                 *)
EXTENDS TrinityContract

CONSTANTS alice, bob, c1, c2, h1

MCFounder == [c \in Channels |-> alice]
MCPeer == [c \in Channels |-> bob]
MCSupply == [a \in Addr |-> IF a = alice THEN 4 ELSE 2]

Common(c, n, x, y) == [ch |-> c, nonce |-> n, founderBalance |-> x, partnerBalance |-> y]
Payment(c, n, x, y, h) ==
    [ch |-> c, nonce |-> n, founderBalance |-> x, partnerBalance |-> y, opens |-> h]
Lock(c, s, r, t, n, h) ==
    [ch |-> c, sender |-> s, receiver |-> r, lockTime |-> t, lockAmount |-> n, lockHash |-> h]

\* One channel founded with 2 + 1: payment 2 gives alice a token of bob's, payment
\* 3 locks one of hers under h1, payment 4 delivers it, and the partners may
\* close together.
OneLock == {Lock(c1, alice, bob, 2, 1, h1)}
TwoTx ==
    {Payment(c1, 2, 3, 0, NoHash), Payment(c1, 3, 2, 0, NoHash), Payment(c1, 4, 2, 1, h1)}

\* The second channel is only funded: what happens to its deposit when the first
\* one is settled.
TwoCommon == {Common(c1, 1, 2, 1), Common(c1, 0, 1, 2), Common(c2, 1, 1, 0), Common(c2, 0, 0, 1)}
=============================================================================
