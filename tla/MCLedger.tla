------------------------------- MODULE MCLedger -------------------------------
(***************************************************************************)
(* Two peers.  Peer 1 sends a chain of three messages and a fork of the    *)
(* second; peer 2 sends a reply to the first, a concurrent message, and a  *)
(* later one that reuses an id.                                            *)
(***************************************************************************)
EXTENDS Ledger

Msg(i, s, a, b, prev) ==
    [id |-> i, sender |-> s, vc |-> [p \in Peers |-> IF p = 1 THEN a ELSE b],
     prevHash |-> prev]

MCMessages ==
    {Msg(11, 1, 1, 0, NoHash), \* the chain of peer 1
     Msg(12, 1, 2, 0, 11),
     Msg(9,  1, 3, 1, 12),     \* saw the first message of peer 2
     Msg(14, 1, 3, 0, 11),     \* a fork of 12
     Msg(10, 1, 4, 0, 9),      \* concurrent with 9 although later
     Msg(21, 2, 0, 1, NoHash), \* concurrent with 11
     Msg(22, 2, 1, 2, 21),     \* a reply to 11
     Msg(11, 2, 3, 3, 22)}     \* another message with the id 11
=============================================================================
