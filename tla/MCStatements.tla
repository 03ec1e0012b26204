---------------------------- MODULE MCStatements ----------------------------
(* The small instance of Statements that PoolShared.cfg gives TLC.    *)
(* Liveness is checked in the same run, so symmetry is not used.            *)
EXTENDS Statements

\* Two sessions register one character, as a member of a guild and of none; a
\* third stores an item of the character and a fourth offers it for sale.
FourPackets == {
    [id |-> "CHARACTER_INFO", character |-> 1, adventure |-> 1, guild |-> 1],
    [id |-> "CHARACTER_INFO", character |-> 1, adventure |-> 1, guild |-> 0],
    [id |-> "INVENTORY_INFO", character |-> 1, tab |-> 1, slot |-> 1, item |-> 1],
    [id |-> "AUCTION_INFO", auction |-> 1, seller |-> 1, item |-> 1]}

\* What DB/dummy_data.sql puts in first.
OneOfEach == {<<"adventure", 1>>, <<"guild", 1>>, <<"item_instance", 1>>}
=============================================================================
