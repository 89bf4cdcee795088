-------------------------------- MODULE MCPeer --------------------------------
(* Instances of Peer for TLC.  The blocks have one, three and five           *)
(* transactions, so that rows of the tree with one node too few occur below  *)
(* and above the leaves; one merkle block has lost its last hash.            *)
EXTENDS Peer

Block(list, matched, whole) == [txs |-> list, matched |-> matched, whole |-> whole]

Offers == {Block(<<2>>, {}, TRUE),
           Block(<<1, 2, 3>>, {1, 3}, TRUE),
           Block(<<4, 5, 6, 7, 3>>, {5}, TRUE),
           Block(<<1, 2, 3>>, {1, 3}, FALSE)}
FewOffers == {Block(<<2>>, {}, TRUE)}
WantedOffers == {Block(<<1, 2, 3>>, {1, 3}, TRUE)}
SentTx == {1, 3}

(* The hypothesis of PeerProofs holds of the offers of the runs.             *)
ASSUME MerkleBlocksChecked == MerkleSound
=============================================================================
