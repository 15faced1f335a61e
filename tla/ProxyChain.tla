----------------------------- MODULE ProxyChain -----------------------------
(***************************************************************************)
(* The archive node proxion asks about a proxy, as far as the history of   *)
(* its implementation slot goes: the word the slot holds after each block. *)
(* The node is not part of the repository; it is modelled from the         *)
(* eth_getStorageAt and eth_blockNumber queries of                         *)
(* src/proxion/__main__.py.  Blocks are only ever appended: the search     *)
(* addresses them by number and the code has no notion of a reorganisation.*)
(***************************************************************************)
EXTENDS Integers, Sequences

CONSTANTS
    Logics,       \* the non-zero words an implementation slot can hold
    ZeroWord,     \* the 32-byte zero reply of eth_getStorageAt
    EmptyReply,   \* the "0x" reply of eth_getStorageAt
    None,         \* the integer 0, to which get_val maps both replies
    MaxBlock      \* bound: the highest block number that is mined or asked for

ASSUME LogicsAssumption ==
    ZeroWord \notin Logics /\ EmptyReply \notin Logics /\ None \notin Logics

ASSUME MaxBlockAssumption == MaxBlock \in Nat \ {0}

VARIABLE chain    \* chain[b]: what the node answers for the slot at block b

Words  == Logics \cup {ZeroWord, EmptyReply}
Values == Logics \cup {None}
Block  == 1..MaxBlock

\* The conversion get_val applies to a reply.
ReplyValue(word) == IF word \in {ZeroWord, EmptyReply} THEN None ELSE word

SlotValue(b) == ReplyValue(chain[b])

\* The block "latest" stands for.
Height == Len(chain)

ChainInit == chain \in {<<w>> : w \in Words}

\* A block is mined; the proxy's owner may have upgraded the proxy in it.
Mine(word) ==
    /\ Height < MaxBlock
    /\ chain' = Append(chain, word)

ChainTypeOK ==
    /\ chain \in Seq(Words)
    /\ Len(chain) \in Block

----------------------------------------------------------------------------
(* The true history, which the code never computes *)

\* The blocks up to last in which the slot changed; before block 1 it is zero.
Upgrades(last) ==
    {b \in 1..last : SlotValue(b) # (IF b = 1 THEN None ELSE SlotValue(b - 1))}

\* Up to last, a value of the slot never comes back once it was replaced.
NeverReused(last) ==
    \A a, b, c \in 1..last :
        a < b /\ b < c /\ SlotValue(a) = SlotValue(c) => SlotValue(b) = SlotValue(a)

============================================================================
