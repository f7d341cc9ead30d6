---------------------------- MODULE MCBinMemory ----------------------------
(* The memory of an index: newIndex lays out the buckets, then the words of *)
(* a bin go through what the operations and the resize do to them.          *)
EXTENDS HeaderWord, BucketLayout

\* Bound: what happens to the words of a bin does not depend on where the bin
\* lies, so they are followed in one table only
Followed == /\ ask.n = 1 /\ ask.line = 8
            /\ DOMAIN got = {"primary"} /\ got["primary"].addr = 0 /\ got["primary"].size = 24

MemoryInit == LayoutInit /\ Init
MemoryNext == \/ LayoutNext /\ UNCHANGED vars
              \/ Followed /\ Next /\ UNCHANGED layoutVars
MemorySpec == MemoryInit /\ [][MemoryNext]_<<layoutVars, vars>>
=============================================================================
