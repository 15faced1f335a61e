--------------------------- MODULE MCSlitherBatch ---------------------------
(* A small instance of SlitherBatch for TLC. *)
EXTENDS SlitherBatch, TLC

CONSTANTS p1, p2, l1, l2, m, u, x, hp, hl, hs, hm

\* Two proxies with the same bytecode, of which only p1 has its source
\* published, share the logic contract l1.  Of the other logic contracts slither
\* is slow at l2, u has an unknown hash, m is a minimal proxy, and x, which
\* proxy_info does not know, has the bytecode of l2.
SmallHashOf == (p1 :> hp) @@ (p2 :> hp) @@ (l1 :> hl) @@ (l2 :> hs) @@ (x :> hs) @@ (m :> hm)
SmallRows == { [proxy |-> p1, impls |-> <<x, u, l1>>], [proxy |-> p2, impls |-> <<l2, m, l1>>] }
SmallImports == hl :> l1

============================================================================
