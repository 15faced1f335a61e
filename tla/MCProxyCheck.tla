---------------------------- MODULE MCProxyCheck ----------------------------
(* Small instances of ProxyCheck for TLC. *)
EXTENDS ProxyCheck

Facts(delegates, forwards, target, standard, admin, opaque) ==
    [delegates |-> delegates, forwards |-> forwards, target |-> target,
     standard |-> standard, admin |-> admin, opaque |-> opaque]

\* One contract for each way through proxy_check.
MCProxies ==
    { Facts(0, FALSE, "beacon", FALSE, TRUE, FALSE),   \* no proxy, admin slot in use
      Facts(1, FALSE, "slot", TRUE, FALSE, FALSE),     \* calls a library
      Facts(1, TRUE, "slot", TRUE, TRUE, FALSE),       \* ERC-1967 proxy
      Facts(2, TRUE, "slot", FALSE, FALSE, TRUE),      \* two calls, opaque opcode
      Facts(1, TRUE, "code", FALSE, FALSE, FALSE),     \* minimal proxy
      Facts(1, TRUE, "beacon", FALSE, FALSE, FALSE) }  \* beacon proxy

\* The proxies whose logic contract is kept in a slot.
SlotProxies == {p \in MCProxies : p.forwards /\ p.target = "slot" /\ ~ p.opaque}

============================================================================
