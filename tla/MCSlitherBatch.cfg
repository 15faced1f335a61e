SPECIFICATION Spec
CONSTANTS
    p1 = p1  p2 = p2  l1 = l1  l2 = l2  m = m  u = u  x = x
    hp = hp  hl = hl  hs = hs  hm = hm
    Workers = {w1, w2}
    Addresses = {p1, p2, l1, l2, m, u, x}
    Hashes = {hp, hl, hs, hm}
    HashOf <- SmallHashOf
    Rows <- SmallRows
    Published = {p1, l1, l2}
    Listed = {p1, p2, l1, l2, m, u}
    Minimal = {m}
    Compilable = {hp, hl, hs}
    Slow = {hs}
    Imported <- SmallImports
    MaxRuns = 2
    MaxAborts = 1
INVARIANTS
    TypeOK
    RereadFinds
    CollisionsBacked
    CleanRunComplete
    VerdictsJustified
 
CHECK_DEADLOCK FALSE
