SPECIFICATION Spec
CONSTANTS
  alice = alice
  bob = bob
  carol = carol
  Ips = {alice, bob, carol}
  Allowlist = {alice, bob}
  RequireKey = TRUE
  Slots = {r1, r2}
  NoIp = NoIp
  Token = 2
  Rps = 3
  Burst = 3
  PerIpRps = 1
  PerIpBurst = 2
  MaxTime = 3
SYMMETRY MCSymmetry
INVARIANTS
  TypeOK
  GlobalWindow
  PerIpWindow
PROPERTIES
  RefusalsAreEarned
