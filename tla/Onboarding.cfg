SPECIFICATION Spec
CONSTANTS
  board = board
  camera = camera
  twin = twin
  nic1 = nic1
  nic2 = nic2
  ip1 = ip1
  ip2 = ip2
  t = t
  Hosts = {board, camera, twin}
  Vendor <- MCVendor
  Nic <- MCNic
  PortsOf <- MCPorts
  Ips = {ip1, ip2}
  Types = {t}
  Leases <- MCLeases
  Overrides = {"trusted"}
  Listed <- MCListed
  Sessions = {p1, p2}
  Nobody = Nobody
  NoRow = NoRow
SYMMETRY Symmetry
INVARIANTS
  TypeOK
  HolderWasVetted
  BlacklistFollowsTheDevice
CHECK_DEADLOCK FALSE
