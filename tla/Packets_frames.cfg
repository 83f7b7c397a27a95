SPECIFICATION Spec
CONSTANTS
  TcpServices <- MCTcpServices
  UdpServices <- MCUdpServices
  group_unk = FALSE
  Frames <- AllFrames
  Modes = {"LINK6", "IP", "TCP"}
  Resolvable = {"ipC"}
  Toggles = TRUE
  Purges = {"SLL", "FDDI", "IEEE802"}
  MaxPackets = 1
  Addresses = {"ipS", "ipC", "macS", "macC"}
  Ports = {0, 900}
  Labels = {"NFS"}
INVARIANTS
  TypeOK
  IdsFitMode
  PpiCacheHarmless
  NamesAligned
