SPECIFICATION Spec
CONSTANTS
  TcpServices <- MCTcpServices
  UdpServices <- MCUdpServices
  group_unk = TRUE
  Frames <- TalkFrames
  Modes = {"LINK6", "IP", "TCP"}
  Resolvable = {}
  Toggles = FALSE
  Purges = {}
  MaxPackets = 3
  Addresses = {"ipS", "ipC", "macS", "macC"}
  Ports = {0, 900, 901, 1024, 1025}
  Labels = {"FTP-PASSIVE", "NFS", "MOUNT"}
INVARIANTS
  ConversationsHaveLinks
  TransferLabelled
  OwnName
PROPERTIES
  ConversationsKept
  KeptWhileLinked
