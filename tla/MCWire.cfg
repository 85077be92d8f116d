SPECIFICATION Spec
CONSTANTS
  Convs = {"vless0", "vless1", "trojan", "simplesocks", "shadowsocks", "shadowsocks_own",
           "vmess", "http_connect", "http_get", "http_auth", "preset", "ws", "socks5",
           "socks5http", "vless0_reply", "vmess_reply", "preset_reply", "socks5_reply"}
  Payload = 3
  ReadMax = 14
  Formats = {"vless0", "vless1", "vless1_multi", "trojan", "simplesocks"}
  Downlinks = {d1, d2}
  MaxWritten = 2
  MaxSize = 2
  MaxPackets = 2
  MaxRecords = 3
  Total = 5
  CopyRoom = 2
  BufLen = 2
  BufCount = 2
  Framings = {"ws", "grpc", "chunked", "aead", "fake", "shadow"}
  MaxTokens = 4
  MaxFrame = 2
  MaxBuffer = 3
  Counters = 2
  PrefixRoom = 1
  Sources = {s1, s2}
  MaxRequests = 2
  MaxReplies = 1
  MaxData = 1
  MaxApps = 4
  MaxTickets = 1
  None = None
INVARIANTS
  RequestUnderstood
  DatagramsKept
  SwitchedAtOnce
  StreamKept
PROPERTIES
  ImplementsHandover
CHECK_DEADLOCK FALSE
