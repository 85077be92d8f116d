SPECIFICATION FairSpec
CONSTANTS
  Subs = {s1, s2}
  Base = Base
  None = None
  Carriers = {"plain", "grpc", "quic", "smux", "self"}
  Chunks = 2
INVARIANTS
  PayloadFaithful
  InboundReleased
  OutboundReleased
  ActiveCounted
PROPERTIES
  RelayEndSparesCarrier
  RelayTornDown
  NoUploadLeftBehind
