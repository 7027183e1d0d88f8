SPECIFICATION FairSpec
CONSTANTS
  wmi = wmi  htt = htt  be = be  bk = bk  ctrl = ctrl
  WMI_CONTROL_SVC = wmi  HTT_DATA_MSG_SVC = htt  WMI_DATA_BE_SVC = be
  WMI_DATA_BK_SVC = bk  HTC_CTRL_RSVD_SVC = ctrl
  NoService = noservice  NoMessage = nomessage
  EndpointMax = 3  CreditOffers = {0, 1, 4, 255, 300}
CHECK_DEADLOCK FALSE
INVARIANTS ResponseMatchesRequest NoFatalReceive ServicesKeepEndpoints CreditsWithinOffer
PROPERTIES HandshakeEnds
