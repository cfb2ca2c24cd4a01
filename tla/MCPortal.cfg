CONSTANTS
  login = login
  script = script
  CheckUri = checkUri
  GatewayUrl = gatewayUrl
  NoUrl = noUrl
  Chains = {1, 2, 3}
  Redirects = {login}
  Unsafe = {}
  Connectivities <- MCConnectivities
  MaxSlow = 1
  MaxWedges = 1
  MaxDebug = 1
SPECIFICATION FairSpec
INVARIANTS
  PortalUrlIffPortal
PROPERTIES
  AutoOpenRationed
  LockIsReleased
  ClickIsAnswered
