CONSTANTS
  login = login
  script = script
  CheckUri = checkUri
  GatewayUrl = gatewayUrl
  NoUrl = noUrl
  Chains = {1, 2}
  Redirects = {login}
  Unsafe = {}
  Connectivities <- MCConnectivities
  MaxSlow = 0
  MaxWedges = 0
  MaxDebug = 0
SPECIFICATION Spec
PROPERTIES
  NoAutoOpenWhenFull
