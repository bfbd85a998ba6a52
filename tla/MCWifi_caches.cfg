\* Addresses expire after two uses; two networks; the handle's owner may shut
\* WiFi down.  A device whose connection task has ended, or that serves a
\* network nobody asks anything of, does nothing more: deadlock is not checked.
SPECIFICATION FairSpec
CONSTANTS
  Ssids = {"home", "other"}
  Aps <- AccessPoints
  None = None
  AuthMethods = {0, 3}
  DefaultAuth = 3
  UnknownAuth = 99
  MaxStaticIpUses = 2
  MaxAddresses = 2
  MaxFaults = 3
INVARIANTS TypeOK CacheIsOneAp NotConnectedAtTop ShutdownMeansOff
PROPERTIES ShutdownCompletes GetsOnline
CHECK_DEADLOCK FALSE
