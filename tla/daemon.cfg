SPECIFICATION FairLaunchSpec
CONSTANTS
  l1 = l1
  l2 = l2
  l3 = l3
  d1 = d1
  d2 = d2
  d3 = d3
  d4 = d4
  Nothing = Nothing
  Launchers <- ThreeLaunchers
  Locking <- TwoLaunchers
  Daemons <- FourDaemons
  MaxMishaps = 2
CHECK_DEADLOCK FALSE
PROPERTIES
  ServiceSpec
  LaunchSucceeds
