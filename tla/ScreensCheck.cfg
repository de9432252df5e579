SPECIFICATION FairSpec
CONSTANTS
  Buttons = {back}
  Apps = {a, b}
  Places = {home, usb}
  Home = home
  Sleep = sleep
  UsbDrive = usb
  Nobody = nobody
  MaxDepth = 1
INVARIANTS TypeOK ReleaseIsOwn GateLetsOwnThrough DrawsTheLiving ResultToStarter
PROPERTIES WaitEnds RequestIsDrawn
