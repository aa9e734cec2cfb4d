SPECIFICATION Spec
CONSTANTS
  None = None
  Calls <- MCCalls
  cu1 = cu1  tty1 = tty1  acm = acm  usb0 = usb0
  Ports <- MCPorts
  Cu <- MCCu
  Picos = {cu1}
  Candidates = {cu1, tty1, acm, usb0}
INVARIANTS TakesOnlyWhatWasMeant AutoDetectFindsProgrammer
