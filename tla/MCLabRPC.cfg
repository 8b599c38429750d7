SPECIFICATION FairSpec
CONSTANTS
  end1 = end1
  s = s
  Request = {x1, x2}
  End = {end1}
  Name = {s}
  EndOf <- OneEnd
  NameOf <- OneServer
  Hanging = {x2}
  MaxRestarts = 1
PROPERTIES ImplementsRPC CallsReturn HandlersEnd
CHECK_DEADLOCK FALSE
