SPECIFICATION Spec
CONSTANTS
  None = None
  Blank = Blank
  Torn = Torn
  Partial = Partial
  Keys = {k1, k2}
  k1 = k1
  k2 = k2
  Values = {1, 2, 3}
  Encoded <- MCEncoded
  Capacity = 1
  Backends = {"nvm", "littlefs", "nvs"}
INVARIANTS TypeOK 
  
