SPECIFICATION Spec
CONSTANTS
  a = a
  b = b
  Cells = {1, 2, 3, 4, 5}
  head = 1
  DNULL = DNULL
  Fault = Fault
  home = home
  Top = Top
  Names = {a, b}
  Paths <- MCPaths
  MaxStores = 2
INVARIANTS
  TypeOK
  LinksAgree
  
  

  
  
