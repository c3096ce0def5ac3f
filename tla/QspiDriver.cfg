\* A chip of four pages, two sectors and one large block.
SPECIFICATION Spec
CONSTANTS
  Size = 4
  SectorPages = 2
  BlockPages = 4
  Values = {"a"}
  MaxResets = 2
INVARIANT NothingIgnored
PROPERTIES StoresAsAsked CallsReturn
