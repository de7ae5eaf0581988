\* The basket, restored, changed and ordered while screens come and go.
SPECIFICATION BasketSpec
CONSTANTS
  grocer = grocer
  baker = baker
  tea = tea
  soap = soap
  bread = bread
  r1 = r1
  r2 = r2
  NoShop = NoShop
  Shops <- MCShops
  Units <- MCUnits
  ShopOf <- MCShopOf
  Requests <- MCRequests
SYMMETRY UnitsAndSlots
INVARIANTS
  OneShopPerOrder
PROPERTIES
  SettledNotRepeated
  SavedIsKept
CHECK_DEADLOCK FALSE
