\* The category tree, edited by overlapping requests.
SPECIFICATION CatalogueSpec
CONSTANTS
  c1 = c1
  c2 = c2
  c3 = c3
  drinks = drinks
  snacks = snacks
  tea = tea
  r1 = r1
  r2 = r2
  Root = Root
  Categories <- MCCategories
  Names <- MCNames
  Goods <- MCGoods
  Slots <- MCSlots
SYMMETRY IdsAndSlots
INVARIANTS
  NothingOrphaned
  SubcategoryNamesDiffer
CHECK_DEADLOCK FALSE
