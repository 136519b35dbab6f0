\* Five items, two on a page.
CONSTANTS
  Items = {i1, i2, i3, i4, i5}
  MaxItems = 2
SYMMETRY Symmetry
SPECIFICATION Spec
INVARIANT TypeOK
PROPERTIES LastPageMissesNothing LastPageMissesOnePage ShownTwiceMovedDown
