SPECIFICATION Spec
CONSTANTS
    i1 = i1
    i2 = i2
    i3 = i3
    i4 = i4
    i5 = i5
    Item <- MCItem
    Tile <- MCTile
    TileOf <- MCTileOf
    Bucket = {b1, b2}
    Node = {n1, n2, n3}
    NULL = NULL
INVARIANTS
    IndexExact
PROPERTY
    ImplementsTileIndex
SYMMETRY MCSymmetry
