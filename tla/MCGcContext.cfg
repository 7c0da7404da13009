SPECIFICATION Spec
CONSTANTS
    shader = shader
    gctx = gctx
    rubbishctx = rubbishctx
    b1 = b1
    b2 = b2
    b3 = b3
    NULL = NULL
    Free = Free
    Blocks <- MCBlocks
    Shader <- shader
    Gctx <- gctx
    Rubbish <- rubbishctx
    NumObjs = 2
    Unused = Unused
    Large = Large
    NoObject = NoObject
SYMMETRY MCSymmetry
INVARIANTS
    LinksAgree
    SlabsAddUp
PROPERTIES
    ImplementsGc
