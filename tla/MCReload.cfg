\* A promise the code does not keep when two calls of lf_reload overlap.
SPECIFICATION Spec
CONSTANTS
    MaxModelCalls = 0
    Contents <- SmallContents
    Nil = nil
    Reloaders = {r1, r2}
    Catalog <- SmallCatalog
INVARIANTS ReloadedIsUsed
