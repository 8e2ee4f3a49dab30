\* A review at a step cap it can hit, while the registry is edited and reloaded.
SPECIFICATION Spec
CONSTANTS
    MaxModelCalls = 1
    Contents <- SmallContents
    Nil = nil
    Reloaders = {r1}
    Catalog <- SmallCatalog
INVARIANTS SelectionBest ConfigInForce GateStaysUp ReportIffSuccess ReloadedIsUsed
