CONSTANTS
    Files = {f1, f2, f3}
    Remover = remover
    Supported = {"MSIX", "LEGACY"}
    MsiMaskBit = TRUE
    NativeIntx = TRUE
    WcActivate = FALSE
    Bars = 3
    MaxMaps = 2
    MaxPorts = 1
SYMMETRY FileSymmetry
SPECIFICATION Spec
INVARIANTS
    TypeOK
    RefcntIsOpeners
    OneEnabler
    OpenMeansEnabled
    IrqPaired
    NothingKept
    OrderlyRemoveQuiesces
    StaysSilent
