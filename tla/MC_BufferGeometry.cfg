SPECIFICATION Spec
INVARIANTS
    ResampleFitsScratch
    ProviderReadFitsScratch
