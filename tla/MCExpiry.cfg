SPECIFICATION Spec
CONSTANTS
    None = None
    Malformed = Malformed
    Env <- EnvValue
    PriceSettings <- PriceSettingsValue
    BundledPricing <- BundledPricingValue
    Loadable = {"guard"}
    Files <- FilesValue
    Materials <- MaterialsValue
    Bundles <- BundlesValue
    Operators = {o1, o2}
    KeyIds = {k1, k2}
    Expiries = {None, 1}
    Distributed <- DistributedValue
    MaxEvents = 4
INVARIANT
    KeysExpireAsAsked
CHECK_DEADLOCK FALSE
