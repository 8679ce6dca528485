CONSTANTS
    nightly = nightly
    b1 = b1
    b2 = b2
    image = image
    rootfs = rootfs
    desktop = desktop
    None = None
    Bundles = {b1, b2}
    Images = {image}
    Rootfs = {rootfs}
    Channel = nightly
    Extras = {desktop}
    ProfilesOf <- Offer
    Listings <- Bucket
    Catalogs <- UpOrDown
    Unreliable <- MayFail
    OpenedLevels = {"builds"}
    OpenedBuilds = {image}
    Workers = {w1, w2}

SPECIFICATION FairSpec

INVARIANT TypeOK
PROPERTY KeepsPicks
PROPERTY ListingSettles
PROPERTY BundleResolves
PROPERTY SelectedIsLoaded
