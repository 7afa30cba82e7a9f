CONSTANTS
    Files = {1, 2, 3, 4}
    Names = {"nvidia-smi", "libcuda", "libnvidia", "libnvidia.so.1"}
    NameOf <- MCNameOf
    DefaultOf <- MCDefaultOf
    Smi = "nvidia-smi"
    Executables = {"nvidia-smi"}
    ApprovedChunks = 2
    MaxChunks = 7
    NoFile = NoFile
    Foreign = Foreign

SPECIFICATION ContainerSpec

INVARIANTS
    ContainerTypeOK
    AttestedNamesApproved
    DescriptorsOwned
    CopiesBounded
    LibrariesExact

CHECK_DEADLOCK FALSE
