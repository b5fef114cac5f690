SPECIFICATION GateSpec
CONSTANTS
    Proposals <- MCProposals
    ManifestValues <- MCManifests
    Unset = "unset"
    Gone = Gone
    Broken = Broken
    PrepRuntimes = {"prep"}
    PrepPrompts = {"none"}
    MaxProposalEdits = 1
PROPERTY SoundProposalsStart
CHECK_DEADLOCK FALSE
