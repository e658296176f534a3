SPECIFICATION ClientSpec
CONSTANTS
    Conns = {k1, k2, k3}
    Chans = {ch1, ch2}
    None = None
    NotSaid = NotSaid
    Connections = {"c1", "c2"}
    Nodes = {1, 2}
    Edges = {3}
    Ends <- EndNodes
    NewValues = {1}
    Setters <- WaysToSet
    MaxStored = 2
    MaxVersion = 2
    MaxLost = 1
    Radix = 4
    Sizes = {0, 1, 4, 8, 9}
    Writable <- Writables
    MaxWrites = 3
    Values <- Settable
    ByteSize = 4
    ShortSize = 8
    IntSize = 16
    MaxString = 8
    NodeIds = {1, 2}
    EdgeIds = {3, 4}
    EndsOf <- Loops
    MaxEntities = 4
    OptionValues <- OptionsSet
    Additions <- OptionsAdded
    Hashes = {1}
    Ports <- SettingPorts
    Spelling <- SettingSpelling
    Configs <- SettingConfigs
    AliasFirst <- SettingAliasFirst
    Default <- SettingDefaults
    Given <- SettingsGiven
    MaxSets = 2
INVARIANT DocumentedUserRule
CHECK_DEADLOCK FALSE
