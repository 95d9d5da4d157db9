SPECIFICATION Spec
CONSTANTS
    Hosts = {h1, h2}
    VpnHosts = {h2}
    MAX_PANES = 3
    MaxClicks = 5
    TabIds = {1, 2, 3, 4, 5, 6, 7, 8}
    PaneIds = {1, 2, 3, 4, 5, 6, 7, 8, 9, 10, 11, 12}
    None = None
    SavedBefore <- MCSavedBefore
    Dead <- MCDead
    Trees <- MCTrees
    CollectLeaves <- MCCollectLeaves
    SplitLeaf <- MCSplitLeaf
    RemoveLeaf <- MCRemoveLeaf
    SerializeLayout <- MCSerializeLayout
    SavedHosts <- MCSavedHosts
    DeserializeLayout <- MCDeserializeLayout
    Number <- MCNumber
INVARIANTS TabsWellFormed ReopensWhatWasSaved
PROPERTIES DropExact PaneEditsLocal
CHECK_DEADLOCK FALSE
