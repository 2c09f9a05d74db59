SPECIFICATION Spec
CONSTANTS
    Files <- MCFiles
    NameOnly = {}
    Pruned = {right}
    Stems <- MCStems
    Stem <- MCStem
    Front = {plain, child}
    HasUp <- MCHasUp
    Up <- MCUp
    Refs <- MCRefs
    UpRefs <- MCUpRefs
    Notes <- MCNotes
    None = None
    MaxEdits = 2
    home = home
    left = left
    right = right
    plain = plain
    child = child
INVARIANT IndexTypeOK EntriesAgree LinksAgree ReadersAgree
PROPERTY EventsEnd ImplementsEntries
CHECK_DEADLOCK FALSE
