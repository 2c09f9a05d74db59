SPECIFICATION FairSpec
CONSTANTS
    Paths <- MCPaths
    Notes <- MCNotes
    NotesOf <- MCNotesOf
    Bodies = {b1, b2}
    Absent = Absent
    Calls = {c, s}
    Sweeper = s
    Dissolving <- MCDissolving
    Protected = {system}
    Routed <- MCRouted
    Legacy <- MCLegacy
    Limits <- MCLimits
    MaxSaves = 1
    record = record
    other = other
    system = system
    b1 = b1
    b2 = b2
INVARIANT TypeOK ReportIsTrue ReportIsWhole
PROPERTY RemovedIsStored SweepStaysInScope ImplementsArchive CallsEnd SweepsEnd
