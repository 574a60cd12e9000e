SPECIFICATION LibrarySpec
CONSTANTS
    k1 = k1  k2 = k2  k3 = k3  s1 = s1  s2 = s2
    Keys = {k1, k2, k3}
    Slots = {s1, s2}
    SlotOf <- SomeSlots
    Values = {1, 2}
    Few = 2
    NoKey = NoKey
    NoItem = NoItem
    MaxNodes = 4
    Chars = {"a", "!"}
    Nul = Nul
    Fill = "!"
    Strings <- SomeStrings
    InitSizes = {1, 2, 6}
    MaxSize = 6
    TextChars = {"a", "b", ","}
    Delimiter = ","
    Sources <- Texts
    Added <- SomeWords
    MaxStrings = 3
    Nothing = 0
    Items = {x, y, z}
    DefaultSize = 1
    IncSize = 1
    MaxSlots = 3
CHECK_DEADLOCK FALSE
\* One of these at a time: each of them is violated.
INVARIANT NextIfThereIsOne
\* INVARIANT CloneIsCopy
\* INVARIANT AllReadBack
