SPECIFICATION FairSpec
CONSTANTS
    Levels = {0, 1}
    Rates = {44100, 48000}
    Slots = {0, 1}
    Sources <- MCSources
    SourceValues <- MCSourceValues
    SlotValues <- MCSlotValues
    Labels = {Unnamed, "Night"}
    Devices <- MCDevices
    Nothing = Nothing
    Unnamed = Unnamed
    Kinds = {"mute", "preset", "rate", "name"}
    MaxEvents = 2
INVARIANTS TypeOK ShowsReadable MaskSettled ShownStaleHasRemedy
PROPERTIES NeverOptimistic EntitiesFollow
