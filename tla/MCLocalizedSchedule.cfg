CONSTANTS
    p1 = p1
    it = it
    en = en
    time = time
    Null = Null
    Dash = Dash
    Phones <- OnePhone
    Languages <- TwoLanguages
    Default = it
    DayCount = 2
    Texts <- TwoTexts
    MaxSaves = 2
    MaxChoices = 2
SPECIFICATION LocalizedSpec
INVARIANTS
    TypeOK
    LanguageTypeOK
    PrefixStored
    RowsAreDays
    ShownIsKept
    OneLanguage
PROPERTIES
    FirstSaveAsTyped
