CONSTANTS
    p1 = p1
    it = it
    time = time
    Null = Null
    Dash = Dash
    Phones <- OnePhone
    Languages <- ItalianOnly
    DayCount = 2
    Texts <- TwoTexts
    MaxSaves = 1
SPECIFICATION Spec
PROPERTIES
    SavedAsTyped
