SPECIFICATION TextSpec
CONSTANTS
    Inputs <- MCInputs
    GameTexts <- MCGameTexts
    Carets <- MCCarets
    MaxBytes = 4
INVARIANTS
    NoCharacterIsTorn
    CaretsAgree
PROPERTIES
    ImplementsTextField
