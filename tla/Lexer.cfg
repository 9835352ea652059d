CONSTANTS
    Sources <- MCSources
    ImportWord <- MCImportWord
    MaxText = 10
    MaxTokens = 10
SPECIFICATION FairSpec
INVARIANTS
    TypeOK
    LineIsCounted
    TokensAsWritten
PROPERTY
    CallsReturn
