SPECIFICATION Spec
CONSTANTS
    Alphabet = {9, 10, 32, 35, 39, 48, 83, 108, 233}
    MaxLen = 5
    MergeFiles <- MCMergeFiles
    Vocab <- MCVocab
    AddedTokens <- MCAddedTokens
    OtherLetters = {233}
INVARIANTS
    PretokenIsRegex
    BpeIsReference
    Lossless
    SpecialsAreWhole
