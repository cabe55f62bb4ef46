CONSTANTS
    Word <- MCWord
    Add <- MCAdd
    Sub <- MCSub
    Exor <- MCXor
    Rol <- MCRol
    Ror <- MCRor
    Delta <- MCDelta
    NoWord <- MCNoWord
    MasterKeys <- MCMasterKeys
    Plaintexts <- MCPlaintexts
SPECIFICATION CryptoSpec
INVARIANTS
    DecryptUndoesEncrypt
    PublishedVectors
    PiecesAreOneMessage
    EndedTurnsBack
    HashesAgree
    HashOfWhole
    TagIsHmac
