CONSTANTS
    Files = {"app", "lib", "types"}
    DeclarationFiles = {"types"}
    Texts <- MCTexts
    Inexpressible = {"nested"}
    MaxEdits = 2
    NoFile = "no file"
SPECIFICATION Spec
INVARIANT ContentFits
