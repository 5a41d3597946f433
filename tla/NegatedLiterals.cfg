CONSTANTS
    Texts = {"t1"}
    NoText = "NULL"
    HashOf <- TextHash
    Primes <- TablePrimes
    Kinds = {"name"}
    MaxEntries = 1
    W = 1
    Sets = {"da"}
    MaxSize = 1
    Names = {"a"}
    IndexOf <- NameIndex
    HashPrimes <- SlotPrimes
    Estimates = {0}
    Holders = {"block"}
    MaxSymbols = 1
    Symbols = {"a1"}
    NoSymbol = "NULL"
    Identity <- SymbolNames
    SymbolSetIds = {"x"}
    Looped = "x"
    IntBits = 8
    LongBits = 16
    LiteralTexts <- DocumentedLiterals
    Negated <- AnyNegated
    SourceTexts <- NoInput
    Compilations <- NoCompilations
    Synonyms <- NameSynonyms
SPECIFICATION FrontEndSpec
INVARIANT LiteralsMeanJava
CHECK_DEADLOCK FALSE
