CONSTANTS
    Texts = {"t1", "t2", "t3", "t4"}
    NoText = "NULL"
    HashOf <- TextHash
    Primes <- TablePrimes
    Kinds = {"int", "utf8", "name", "directory", "type", "system"}
    MaxEntries = 5
    W = 2
    Sets = {"da", "du"}
    MaxSize = 3
    Names = {"a", "b"}
    IndexOf <- NameIndex
    HashPrimes <- SlotPrimes
    Estimates = {0, 2}
    Holders = {"path", "directory", "package", "type", "block"}
    MaxSymbols = 5
    Symbols = {"a1", "a2", "b", "c"}
    NoSymbol = "NULL"
    Identity <- SymbolNames
    SymbolSetIds = {"x", "y"}
    Looped = "x"
    IntBits = 8
    LongBits = 16
    LiteralTexts <- JavaLiterals
    Negated <- PlainNegated
    SourceTexts <- InputTexts
    Compilations <- JavaCompilations
    Synonyms <- NameSynonyms
SPECIFICATION FrontEndSpec
INVARIANTS
    FindsLatest
    SymbolsAreFound
    SymbolSetsAreSets
    LiteralsMeanJava
    TextIsTranslated
    TokensAreJava
PROPERTY BitsAreSets
CHECK_DEADLOCK FALSE
