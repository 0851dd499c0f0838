SPECIFICATION StorageSpec
CONSTANT MaxVersion = 4
INVARIANTS CrashConsistent CompleteIsDurable ResultHonest
