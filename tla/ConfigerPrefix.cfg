SPECIFICATION Spec
CONSTANTS
    Configs <- PrefixConfigs
    Hosts <- MCHosts
    Letters <- MCLetters
    MAX_DIRECTORIES = 10
    MAX_EXECUTABLES = 4
    MAX_FILE_COPIES = 8
    MAX_SYMLINKS = 8
INVARIANTS NecessaryFilesListed
CHECK_DEADLOCK FALSE
